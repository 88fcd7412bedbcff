--------------------------- MODULE MigrateProofs ---------------------------
(***************************************************************************)
(* What overlapping runs and rollbacks of migrations can do to the schema  *)
(* and to the record of it, for any number of commands, any versions and   *)
(* any files.                                                              *)
(***************************************************************************)
EXTENDS Migrate, SequenceTheorems, FiniteSetTheorems, TLAPS

-----------------------------------------------------------------------------
(* Order *)

\* Ascending(S) has every number of S exactly once, each below those after it.
LEMMA AscendingIs ==
  ASSUME NEW S, S \subseteq Nat, IsFiniteSet(S)
  PROVE  /\ Cardinality(S) \in Nat
         /\ Ascending(S) \in [1..Cardinality(S) -> S]
         /\ \A i, j \in 1..Cardinality(S) : i < j => Ascending(S)[i] < Ascending(S)[j]
         /\ \A n \in S : \E k \in 1..Cardinality(S) : Ascending(S)[k] = n
<1> DEFINE c == Cardinality(S)
           upto(n) == {m \in S : m <= n}
           rank(n) == Cardinality(upto(n))
           R == [n \in S |-> rank(n)]
           A == Ascending(S)
<1>1. c \in Nat
  BY FS_CardinalityType
<1>2. \A n \in S : /\ IsFiniteSet(upto(n)) /\ upto(n) \subseteq S /\ n \in upto(n)
                   /\ rank(n) \in Nat /\ rank(n) <= c /\ rank(n) # 0
  <2> TAKE n \in S
  <2> DEFINE T == upto(n)
  <2>1. T \subseteq S /\ n \in T
    OBVIOUS
  <2> HIDE DEF T
  <2>2. IsFiniteSet(T) /\ Cardinality(T) <= Cardinality(S)
    BY <2>1, FS_Subset
  <2>3. Cardinality(T) \in Nat /\ Cardinality(T) # 0
    BY <2>1, <2>2, FS_CardinalityType, FS_EmptySet
  <2>4. QED
    BY <2>1, <2>2, <2>3 DEF T
<1>3. \A m, n \in S : m < n => rank(m) < rank(n)
  <2> SUFFICES ASSUME NEW m \in S, NEW n \in S, m < n
               PROVE  rank(m) < rank(n)
    OBVIOUS
  <2> DEFINE T == upto(m)
             V == upto(n)
  <2>1. T \subseteq V /\ n \in V /\ n \notin T
    <3>1. m \in Nat /\ n \in Nat /\ \A x \in S : x \in Nat
      OBVIOUS
    <3>2. \A x \in S : x <= m => x <= n
      BY <3>1
    <3>3. ~(n <= m) /\ n <= n
      BY <3>1
    <3>4. QED
      BY <3>2, <3>3
  <2>2. IsFiniteSet(V) /\ Cardinality(T) \in Nat /\ Cardinality(V) \in Nat
    BY <1>2
  <2> HIDE DEF T, V
  <2>3. Cardinality(T) <= Cardinality(V) /\ (Cardinality(T) = Cardinality(V) => T = V)
    BY <2>1, <2>2, FS_Subset
  <2>4. Cardinality(T) < Cardinality(V)
    BY <2>1, <2>2, <2>3
  <2>5. QED
    BY <2>4 DEF T, V
<1> HIDE DEF upto, rank, c
<1>4. R \in Injection(S, 1..c)
  <2>1. \A n \in S : rank(n) \in 1..c
    BY <1>1, <1>2 DEF rank
  <2>2. \A m, n \in S : rank(m) = rank(n) => m = n
    <3> SUFFICES ASSUME NEW m \in S, NEW n \in S, rank(m) = rank(n), m # n
                 PROVE  FALSE
      OBVIOUS
    <3>1. m < n \/ n < m
      OBVIOUS
    <3>2. rank(m) \in Nat /\ rank(n) \in Nat
      BY <2>1, <1>1
    <3>3. QED
      BY <1>3, <3>1, <3>2
  <2>3. QED
    BY <2>1, <2>2 DEF Injection, IsInjective
<1>5. R \in Surjection(S, 1..c)
  <2>1. IsFiniteSet(1..c) /\ Cardinality(1..c) = c
    BY <1>1, FS_Interval
  <2>2. QED
    BY <1>4, <2>1, FS_Injection DEF c
<1>6. \A k \in 1..c : \E n \in S : rank(n) = k
  BY <1>5 DEF Surjection
<1>7. A = [k \in 1..c |-> CHOOSE n \in S : rank(n) = k]
  BY DEF Ascending, rank, upto, c
<1>8. \A k \in 1..c : A[k] \in S /\ rank(A[k]) = k
  <2> TAKE k \in 1..c
  <2>1. A[k] = CHOOSE n \in S : rank(n) = k
    BY <1>7
  <2>2. QED
    BY <1>6, <2>1
<1> HIDE DEF A
<1>9. \A i, j \in 1..c : i < j => A[i] < A[j]
  <2> SUFFICES ASSUME NEW i \in 1..c, NEW j \in 1..c, i < j, ~(A[i] < A[j])
               PROVE  FALSE
    OBVIOUS
  <2>1. A[i] \in Nat /\ A[j] \in Nat
    BY <1>8
  <2>2. A[j] < A[i] \/ A[j] = A[i]
    BY <2>1
  <2>3. j < i \/ j = i
    BY <1>3, <1>8, <2>2
  <2>4. QED
    BY <1>1, <2>3
<1>10. \A n \in S : \E k \in 1..c : A[k] = n
  <2> TAKE n \in S
  <2>1. rank(n) \in 1..c
    BY <1>1, <1>2 DEF rank
  <2>2. A[rank(n)] \in S /\ rank(A[rank(n)]) = rank(n)
    BY <1>8, <2>1
  <2>3. A[rank(n)] = n
    BY <1>4, <2>2 DEF Injection, IsInjective
  <2>4. QED
    BY <2>1, <2>3
<1>11. A \in [1..c -> S]
  BY <1>7, <1>8
<1>12. QED
  BY <1>1, <1>9, <1>10, <1>11 DEF c, A

\* The elements at some places of a sequence, in their order.
LEMMA AtIs ==
  ASSUME NEW T, NEW s \in Seq(T), NEW places \in SUBSET DOMAIN s
  PROVE  /\ At(s, places) \in Seq(T)
         /\ ToSet(At(s, places)) = {s[i] : i \in places}
         /\ \E at \in [DOMAIN At(s, places) -> places] :
              /\ \A k \in DOMAIN At(s, places) : At(s, places)[k] = s[at[k]]
              /\ \A i, j \in DOMAIN At(s, places) : i < j => at[i] < at[j]
<1> DEFINE c == Cardinality(places)
           A == Ascending(places)
           r == At(s, places)
<1>1. DOMAIN s = 1..Len(s) /\ Len(s) \in Nat
  BY LenProperties
<1>2. places \subseteq Nat /\ IsFiniteSet(places)
  <2>1. IsFiniteSet(1..Len(s))
    BY <1>1, FS_Interval
  <2>2. QED
    BY <1>1, <2>1, FS_Subset
<1>3. /\ c \in Nat /\ A \in [1..c -> places]
      /\ \A i, j \in 1..c : i < j => A[i] < A[j]
      /\ \A n \in places : \E k \in 1..c : A[k] = n
  BY <1>2, AscendingIs
<1>4. r = [k \in 1..c |-> s[A[k]]]
  BY DEF At
<1> HIDE DEF c, A, r
<1>5. \A i \in places : s[i] \in T
  BY <1>1
<1>6. r \in [1..c -> T]
  BY <1>3, <1>4, <1>5
<1>7. r \in Seq(T) /\ DOMAIN r = 1..c
  BY <1>3, <1>6
<1>8. ToSet(r) = {s[i] : i \in places}
  BY <1>3, <1>4, <1>7 DEF ToSet
<1>9. \E at \in [DOMAIN r -> places] :
        /\ \A k \in DOMAIN r : r[k] = s[at[k]]
        /\ \A i, j \in DOMAIN r : i < j => at[i] < at[j]
  BY <1>3, <1>4, <1>7
<1>10. QED
  BY <1>7, <1>8, <1>9 DEF r

\* What is left of a sequence after its head.
LEMMA TailIs ==
  ASSUME NEW T, NEW s \in Seq(T), s # <<>>
  PROVE  /\ Head(s) \in T /\ Head(s) = s[1] /\ Tail(s) \in Seq(T)
         /\ 1 \in DOMAIN s /\ DOMAIN s = 1..Len(s) /\ Len(s) \in Nat
         /\ \A i \in DOMAIN Tail(s) : i + 1 \in DOMAIN s /\ Tail(s)[i] = s[i + 1]
         /\ \A i \in DOMAIN s : i = 1 \/ i - 1 \in DOMAIN Tail(s)
<1>1. /\ Head(s) \in T /\ Tail(s) \in Seq(T) /\ Len(Tail(s)) = Len(s) - 1
      /\ \A i \in 1..Len(Tail(s)) : Tail(s)[i] = s[i + 1]
  BY HeadTailProperties
<1>2. /\ Head(s) = s[1] /\ DOMAIN s = 1..Len(s) /\ Len(s) \in Nat /\ Len(s) > 0
      /\ DOMAIN Tail(s) = 1..Len(Tail(s))
  BY <1>1, EmptySeq, LenProperties
<1>3. QED
  BY <1>1, <1>2

\* The elements of a sequence are its head and those of what is left.
LEMMA TailSet ==
  ASSUME NEW T, NEW s \in Seq(T), s # <<>>
  PROVE  ToSet(s) = {Head(s)} \cup ToSet(Tail(s))
<1>1. /\ Head(s) = s[1] /\ 1 \in DOMAIN s /\ DOMAIN s \subseteq Int
      /\ \A i \in DOMAIN Tail(s) : i + 1 \in DOMAIN s /\ Tail(s)[i] = s[i + 1]
      /\ \A i \in DOMAIN s : i = 1 \/ i - 1 \in DOMAIN Tail(s)
  BY TailIs
<1>2. ToSet(s) \subseteq {Head(s)} \cup ToSet(Tail(s))
  <2> SUFFICES ASSUME NEW i \in DOMAIN s, i # 1 PROVE s[i] \in ToSet(Tail(s))
    BY <1>1 DEF ToSet
  <2>1. i - 1 \in DOMAIN Tail(s) /\ Tail(s)[i - 1] = s[i]
    BY <1>1
  <2>2. QED
    BY <2>1 DEF ToSet
<1>3. {Head(s)} \cup ToSet(Tail(s)) \subseteq ToSet(s)
  BY <1>1 DEF ToSet
<1>4. QED
  BY <1>2, <1>3

-----------------------------------------------------------------------------
(* The invariant *)

\* The statements that the transaction at o executes.
FileOf(o) == IF o.do = "run" THEN Ups(Head(o.todo)) ELSE Downs(Head(o.todo))

NextOp == [pc : {"next"}, do : {"run", "rollback"}, todo : Seq(Versions),
           overtaken : SUBSET Versions]

ExecOp == [pc : {"exec"}, do : {"run", "rollback"}, todo : Seq(Versions),
           overtaken : SUBSET Versions, left : Seq(Chunks), added : SUBSET Items,
           dropped : SUBSET Items, held : SUBSET Tables, shared : SUBSET Tables]

\* A transaction executes the file of its version: what it added or dropped concerns some
\* statement of it, and after an ALTER TABLE it holds the table.
ExecOK(o) ==
  /\ o \in ExecOp /\ o.todo # <<>>
  /\ o.do = "rollback" => Head(o.todo) \in DOMAIN Down
  /\ o.added \cap o.dropped = {} /\ IsFiniteSet(o.added)
  /\ ToSet(o.left) \subseteq FileOf(o)
  /\ \A i \in o.added \cup o.dropped : \E s \in FileOf(o) :
       Concerns(s, i) /\ (s.kind = "column" => i[1] \in o.held)

SeenBy(o, sch) == (sch \cup o.added) \ o.dropped

\* What a version owns is as its transaction is to leave it, or a statement that will make it so
\* is still left; but another may have overtaken it, unless an ALTER TABLE holds the table.
InProgress(o, sch) ==
  \A v \in {Head(o.todo)} : \A i \in Owned[v] :
    Guarded(v, i) \/ v \notin o.overtaken =>
      \/ \E s \in ToSet(o.left) : Concerns(s, i)
      \/ /\ i \in SeenBy(o, sch) <=> o.do = "run"
         /\ Guarded(v, i) => i[1] \in o.held

\* A run has still to do, in ascending order, all that is not recorded, but for what others
\* committed since it listed them.
RunPlan(o, recs) ==
  /\ \A a, b \in DOMAIN o.todo : a < b => o.todo[a] < o.todo[b]
  /\ Versions \ (ToSet(recs) \cup o.overtaken) \subseteq ToSet(o.todo)

\* A rollback has still to do, before a version, those recorded after it, but for those
\* without a down file and what others committed since it listed them.
RollbackPlan(o, recs) ==
  \A a \in DOMAIN o.todo : \A i, j \in DOMAIN recs :
    recs[i] = o.todo[a] /\ i < j =>
      \/ recs[j] \in (Versions \ DOMAIN Down) \cup o.overtaken
      \/ \E b \in DOMAIN o.todo : b < a /\ o.todo[b] = recs[j]

PlanOK(o, recs) ==
  /\ o.do = "run" => RunPlan(o, recs)
  /\ o.do = "rollback" => RollbackPlan(o, recs)

OpOK(o, recs, sch) ==
  \/ o.pc \in {"idle", "connected"}
  \/ /\ o \in NextOp \/ (ExecOK(o) /\ InProgress(o, sch))
     /\ PlanOK(o, recs)

\* No two transactions hold the same table.
LocksApart ==
  \A q, r \in Runners : q # r /\ InTxn(q) /\ InTxn(r) => op[q].held \cap op[r].held = {}

MigrateInv ==
  /\ IsFiniteSet(schema) /\ schema \subseteq Items
  /\ records \in Seq(Versions) /\ IsInjective(records)
  /\ op = [r \in Runners |-> op[r]] /\ \A r \in Runners : OpOK(op[r], records, schema)
  /\ LocksApart

\* The statements that are executed, of the up file and of the down file.
LEMMA FilesAre ==
  ASSUME NEW v \in Versions
  PROVE  /\ Executable(Up[v]) \in Seq(Chunks) /\ Ups(v) = ToSet(Executable(Up[v]))
         /\ v \in DOMAIN Down =>
              Executable(Down[v]) \in Seq(Chunks) /\ Downs(v) = ToSet(Executable(Down[v]))
<1>1. ASSUME NEW file \in Seq(Chunks) PROVE Executable(file) \in Seq(Chunks)
  <2> DEFINE places == {i \in DOMAIN file : ~file[i].commented}
  <2>1. places \in SUBSET DOMAIN file
    OBVIOUS
  <2> HIDE DEF places
  <2>2. At(file, places) \in Seq(Chunks)
    BY <2>1, AtIs
  <2>3. QED
    BY <2>2 DEF Executable, places
<1>2. Up[v] \in Seq(Chunks) /\ (v \in DOMAIN Down => Down[v] \in Seq(Chunks))
  BY UpFiles, DownFiles
<1>3. QED
  BY <1>1, <1>2 DEF Ups, Downs

\* What a version owns, by its definition.
LEMMA OwnedIs ==
  ASSUME NEW v \in Versions, NEW i \in Owned[v]
  PROVE  /\ i \notin Models /\ \E s \in Ups(v) : Concerns(s, i)
         /\ \A s \in Ups(v) : Concerns(s, i) => s.adds
         /\ \A s \in Downs(v) : Concerns(s, i) => ~s.adds
         /\ v \in DOMAIN Down => \E s \in Downs(v) : Concerns(s, i)
         /\ \A u \in Versions \ {v} : \A s \in Ups(u) \cup Downs(u) : ~Concerns(s, i)
BY DEF Owned, Concerns

\* A place stays good when the schema gains what the models name, which no version owns.
LEMMA ModelsKeep ==
  ASSUME NEW o, OpOK(o, records, schema), schema' = schema \/ schema' = schema \cup Models
  PROVE  OpOK(o, records, schema')
<1>1. CASE ExecOK(o) /\ InProgress(o, schema) /\ PlanOK(o, records)
  <2>1. Head(o.todo) \in Versions
    BY <1>1, TailIs DEF ExecOK, ExecOp
  <2>2. \A i \in Owned[Head(o.todo)] : i \in SeenBy(o, schema') <=> i \in SeenBy(o, schema)
    BY <2>1, OwnedIs DEF SeenBy
  <2>3. InProgress(o, schema')
    BY <1>1, <2>2 DEF InProgress
  <2>4. QED
    BY <1>1, <2>3 DEF OpOK
<1>2. CASE o.pc \in {"idle", "connected"} \/ (o \in NextOp /\ PlanOK(o, records))
  BY <1>2 DEF OpOK
<1>3. QED
  BY <1>1, <1>2 DEF OpOK

\* A step that moves one runner and changes no record keeps the invariant if the runner's
\* new place is a good one and holds what no other does; the schema may gain what the models
\* name.
LEMMA MoveInv ==
  ASSUME MigrateInv, NEW r \in Runners, NEW o, Goto(r, o), OpOK(o, records, schema),
         o.pc = "exec" => \A q \in Runners \ {r} : InTxn(q) => op[q].held \cap o.held = {},
         UNCHANGED records, schema' = schema \/ schema' = schema \cup Models
  PROVE  MigrateInv'
<1>1. IsFiniteSet(schema') /\ schema' \subseteq Items
  BY FS_Union, ModelsAreItems DEF MigrateInv
<1>2. /\ op' = [q \in Runners |-> op'[q]] /\ op'[r] = o
      /\ \A q \in Runners \ {r} : op'[q] = op[q]
  BY DEF Goto, MigrateInv
<1>3. \A q \in Runners : OpOK(op'[q], records, schema')
  <2> SUFFICES ASSUME NEW q \in Runners PROVE OpOK(op'[q], records, schema)
    BY ModelsKeep
  <2>1. QED
    BY <1>2 DEF MigrateInv
<1>4. LocksApart'
  <2> SUFFICES ASSUME NEW p \in Runners, NEW q \in Runners, p # q,
                      op'[p].pc = "exec", op'[q].pc = "exec"
               PROVE  op'[p].held \cap op'[q].held = {}
    BY DEF LocksApart, InTxn
  <2>1. CASE p # r /\ q # r
    BY <1>2, <2>1 DEF MigrateInv, LocksApart, InTxn
  <2>2. CASE p = r
    BY <1>2, <2>2 DEF InTxn
  <2>3. CASE q = r
    BY <1>2, <2>3 DEF InTxn
  <2>4. QED
    BY <2>1, <2>2, <2>3
<1>5. QED
  BY <1>1, <1>2, <1>3, <1>4 DEF MigrateInv

\* The locals of a runner.
LEMMA LocalsOf ==
  ASSUME MigrateInv, NEW r \in Runners
  PROVE  /\ op[r].pc = "next" => op[r] \in NextOp /\ PlanOK(op[r], records)
         /\ op[r].pc = "exec" =>
              ExecOK(op[r]) /\ InProgress(op[r], schema) /\ PlanOK(op[r], records)
<1>1. OpOK(op[r], records, schema)
  BY DEF MigrateInv
<1>2. op[r] \in NextOp => op[r].pc = "next"
  BY DEF NextOp
<1>3. ExecOK(op[r]) => op[r].pc = "exec"
  BY DEF ExecOK, ExecOp
<1>4. QED
  BY <1>1, <1>2, <1>3 DEF OpOK

-----------------------------------------------------------------------------
(* Steps that change no record *)

\* A command that has listed what it is to do.
LEMMA ListInv ==
  ASSUME MigrateInv, NEW r \in Runners, NEW do \in {"run", "rollback"},
         NEW todo \in Seq(Versions), List(r, do, todo),
         \A o : o.do = do /\ o.todo = todo /\ o.overtaken = {} => PlanOK(o, records)
  PROVE  MigrateInv'
<1> DEFINE o == [pc |-> "next", do |-> do, todo |-> todo, overtaken |-> {}]
<1>1. Goto(r, o) /\ UNCHANGED <<schema, records>>
  BY DEF List
<1>2. o \in NextOp /\ o.pc = "next" /\ o.do = do /\ o.todo = todo /\ o.overtaken = {}
  BY DEF NextOp
<1> HIDE DEF o
<1>3. OpOK(o, records, schema)
  BY <1>2 DEF OpOK
<1>4. QED
  BY <1>1, <1>2, <1>3, MoveInv

\* A run lists what is not recorded, in ascending order.
LEMMA RunInv ==
  ASSUME MigrateInv, NEW r \in Runners, Run(r)
  PROVE  MigrateInv'
<1> DEFINE S == Versions \ Recorded
           c == Cardinality(S)
           P == Pending
<1>1. S \subseteq Nat /\ IsFiniteSet(S) /\ S \subseteq Versions
  BY VersionsOrdered, FS_Subset
<1> HIDE DEF S
<1>2. /\ c \in Nat /\ P \in [1..c -> S]
      /\ \A i, j \in 1..c : i < j => P[i] < P[j]
      /\ \A n \in S : \E k \in 1..c : P[k] = n
  BY <1>1, AscendingIs DEF Pending, S
<1> HIDE DEF c, P
<1>3. P \in [1..c -> Versions]
  BY <1>1, <1>2
<1>4. P \in Seq(Versions) /\ DOMAIN P = 1..c
  BY <1>2, <1>3
<1>5. ASSUME NEW o, o.do = "run", o.todo = P, o.overtaken = {} PROVE PlanOK(o, records)
  <2>1. S \subseteq ToSet(P)
    BY <1>2, <1>4 DEF ToSet
  <2>2. QED
    BY <1>2, <1>4, <1>5, <2>1 DEF PlanOK, RunPlan, S, Recorded
<1>6. QED
  BY <1>4, <1>5, ListInv DEF Run, P

\* A rollback lists the last versions recorded, the last first.
LEMMA RollbackInv ==
  ASSUME MigrateInv, NEW r \in Runners, Rollback(r)
  PROVE  MigrateInv'
<1>1. PICK n \in 1..Len(records) : List(r, "rollback", Latest(n))
  BY DEF Rollback
<1> DEFINE len == Len(records)
           todo == Latest(n)
<1>2. records \in Seq(Versions) /\ len \in Nat /\ DOMAIN records = 1..len
  BY LenProperties DEF MigrateInv
<1>3. Reverse(records) = [i \in 1..len |-> records[(len - i) + 1]]
  BY DEF Reverse
<1>4. Reverse(records) \in Seq(Versions) /\ Len(Reverse(records)) = len
  <2>1. \A i \in 1..len : (len - i) + 1 \in 1..len
    BY <1>2
  <2>2. Reverse(records) \in [1..len -> Versions]
    BY <1>2, <1>3, <2>1
  <2>3. QED
    BY <1>2, <2>2, LenProperties
<1> HIDE DEF len
<1>5. /\ todo \in Seq(Versions) /\ DOMAIN todo = 1..n
      /\ \A a \in 1..n : todo[a] = records[(len - a) + 1] /\ (len - a) + 1 \in 1..len
  <2>1. n \in 1..len /\ todo = SubSeq(Reverse(records), 1, n)
    BY DEF Latest, len
  <2> DEFINE back == Reverse(records)
  <2>2. todo \in Seq(Versions) /\ Len(todo) = n
        /\ \A a \in 1..n : todo[a] = back[a]
    <3> HIDE DEF back
    <3>1. \A i \in 1..n : back[i] \in Versions
      BY <1>2, <1>4, <2>1 DEF back
    <3>2. todo = SubSeq(back, 1, n)
      BY <2>1 DEF back
    <3> HIDE DEF todo
    <3>3. QED
      BY <1>2, <2>1, <3>1, <3>2, SubSeqProperties
  <2>3. DOMAIN todo = 1..n
    BY <2>2, LenProperties
  <2>4. \A a \in 1..n : a \in 1..len /\ (len - a) + 1 \in 1..len
    BY <1>2, <2>1
  <2>5. QED
    BY <1>3, <2>2, <2>3, <2>4
<1> HIDE DEF todo
<1>6. ASSUME NEW o, o.do = "rollback", o.todo = todo, o.overtaken = {} PROVE PlanOK(o, records)
  <2> SUFFICES RollbackPlan(o, records)
    BY <1>6 DEF PlanOK
  <2> SUFFICES ASSUME NEW a \in DOMAIN todo, NEW i \in DOMAIN records,
                      NEW j \in DOMAIN records, records[i] = todo[a], i < j
               PROVE  \E b \in DOMAIN todo : b < a /\ todo[b] = records[j]
    BY <1>6 DEF RollbackPlan
  <2>1. i = (len - a) + 1
    BY <1>2, <1>5 DEF MigrateInv, IsInjective
  <2> DEFINE b == (len - j) + 1
  <2>2. b \in 1..n /\ b < a /\ (len - b) + 1 = j
    BY <1>2, <1>5, <2>1
  <2>3. QED
    BY <1>5, <2>2
<1>7. QED
  BY <1>1, <1>5, <1>6, ListInv DEF todo

\* A plan without its first version, if that is recorded or has no down file or is gone.
LEMMA PlanTail ==
  ASSUME NEW o, o.todo \in Seq(Versions), o.todo # <<>>, NEW recs, PlanOK(o, recs),
         o.do = "run" => Head(o.todo) \in ToSet(recs) \cup o.overtaken,
         o.do = "rollback" => Head(o.todo) \in (Versions \ DOMAIN Down) \/ Head(o.todo) \notin ToSet(recs),
         NEW p, p.do = o.do, p.todo = Tail(o.todo), p.overtaken = o.overtaken
  PROVE  PlanOK(p, recs)
<1> DEFINE s == o.todo
           t == Tail(s)
<1>1. /\ Head(s) = s[1] /\ DOMAIN s = 1..Len(s) /\ Len(s) \in Nat
      /\ \A i \in DOMAIN t : i + 1 \in DOMAIN s /\ t[i] = s[i + 1]
      /\ \A i \in DOMAIN s : i = 1 \/ i - 1 \in DOMAIN t
      /\ t \in Seq(Versions)
  BY TailIs
<1>2. ToSet(s) = {Head(s)} \cup ToSet(t)
  BY TailSet
<1>3. DOMAIN t \subseteq Nat
  BY <1>1, LenProperties
<1> HIDE DEF s, t
<1>4. ASSUME o.do = "run" PROVE RunPlan(p, recs)
  <2>1. \A a, b \in DOMAIN t : a < b => t[a] < t[b]
    <3> SUFFICES ASSUME NEW a \in DOMAIN t, NEW b \in DOMAIN t, a < b PROVE t[a] < t[b]
      OBVIOUS
    <3>1. a + 1 \in DOMAIN s /\ b + 1 \in DOMAIN s /\ a + 1 < b + 1
      BY <1>1, <1>3
    <3>2. s[a + 1] < s[b + 1]
      BY <1>4, <3>1 DEF PlanOK, RunPlan, s
    <3>3. QED
      BY <1>1, <3>2
  <2>2. Versions \ (ToSet(recs) \cup o.overtaken) \subseteq ToSet(t)
    BY <1>2, <1>4 DEF PlanOK, RunPlan, s
  <2>3. QED
    BY <2>1, <2>2 DEF RunPlan, t, s
<1>5. ASSUME o.do = "rollback" PROVE RollbackPlan(p, recs)
  <2> SUFFICES ASSUME NEW a \in DOMAIN t, NEW i \in DOMAIN recs, NEW j \in DOMAIN recs,
                      recs[i] = t[a], i < j,
                      recs[j] \notin (Versions \ DOMAIN Down) \cup o.overtaken
               PROVE  \E b \in DOMAIN t : b < a /\ t[b] = recs[j]
    BY DEF RollbackPlan, t, s
  <2>1. a + 1 \in DOMAIN s /\ recs[i] = s[a + 1]
    BY <1>1
  <2>2. PICK b \in DOMAIN s : b < a + 1 /\ s[b] = recs[j]
    BY <1>5, <2>1 DEF PlanOK, RollbackPlan, s
  <2>3. b # 1
    <3>1. recs[j] \in ToSet(recs)
      BY DEF ToSet
    <3>2. QED
      BY <1>1, <1>5, <2>2, <3>1 DEF s
  <2>4. b \in Nat /\ a \in Nat
    BY <1>1, <1>3
  <2>5. b - 1 \in DOMAIN t /\ b - 1 < a /\ t[b - 1] = s[b]
    <3>1. b - 1 \in DOMAIN t
      BY <1>1, <2>3
    <3>2. t[b - 1] = s[(b - 1) + 1]
      BY <1>1, <3>1
    <3>3. QED
      BY <2>2, <2>4, <3>1, <3>2
  <2>6. QED
    BY <2>2, <2>5
<1>6. QED
  BY <1>4, <1>5 DEF PlanOK

\* A migration without a down file is left out.
LEMMA SkipInv ==
  ASSUME MigrateInv, NEW r \in Runners, Skip(r)
  PROVE  MigrateInv'
<1> DEFINE o == op[r]
           p == [o EXCEPT !.todo = Tail(o.todo)]
<1>1. /\ Goto(r, p) /\ UNCHANGED <<schema, records>> /\ o.pc = "next" /\ o.do = "rollback"
      /\ o.todo # <<>> /\ Head(o.todo) \notin DOMAIN Down
  BY DEF Skip, Version
<1>2. o \in NextOp /\ PlanOK(o, records)
  BY <1>1, LocalsOf
<1>3. o.todo \in Seq(Versions)
  BY <1>2 DEF NextOp
<1>4. Head(o.todo) \in Versions /\ Tail(o.todo) \in Seq(Versions)
  BY <1>1, <1>3, TailIs
<1>5. /\ p \in NextOp /\ p.pc = "next" /\ p.do = o.do /\ p.todo = Tail(o.todo)
      /\ p.overtaken = o.overtaken
  BY <1>2, <1>4 DEF NextOp
<1> HIDE DEF o, p
<1>6. PlanOK(p, records)
  BY <1>1, <1>2, <1>3, <1>4, <1>5, PlanTail
<1>7. OpOK(p, records, schema)
  BY <1>5, <1>6 DEF OpOK
<1>8. QED
  BY <1>1, <1>5, <1>7, MoveInv

\* A transaction begins with its whole file left.
LEMMA BeginInv ==
  ASSUME MigrateInv, NEW r \in Runners, BeginUp(r) \/ BeginDown(r)
  PROVE  MigrateInv'
<1> DEFINE o == op[r]
           v == Head(o.todo)
<1>1. o.pc = "next" /\ o.todo # <<>>
  BY DEF BeginUp, BeginDown
<1>2. o \in NextOp /\ PlanOK(o, records) /\ o.todo \in Seq(Versions)
  BY <1>1, LocalsOf DEF NextOp
<1>3. v \in Versions
  BY <1>1, <1>2, TailIs
<1>4. PICK file : /\ BeginTransaction(r, file)
                  /\ \/ o.do = "run" /\ file = Up[v]
                     \/ o.do = "rollback" /\ v \in DOMAIN Down /\ file = Down[v]
  BY DEF BeginUp, BeginDown, Version
<1> DEFINE left == Executable(file)
           p == [pc |-> "exec", do |-> o.do, todo |-> o.todo, overtaken |-> o.overtaken,
                 left |-> left, added |-> {}, dropped |-> {}, held |-> {}, shared |-> {}]
<1>5. Goto(r, p) /\ UNCHANGED <<schema, records>>
  BY <1>4 DEF BeginTransaction
<1>6. left \in Seq(Chunks)
  BY <1>3, <1>4, FilesAre
<1> HIDE DEF left
<1>7. /\ p \in ExecOp /\ p.do = o.do /\ p.todo = o.todo /\ p.overtaken = o.overtaken
      /\ p.left = left /\ p.added = {} /\ p.dropped = {} /\ p.held = {}
  BY <1>2, <1>6 DEF NextOp, ExecOp
<1> HIDE DEF p
<1>8. FileOf(p) = ToSet(left)
  BY <1>3, <1>4, <1>7, FilesAre DEF FileOf, left
<1>9. ExecOK(p)
  BY <1>1, <1>4, <1>7, <1>8, FS_EmptySet DEF ExecOK
<1>10. PlanOK(p, records)
  BY <1>2, <1>7 DEF PlanOK, RunPlan, RollbackPlan
<1>11. InProgress(p, schema)
  <2>1. /\ v \in Versions /\ Head(p.todo) = v
        /\ \/ ToSet(p.left) = Ups(v)
           \/ v \in DOMAIN Down /\ ToSet(p.left) = Downs(v)
    <3>1. o.do = "run" => FileOf(p) = Ups(v)
      BY <1>7 DEF FileOf
    <3>2. o.do = "rollback" => FileOf(p) = Downs(v)
      BY <1>7 DEF FileOf
    <3>3. QED
      BY <1>3, <1>4, <1>7, <1>8, <3>1, <3>2
  <2>2. \A i \in Owned[v] : \E s \in ToSet(p.left) : Concerns(s, i)
    BY <2>1, OwnedIs
  <2>3. QED
    BY <2>1, <2>2 DEF InProgress
<1>12. OpOK(p, records, schema)
  BY <1>9, <1>10, <1>11 DEF OpOK
<1>13. QED
  BY <1>5, <1>7, <1>12, MoveInv

\* What executing a statement makes of what its transaction has done and holds.
LEMMA AfterIs ==
  ASSUME MigrateInv, NEW r \in Runners, ExecOK(op[r]), NEW s \in Chunks, ~Refused(r, s),
         NEW p, p = After(r, s)
  PROVE  /\ p = [op[r] EXCEPT !.left = p.left, !.added = p.added, !.dropped = p.dropped,
                               !.held = p.held, !.shared = p.shared]
         /\ p.left = Tail(op[r].left)
         /\ p.added \subseteq Items /\ p.dropped \subseteq Items /\ p.added \cap p.dropped = {}
         /\ IsFiniteSet(p.added)
         /\ p.held \subseteq Tables /\ p.shared \subseteq Tables /\ op[r].held \subseteq p.held
         /\ p.held \subseteq op[r].held \cup (IF Exclusive(r, s) THEN {s.item[1]} ELSE {})
         /\ s.kind = "column" => s.item[1] \in p.held
         /\ \A i \in p.added \cup p.dropped : i \in op[r].added \cup op[r].dropped \/ Concerns(s, i)
         /\ \A i : ~Concerns(s, i) =>
              (i \in SeenBy(p, schema) <=> i \in SeenBy(op[r], schema))
         /\ \A i : Concerns(s, i) => (i \in SeenBy(p, schema) <=> s.adds)
<1> DEFINE o == op[r]
           plus == Added(r, s)
           minus == Dropped(r, s)
           added == (o.added \ minus) \cup plus
           dropped == (o.dropped \ plus) \cup minus
           held == IF Exclusive(r, s) THEN o.held \cup {s.item[1]} ELSE o.held
           shared == IF Shares(r, s) THEN o.shared \cup {s.item[1]} ELSE o.shared
<1>1. /\ o \in ExecOp /\ o.added \subseteq Items /\ o.dropped \subseteq Items
      /\ o.held \subseteq Tables /\ o.shared \subseteq Tables
      /\ o.added \cap o.dropped = {} /\ IsFiniteSet(o.added) /\ schema \subseteq Items
  BY DEF ExecOK, ExecOp, MigrateInv
<1>2. s.item \in Items /\ s.item[1] \in Tables /\ s.adds \in BOOLEAN
  BY DEF Chunks, Items
<1>3. Seen(r) = SeenBy(o, schema) /\ Seen(r) \subseteq Items
  BY <1>1 DEF Seen, SeenBy
<1>4. plus = IF s.adds THEN {s.item} \ SeenBy(o, schema) ELSE {}
  BY <1>3 DEF Added
<1>5. minus = IF s.adds THEN {} ELSE {i \in SeenBy(o, schema) : Concerns(s, i)}
  BY <1>3 DEF Dropped
<1>6. \A i : s.adds => (Concerns(s, i) <=> i = s.item)
  BY DEF Concerns
<1>7. s.kind = "column" => Exclusive(r, s)
  BY DEF Refused, Exclusive, OnTable
<1>8. p = [o EXCEPT !.left = Tail(o.left), !.added = added, !.dropped = dropped,
                    !.held = held, !.shared = shared]
  BY DEF After
<1>9. IsFiniteSet(added)
  <2>1. plus \subseteq {s.item}
    BY <1>4
  <2>2. IsFiniteSet({s.item})
    BY FS_Singleton
  <2>3. IsFiniteSet(plus)
    BY <2>1, <2>2, FS_Subset
  <2>4. IsFiniteSet(o.added \ minus)
    BY <1>1, FS_Difference
  <2>5. QED
    BY <2>3, <2>4, FS_Union
<1> HIDE DEF plus, minus
<1>10. /\ held \subseteq Tables /\ shared \subseteq Tables /\ o.held \subseteq held
       /\ held \subseteq o.held \cup (IF Exclusive(r, s) THEN {s.item[1]} ELSE {})
       /\ s.kind = "column" => s.item[1] \in held
  BY <1>1, <1>2, <1>7
<1>11. added \subseteq Items /\ dropped \subseteq Items /\ added \cap dropped = {}
  BY <1>1, <1>2, <1>3, <1>4, <1>5
<1>12. \A i \in added \cup dropped : i \in o.added \cup o.dropped \/ Concerns(s, i)
  BY <1>4, <1>5, <1>6
<1>13. \A i : ~Concerns(s, i) =>
         (i \in (schema \cup added) \ dropped <=> i \in SeenBy(o, schema))
  BY <1>4, <1>5, <1>6 DEF SeenBy
<1>14. \A i : Concerns(s, i) => (i \in (schema \cup added) \ dropped <=> s.adds)
  <2> SUFFICES ASSUME NEW i, Concerns(s, i)
               PROVE  i \in (schema \cup added) \ dropped <=> s.adds
    OBVIOUS
  <2>1. CASE s.adds
    BY <1>4, <1>5, <1>6, <2>1 DEF SeenBy
  <2>2. CASE ~s.adds
    BY <1>4, <1>5, <2>2 DEF SeenBy
  <2>3. QED
    BY <2>1, <2>2
<1> HIDE DEF added, dropped, held, shared
<1>15. /\ p.left = Tail(o.left) /\ p.added = added /\ p.dropped = dropped /\ p.held = held
       /\ p.shared = shared
  BY <1>1, <1>8 DEF ExecOp
<1>16. QED
  BY <1>8, <1>9, <1>10, <1>11, <1>12, <1>13, <1>14, <1>15 DEF SeenBy

\* A statement is executed: what it concerns is added or dropped.
LEMMA ExecuteInv ==
  ASSUME MigrateInv, NEW r \in Runners, Execute(r)
  PROVE  MigrateInv'
<1> DEFINE o == op[r]
           s == Head(o.left)
           p == After(r, s)
<1>1. /\ o.pc = "exec" /\ o.left # <<>> /\ Goto(r, p) /\ UNCHANGED <<schema, records>>
      /\ Granted(r, s) /\ ~Refused(r, s)
  BY DEF Execute, InTxn
<1>2. ExecOK(o) /\ InProgress(o, schema) /\ PlanOK(o, records)
  BY <1>1, LocalsOf
<1>3. o \in ExecOp /\ o.left \in Seq(Chunks) /\ o.todo # <<>> /\ o.todo \in Seq(Versions)
  BY <1>2 DEF ExecOK, ExecOp
<1>4. s \in Chunks /\ Tail(o.left) \in Seq(Chunks)
  BY <1>1, <1>3, TailIs
<1>5. ToSet(o.left) = {s} \cup ToSet(Tail(o.left))
  BY <1>1, <1>3, TailSet
<1> HIDE DEF s, p
<1>6. /\ p = [o EXCEPT !.left = p.left, !.added = p.added, !.dropped = p.dropped,
                         !.held = p.held, !.shared = p.shared]
      /\ p.left = Tail(o.left)
      /\ p.added \subseteq Items /\ p.dropped \subseteq Items /\ p.added \cap p.dropped = {}
      /\ IsFiniteSet(p.added)
      /\ p.held \subseteq Tables /\ p.shared \subseteq Tables /\ o.held \subseteq p.held
      /\ p.held \subseteq o.held \cup (IF Exclusive(r, s) THEN {s.item[1]} ELSE {})
      /\ s.kind = "column" => s.item[1] \in p.held
      /\ \A i \in p.added \cup p.dropped : i \in o.added \cup o.dropped \/ Concerns(s, i)
      /\ \A i : ~Concerns(s, i) => (i \in SeenBy(p, schema) <=> i \in SeenBy(o, schema))
      /\ \A i : Concerns(s, i) => (i \in SeenBy(p, schema) <=> s.adds)
  BY <1>1, <1>2, <1>4, AfterIs DEF p
<1> HIDE DEF o
<1>7. /\ p \in ExecOp /\ p.pc = "exec" /\ p.do = o.do /\ p.todo = o.todo
      /\ p.overtaken = o.overtaken
  BY <1>3, <1>4, <1>6 DEF ExecOp
<1>8. FileOf(p) = FileOf(o) /\ s \in FileOf(o)
  BY <1>2, <1>5, <1>7 DEF FileOf, ExecOK
<1>9. ASSUME NEW i \in p.added \cup p.dropped
      PROVE  \E c \in FileOf(o) : Concerns(c, i) /\ (c.kind = "column" => i[1] \in p.held)
  <2>1. CASE Concerns(s, i)
    BY <1>6, <1>8, <2>1 DEF Concerns
  <2>2. CASE i \in o.added \cup o.dropped
    BY <1>2, <1>6, <2>2 DEF ExecOK
  <2>3. QED
    BY <1>6, <1>9, <2>1, <2>2
<1>10. ExecOK(p)
  BY <1>2, <1>5, <1>6, <1>7, <1>8, <1>9 DEF ExecOK
<1>11. InProgress(p, schema)
  <2> DEFINE v == Head(o.todo)
  <2>1. v \in Versions /\ FileOf(o) = IF o.do = "run" THEN Ups(v) ELSE Downs(v)
    BY <1>3, TailIs DEF FileOf
  <2> HIDE DEF v
  <2> SUFFICES ASSUME NEW i \in Owned[v], Guarded(v, i) \/ v \notin o.overtaken
               PROVE  \/ \E c \in ToSet(p.left) : Concerns(c, i)
                      \/ /\ i \in SeenBy(p, schema) <=> o.do = "run"
                         /\ Guarded(v, i) => i[1] \in p.held
    BY <1>7 DEF InProgress, v
  <2>2. CASE Concerns(s, i)
    <3>1. s.adds <=> o.do = "run"
      BY <1>8, <2>1, <2>2, OwnedIs
    <3>2. Guarded(v, i) => s.kind = "column" /\ s.item = i
      BY <1>8, <2>1, <2>2 DEF Guarded, Concerns
    <3>3. QED
      BY <1>6, <2>2, <3>1, <3>2
  <2>3. CASE ~Concerns(s, i)
    <3>1. \/ \E c \in ToSet(o.left) : Concerns(c, i)
          \/ /\ i \in SeenBy(o, schema) <=> o.do = "run"
             /\ Guarded(v, i) => i[1] \in o.held
      BY <1>2 DEF InProgress, v
    <3>2. QED
      BY <1>5, <1>6, <2>3, <3>1
  <2>4. QED
    BY <2>2, <2>3
<1>12. \A q \in Runners \ {r} : InTxn(q) => op[q].held \cap p.held = {}
  <2> SUFFICES ASSUME NEW q \in Runners, q # r, InTxn(q) PROVE op[q].held \cap p.held = {}
    OBVIOUS
  <2>1. op[q].held \cap o.held = {}
    BY <1>1 DEF MigrateInv, LocksApart, InTxn, o
  <2>2. Exclusive(r, s) => s.item[1] \notin op[q].held
    BY <1>1 DEF Granted
  <2>3. QED
    BY <1>6, <2>1, <2>2
<1>13. PlanOK(p, records)
  BY <1>2, <1>7 DEF PlanOK, RunPlan, RollbackPlan
<1>14. OpOK(p, records, schema)
  BY <1>10, <1>11, <1>13 DEF OpOK
<1>15. QED
  BY <1>1, <1>12, <1>14, MoveInv

\* A command connects, or ends.
LEMMA RestInv ==
  ASSUME MigrateInv, NEW r \in Runners,
         \/ Connect(r) \/ CheckOnly(r) \/ StatementFails(r) \/ RecordFails(r) \/ Done(r)
         \/ Abort(r)
  PROVE  MigrateInv'
<1>1. \E o : /\ Goto(r, o) /\ o.pc \in {"idle", "connected"} /\ UNCHANGED records
             /\ schema' = schema \/ schema' = schema \cup Models
  <2>1. CASE Connect(r)
    <3> DEFINE o == [pc |-> "connected"]
    <3>1. Goto(r, o) /\ UNCHANGED records /\ schema' = schema \cup Models
      BY <2>1 DEF Connect, AutoMigrate
    <3>2. o.pc = "connected"
      OBVIOUS
    <3>3. QED
      BY <3>1, <3>2
  <2>2. CASE CheckOnly(r) \/ StatementFails(r) \/ RecordFails(r) \/ Done(r) \/ Abort(r)
    BY <2>2 DEF CheckOnly, StatementFails, RecordFails, Done, Abort, Idle
  <2>3. QED
    BY <2>1, <2>2
<1>2. \A o : o.pc \in {"idle", "connected"} => OpOK(o, records, schema) /\ o.pc # "exec"
  BY DEF OpOK
<1>3. QED
  BY <1>1, <1>2, MoveInv

-----------------------------------------------------------------------------
(* Commits *)

\* Another version recorded leaves a plan good: its order is after all the others.
LEMMA PlanAppend ==
  ASSUME NEW recs \in Seq(Versions), NEW v \in Versions, NEW o, PlanOK(o, recs),
         NEW p, p.do = o.do, p.todo = o.todo, o.overtaken \subseteq p.overtaken,
         p.do = "run" \/ v \in p.overtaken
  PROVE  PlanOK(p, Append(recs, v))
<1> DEFINE new == Append(recs, v)
<1>1. /\ DOMAIN recs = 1..Len(recs) /\ DOMAIN new = 1..(Len(recs) + 1) /\ Len(recs) \in Nat
      /\ new[Len(recs) + 1] = v /\ \A i \in DOMAIN recs : new[i] = recs[i]
  BY LenProperties, AppendProperties
<1> HIDE DEF new
<1>2. \A i \in DOMAIN new : i \in DOMAIN recs \/ i = Len(recs) + 1
  BY <1>1
<1>3. ToSet(recs) \subseteq ToSet(new)
  BY <1>1 DEF ToSet
<1>4. ASSUME o.do = "run" PROVE RunPlan(p, new)
  BY <1>3, <1>4 DEF PlanOK, RunPlan
<1>5. ASSUME o.do = "rollback" PROVE RollbackPlan(p, new)
  <2> SUFFICES ASSUME NEW a \in DOMAIN o.todo, NEW i \in DOMAIN new, NEW j \in DOMAIN new,
                      new[i] = o.todo[a], i < j,
                      new[j] \notin (Versions \ DOMAIN Down) \cup p.overtaken
               PROVE  \E b \in DOMAIN o.todo : b < a /\ o.todo[b] = new[j]
    BY DEF RollbackPlan
  <2>1. j \in DOMAIN recs
    BY <1>1, <1>2, <1>5
  <2>2. i \in DOMAIN recs
    BY <1>1, <1>2, <2>1
  <2>3. QED
    BY <1>1, <1>5, <2>1, <2>2 DEF PlanOK, RollbackPlan
<1>6. QED
  BY <1>4, <1>5 DEF PlanOK, new

\* The records without v.
Without(recs, v) == At(recs, {i \in DOMAIN recs : recs[i] # v})

\* at says where the records that are left were before.
KeepsOrder(at, new, recs) ==
  /\ at \in [DOMAIN new -> DOMAIN recs]
  /\ \A k \in DOMAIN new : new[k] = recs[at[k]]
  /\ \A i, j \in DOMAIN new : i < j => at[i] < at[j]

\* They are the others, in their order.
LEMMA WithoutIs ==
  ASSUME NEW recs \in Seq(Versions), NEW v, NEW new, new = Without(recs, v)
  PROVE  /\ new \in Seq(Versions) /\ ToSet(new) = ToSet(recs) \ {v}
         /\ IsInjective(recs) => IsInjective(new)
         /\ \E at : KeepsOrder(at, new, recs)
<1> DEFINE places == {i \in DOMAIN recs : recs[i] # v}
<1>1. places \in SUBSET DOMAIN recs
  OBVIOUS
<1>2. ToSet(recs) \ {v} = {recs[i] : i \in places}
  BY DEF ToSet
<1>3. new = At(recs, places)
  BY DEF Without
<1> HIDE DEF places
<1>4. /\ new \in Seq(Versions) /\ ToSet(new) = {recs[i] : i \in places}
      /\ \E at \in [DOMAIN new -> places] :
           /\ \A k \in DOMAIN new : new[k] = recs[at[k]]
           /\ \A i, j \in DOMAIN new : i < j => at[i] < at[j]
  <2>1. At(recs, places) \in Seq(Versions)
    BY <1>1, AtIs
  <2>2. ToSet(At(recs, places)) = {recs[i] : i \in places}
    BY <1>1, AtIs
  <2>3. \E at \in [DOMAIN At(recs, places) -> places] :
          /\ \A k \in DOMAIN At(recs, places) : At(recs, places)[k] = recs[at[k]]
          /\ \A i, j \in DOMAIN At(recs, places) : i < j => at[i] < at[j]
    BY <1>1, AtIs
  <2>4. QED
    BY <1>3, <2>1, <2>2, <2>3
<1>5. PICK at \in [DOMAIN new -> places] :
        /\ \A k \in DOMAIN new : new[k] = recs[at[k]]
        /\ \A i, j \in DOMAIN new : i < j => at[i] < at[j]
  BY <1>4
<1>6. at \in [DOMAIN new -> DOMAIN recs]
  BY <1>1, <1>5
<1>7. ASSUME IsInjective(recs) PROVE IsInjective(new)
  <2> SUFFICES ASSUME NEW i \in DOMAIN new, NEW j \in DOMAIN new, new[i] = new[j]
               PROVE  i = j
    BY DEF IsInjective
  <2>1. at[i] = at[j] /\ at[i] \in DOMAIN recs
    BY <1>5, <1>6, <1>7 DEF IsInjective
  <2>2. i \in Int /\ j \in Int /\ at[i] \in Int
    BY <1>4, <2>1, LenProperties
  <2>3. ~(i < j) /\ ~(j < i)
    BY <1>5, <2>1, <2>2
  <2>4. QED
    BY <2>2, <2>3
<1>8. KeepsOrder(at, new, recs)
  BY <1>5, <1>6, Zenon DEF KeepsOrder
<1>9. QED
  BY <1>2, <1>4, <1>7, <1>8

\* A version no longer recorded leaves a plan good: the others stay in their order.
LEMMA PlanWithout ==
  ASSUME NEW recs \in Seq(Versions), NEW v, NEW new, new = Without(recs, v),
         NEW o, PlanOK(o, recs),
         NEW p, p.do = o.do, p.todo = o.todo, o.overtaken \subseteq p.overtaken,
         p.do = "rollback" \/ v \in p.overtaken
  PROVE  PlanOK(p, new)
<1>1. ToSet(new) = ToSet(recs) \ {v}
  BY WithoutIs
<1>2. PICK at \in [DOMAIN new -> DOMAIN recs] :
        /\ \A k \in DOMAIN new : new[k] = recs[at[k]]
        /\ \A i, j \in DOMAIN new : i < j => at[i] < at[j]
  <2>1. \E at : KeepsOrder(at, new, recs)
    BY WithoutIs
  <2>2. QED
    BY <2>1, Zenon DEF KeepsOrder
<1>3. ASSUME o.do = "run" PROVE RunPlan(p, new)
  <2>1. v \in p.overtaken
    BY <1>3
  <2>2. Versions \ (ToSet(new) \cup p.overtaken) \subseteq Versions \ (ToSet(recs) \cup o.overtaken)
    BY <1>1, <2>1
  <2>3. QED
    BY <1>3, <2>2 DEF PlanOK, RunPlan
<1>4. ASSUME o.do = "rollback" PROVE RollbackPlan(p, new)
  <2> SUFFICES ASSUME NEW a \in DOMAIN o.todo, NEW i \in DOMAIN new, NEW j \in DOMAIN new,
                      new[i] = o.todo[a], i < j,
                      new[j] \notin (Versions \ DOMAIN Down) \cup p.overtaken
               PROVE  \E b \in DOMAIN o.todo : b < a /\ o.todo[b] = new[j]
    BY DEF RollbackPlan
  <2>1. /\ at[i] \in DOMAIN recs /\ at[j] \in DOMAIN recs /\ at[i] < at[j]
        /\ recs[at[i]] = o.todo[a] /\ recs[at[j]] = new[j]
    BY <1>2
  <2>2. QED
    BY <1>4, <2>1 DEF PlanOK, RollbackPlan
<1>5. QED
  BY <1>3, <1>4 DEF PlanOK

\* What the transaction at o did to what v owns, it did for v, and holding the table if only an
\* ALTER TABLE may.
LEMMA DoneFor ==
  ASSUME NEW o, ExecOK(o), NEW v \in Versions, NEW i \in Owned[v], i \in o.added \cup o.dropped
  PROVE  Head(o.todo) = v /\ (Guarded(v, i) => i[1] \in o.held)
<1> DEFINE u == Head(o.todo)
<1>1. u \in Versions
  BY TailIs DEF ExecOK, ExecOp
<1>2. PICK s \in FileOf(o) : Concerns(s, i) /\ (s.kind = "column" => i[1] \in o.held)
  BY DEF ExecOK
<1>3. s \in Ups(u) \cup Downs(u)
  BY DEF FileOf
<1> HIDE DEF u
<1>4. u = v
  BY <1>1, <1>2, <1>3, OwnedIs
<1>5. Guarded(v, i) => s.kind = "column"
  BY <1>2, <1>3, <1>4 DEF Guarded
<1>6. QED
  BY <1>2, <1>4, <1>5 DEF u

\* A transaction still in progress bears the commit of another: if that is of the same version it
\* has overtaken this one, and it held nothing that this one holds.
LEMMA ProgressBears ==
  ASSUME NEW o, ExecOK(o), NEW x, ExecOK(x), InProgress(x, schema), o.held \cap x.held = {},
         NEW y, y = [x EXCEPT !.overtaken = x.overtaken \cup {Head(o.todo)}]
  PROVE  ExecOK(y) /\ InProgress(y, SeenBy(o, schema))
<1> DEFINE v == Head(x.todo)
<1>1. x \in ExecOp /\ o \in ExecOp
  BY DEF ExecOK
<1>2. v \in Versions /\ Head(o.todo) \in Versions
  BY TailIs DEF ExecOK, ExecOp
<1>3. /\ y \in ExecOp /\ y.do = x.do /\ y.todo = x.todo /\ y.left = x.left /\ y.held = x.held
      /\ y.added = x.added /\ y.dropped = x.dropped
      /\ y.overtaken = x.overtaken \cup {Head(o.todo)}
  BY <1>1, <1>2 DEF ExecOp
<1> HIDE DEF v
<1>4. ExecOK(y)
  BY <1>3 DEF ExecOK, FileOf
<1>5. InProgress(y, SeenBy(o, schema))
  <2> SUFFICES ASSUME NEW i \in Owned[v], Guarded(v, i) \/ v \notin y.overtaken,
                      ~ \E s \in ToSet(x.left) : Concerns(s, i)
               PROVE  /\ i \in SeenBy(x, SeenBy(o, schema)) <=> x.do = "run"
                      /\ Guarded(v, i) => i[1] \in x.held
    BY <1>3 DEF InProgress, v, SeenBy
  <2>1. /\ i \in SeenBy(x, schema) <=> x.do = "run"
        /\ Guarded(v, i) => i[1] \in x.held
    BY <1>3 DEF InProgress, v
  <2>2. i \notin o.added \cup o.dropped
    <3> SUFFICES ASSUME i \in o.added \cup o.dropped PROVE FALSE
      OBVIOUS
    <3>1. Head(o.todo) = v /\ (Guarded(v, i) => i[1] \in o.held)
      BY <1>2, DoneFor
    <3>2. Guarded(v, i)
      BY <1>3, <3>1
    <3>3. QED
      BY <2>1, <3>1, <3>2
  <2>3. QED
    BY <2>1, <2>2 DEF SeenBy
<1>6. QED
  BY <1>4, <1>5

\* A commit keeps the invariant if the records it leaves are in order, have the version just
\* if the transaction brought it, and upset no plan.
LEMMA CommitInv ==
  ASSUME MigrateInv, NEW r \in Runners, InTxn(r),
         NEW new \in Seq(Versions), IsInjective(new), Commit(r, new),
         op[r].do = "run" => Version(r) \in ToSet(new),
         op[r].do = "rollback" => Version(r) \notin ToSet(new),
         \A o, p : /\ PlanOK(o, records) /\ p.do = o.do /\ p.todo = o.todo
                   /\ p.overtaken = o.overtaken \cup {Version(r)}
                   => PlanOK(p, new),
         PlanOK(op[r], new)
  PROVE  MigrateInv'
<1> DEFINE o == op[r]
           v == Head(o.todo)
<1>1. ExecOK(o) /\ o \in ExecOp /\ o.todo \in Seq(Versions) /\ o.todo # <<>>
  BY LocalsOf DEF InTxn, ExecOK, ExecOp
<1>2. v \in Versions /\ Tail(o.todo) \in Seq(Versions) /\ v = Version(r)
  BY <1>1, TailIs DEF Version
<1>3. schema' = SeenBy(o, schema) /\ records' = new
  BY DEF Commit, Seen, SeenBy
<1>4. IsFiniteSet(schema') /\ schema' \subseteq Items
  <2>1. IsFiniteSet(schema \cup o.added)
    BY <1>1, FS_Union DEF MigrateInv, ExecOK
  <2>2. IsFiniteSet((schema \cup o.added) \ o.dropped)
    BY <2>1, FS_Difference
  <2>3. QED
    BY <1>1, <1>3, <2>2 DEF MigrateInv, ExecOp, SeenBy
<1>5. op' = [q \in Runners |-> op'[q]]
  BY DEF Commit
<1>6. OpOK(op'[r], new, schema') /\ ~InTxn(r)'
  <2> DEFINE p == [pc |-> "next", do |-> o.do, todo |-> Tail(o.todo), overtaken |-> o.overtaken]
  <2>1. op'[r] = p
    BY DEF Commit
  <2>2. /\ p \in NextOp /\ p.pc = "next" /\ p.do = o.do /\ p.todo = Tail(o.todo)
        /\ p.overtaken = o.overtaken
    BY <1>1, <1>2 DEF ExecOp, NextOp
  <2> HIDE DEF p
  <2>3. /\ o.do = "run" => v \in ToSet(new) \cup o.overtaken
        /\ o.do = "rollback" => v \notin ToSet(new)
    BY <1>2
  <2>4. PlanOK(o, new)
    OBVIOUS
  <2> HIDE DEF o, v
  <2>5. PlanOK(p, new)
    BY <1>1, <2>2, <2>3, <2>4, PlanTail DEF v
  <2>6. QED
    BY <2>1, <2>2, <2>5 DEF OpOK, InTxn
<1>7. ASSUME NEW q \in Runners \ {r}
      PROVE  /\ OpOK(op'[q], new, schema') /\ InTxn(q)' = InTxn(q)
             /\ InTxn(q) => op'[q].held = op[q].held
  <2> DEFINE x == op[q]
             p == [x EXCEPT !.overtaken = x.overtaken \cup {v}]
  <2>1. op'[q] = IF x.pc \in {"next", "exec"} THEN p ELSE x
    BY <1>2 DEF Commit
  <2>2. OpOK(x, records, schema)
    BY DEF MigrateInv
  <2>3. CASE x.pc \in {"idle", "connected"}
    BY <2>1, <2>3 DEF OpOK, InTxn
  <2>4. CASE x \in NextOp /\ PlanOK(x, records)
    <3>1. /\ p \in NextOp /\ p.do = x.do /\ p.todo = x.todo /\ op'[q] = p
          /\ p.overtaken = x.overtaken \cup {v} /\ x.pc = "next" /\ p.pc = "next"
      BY <1>2, <2>1, <2>4 DEF NextOp
    <3> HIDE DEF p
    <3>2. PlanOK(p, new)
      BY <1>2, <2>4, <3>1
    <3>3. QED
      BY <3>1, <3>2 DEF OpOK, InTxn
  <2>5. CASE ExecOK(x) /\ InProgress(x, schema) /\ PlanOK(x, records)
    <3>1. /\ p.do = x.do /\ p.todo = x.todo /\ op'[q] = p /\ p.held = x.held
          /\ p.overtaken = x.overtaken \cup {v} /\ x.pc = "exec" /\ p.pc = "exec"
      BY <2>1, <2>5 DEF ExecOK, ExecOp
    <3>2. o.held \cap x.held = {}
      BY <3>1 DEF MigrateInv, LocksApart, InTxn
    <3>3. ExecOK(p) /\ InProgress(p, schema')
      BY <1>1, <1>3, <2>5, <3>2, ProgressBears
    <3> HIDE DEF p
    <3>4. PlanOK(p, new)
      BY <1>2, <2>5, <3>1
    <3>5. QED
      BY <3>1, <3>3, <3>4 DEF OpOK, InTxn
  <2>6. QED
    BY <2>2, <2>3, <2>4, <2>5 DEF OpOK
<1>8. LocksApart'
  <2> SUFFICES ASSUME NEW p \in Runners, NEW q \in Runners, p # q, InTxn(p)', InTxn(q)'
               PROVE  op'[p].held \cap op'[q].held = {}
    BY DEF LocksApart
  <2>1. p # r /\ q # r
    BY <1>6
  <2>2. QED
    BY <1>7, <2>1 DEF MigrateInv, LocksApart
<1>9. QED
  BY <1>3, <1>4, <1>5, <1>6, <1>7, <1>8 DEF MigrateInv

\* The versions recorded once v is.
LEMMA AppendSet ==
  ASSUME NEW recs \in Seq(Versions), NEW v \in Versions
  PROVE  ToSet(Append(recs, v)) = ToSet(recs) \cup {v}
<1> DEFINE new == Append(recs, v)
<1>1. /\ DOMAIN recs = 1..Len(recs) /\ DOMAIN new = 1..(Len(recs) + 1) /\ Len(recs) \in Nat
      /\ new[Len(recs) + 1] = v /\ \A i \in DOMAIN recs : new[i] = recs[i]
  BY LenProperties, AppendProperties
<1> HIDE DEF new
<1>2. \A i \in DOMAIN new : i \in DOMAIN recs \/ i = Len(recs) + 1
  BY <1>1
<1>3. Len(recs) + 1 \in DOMAIN new /\ DOMAIN recs \subseteq DOMAIN new
  BY <1>1
<1>4. QED
  BY <1>1, <1>2, <1>3 DEF ToSet, new

\* A version is recorded after all the others.
LEMMA RecordMigrationInv ==
  ASSUME MigrateInv, NEW r \in Runners, RecordMigration(r)
  PROVE  MigrateInv'
<1> DEFINE o == op[r]
           v == Version(r)
           new == Append(records, v)
<1>1. /\ InTxn(r) /\ o.left = <<>> /\ o.do = "run" /\ v \notin ToSet(records)
      /\ Commit(r, new)
  BY DEF RecordMigration, Recorded
<1>2. ExecOK(o) /\ PlanOK(o, records) /\ records \in Seq(Versions) /\ IsInjective(records)
  BY <1>1, LocalsOf DEF InTxn, MigrateInv
<1>3. v \in Versions
  BY <1>2, TailIs DEF ExecOK, ExecOp, Version
<1> HIDE DEF v
<1>4. /\ DOMAIN records = 1..Len(records) /\ DOMAIN new = 1..(Len(records) + 1)
      /\ Len(records) \in Nat /\ new \in Seq(Versions)
      /\ new[Len(records) + 1] = v /\ \A i \in DOMAIN records : new[i] = records[i]
  BY <1>2, <1>3, LenProperties, AppendProperties
<1> HIDE DEF new
<1>5. \A i \in DOMAIN new : i \in DOMAIN records \/ i = Len(records) + 1
  BY <1>4
<1>6. v \in ToSet(new)
  BY <1>2, <1>3, AppendSet DEF new
<1>7. IsInjective(new)
  <2>1. \A i \in DOMAIN records : new[i] \in ToSet(records)
    BY <1>4 DEF ToSet
  <2>2. QED
    BY <1>1, <1>2, <1>4, <1>5, <2>1 DEF IsInjective
<1>8. \A x, p : /\ PlanOK(x, records) /\ p.do = x.do /\ p.todo = x.todo
                /\ p.overtaken = x.overtaken \cup {v}
                => PlanOK(p, new)
  BY <1>2, <1>3, PlanAppend DEF new
<1>9. PlanOK(o, new)
  BY <1>1, <1>2, <1>3, PlanAppend DEF new
<1>10. QED
  BY <1>1, <1>4, <1>6, <1>7, <1>8, <1>9, CommitInv DEF v

\* A record is removed, if it is still there.
LEMMA RemoveRecordInv ==
  ASSUME MigrateInv, NEW r \in Runners, RemoveRecord(r)
  PROVE  MigrateInv'
<1> DEFINE o == op[r]
           v == Version(r)
           new == Without(records, v)
<1>1. InTxn(r) /\ o.left = <<>> /\ o.do = "rollback" /\ Commit(r, new)
  BY DEF RemoveRecord, Without
<1>2. ExecOK(o) /\ PlanOK(o, records) /\ records \in Seq(Versions) /\ IsInjective(records)
  BY <1>1, LocalsOf DEF InTxn, MigrateInv
<1> HIDE DEF v
<1>3. new \in Seq(Versions) /\ ToSet(new) = ToSet(records) \ {v} /\ IsInjective(new)
  BY <1>2, WithoutIs
<1>4. \A x, p : /\ PlanOK(x, records) /\ p.do = x.do /\ p.todo = x.todo
                /\ p.overtaken = x.overtaken \cup {v}
                => PlanOK(p, new)
  BY <1>2, PlanWithout
<1>5. PlanOK(o, new)
  BY <1>1, <1>2, PlanWithout
<1> HIDE DEF new
<1>6. QED
  BY <1>1, <1>3, <1>4, <1>5, CommitInv DEF v

-----------------------------------------------------------------------------
(* The invariant holds *)

\* A database without tables has no migration recorded, and nobody has connected.
LEMMA InitInv == MigrateInit => MigrateInv
<1> SUFFICES ASSUME MigrateInit PROVE MigrateInv
  OBVIOUS
<1>1. schema = {} /\ records = <<>> /\ op = [r \in Runners |-> Idle]
  BY DEF MigrateInit
<1>2. IsFiniteSet(schema) /\ schema \subseteq Items
  BY <1>1, FS_EmptySet
<1>3. records \in Seq(Versions) /\ IsInjective(records) /\ ToSet(records) = {}
  BY <1>1 DEF IsInjective, ToSet
<1>4. op = [r \in Runners |-> op[r]] /\ \A r \in Runners : OpOK(op[r], records, schema)
  BY <1>1 DEF OpOK, Idle
<1>5. LocksApart
  BY <1>1 DEF LocksApart, InTxn, Idle
<1>6. QED
  BY <1>2, <1>3, <1>4, <1>5 DEF MigrateInv

\* Every step of every command keeps the invariant, and so does the start of the server.
LEMMA NextInv == MigrateInv /\ [MigrateNext]_migrateVars => MigrateInv'
<1>1. ASSUME MigrateInv, op' = op, records' = records,
             schema' = schema \/ schema' = schema \cup Models
      PROVE  MigrateInv'
  <2>1. IsFiniteSet(schema') /\ schema' \subseteq Items
    BY <1>1, FS_Union, ModelsAreItems DEF MigrateInv
  <2>2. \A r \in Runners : OpOK(op[r], records, schema')
    BY <1>1, ModelsKeep DEF MigrateInv
  <2>3. LocksApart'
    BY <1>1 DEF MigrateInv, LocksApart, InTxn
  <2>4. QED
    BY <1>1, <2>1, <2>2, <2>3 DEF MigrateInv
<1>2. ASSUME MigrateInv, ServerStarts PROVE MigrateInv'
  BY <1>1, <1>2 DEF ServerStarts, AutoMigrate
<1>3. ASSUME MigrateInv, UNCHANGED migrateVars PROVE MigrateInv'
  BY <1>1, <1>3 DEF migrateVars
<1>4. ASSUME MigrateInv, NEW r \in Runners,
             \/ Commands(r) \/ UpSteps(r) \/ DownSteps(r)
             \/ Execute(r) \/ StatementFails(r) \/ Done(r) \/ Abort(r)
      PROVE  MigrateInv'
  BY <1>4, RestInv, RunInv, RollbackInv, BeginInv, RecordMigrationInv, SkipInv,
     RemoveRecordInv, ExecuteInv DEF Commands, UpSteps, DownSteps
<1>5. QED
  BY <1>2, <1>3, <1>4 DEF MigrateNext

\* In every behaviour the invariant holds.
LEMMA AlwaysInv == MigrateSpec => []MigrateInv
BY InitInv, NextInv, PTL DEF MigrateSpec

-----------------------------------------------------------------------------
(* What it shows *)

\* In every behaviour the schema is a set of items, a version is recorded once at most and
\* every command has the locals of its place (migrate.go:64-240).
THEOREM MigrateTyped == MigrateSpec => []MigrateTypeOK
<1>1. MigrateInv => MigrateTypeOK
  <2> SUFFICES ASSUME MigrateInv, NEW r \in Runners
               PROVE  \/ op[r].pc \in {"idle", "connected"}
                      \/ /\ op[r].pc \in {"next", "exec"} /\ op[r].do \in {"run", "rollback"}
                         /\ op[r].todo \in Seq(Versions) /\ op[r].overtaken \subseteq Versions
                         /\ InTxn(r) => /\ op[r].todo # <<>> /\ op[r].left \in Seq(Chunks)
                                        /\ op[r].held \cup op[r].shared \subseteq Tables
                                        /\ op[r].added \cap op[r].dropped = {}
    BY DEF MigrateInv, MigrateTypeOK
  <2>1. OpOK(op[r], records, schema)
    BY DEF MigrateInv
  <2>2. CASE op[r] \in NextOp
    BY <2>2 DEF NextOp, InTxn
  <2>3. CASE ExecOK(op[r])
    BY <2>3 DEF ExecOK, ExecOp, InTxn
  <2>4. QED
    BY <2>1, <2>2, <2>3 DEF OpOK
<1>2. QED
  BY <1>1, AlwaysInv, PTL

\* Only the transaction of a version can part what the version owns from its record, and only if
\* another overtook it and no ALTER TABLE kept that one out.
LEMMA KeptByNext ==
  ASSUME MigrateInv, [MigrateNext]_migrateVars, NEW v \in Versions, NEW i \in Owned[v],
         InStep(v, i), ~InStep(v, i)'
  PROVE  /\ ~Guarded(v, i)
         /\ \E r \in Runners : /\ InTxn(r) /\ ~InTxn(r)' /\ Version(r) = v
                               /\ v \in op[r].overtaken
<1>1. ~(records' = records /\ (schema' = schema \/ schema' = schema \cup Models))
  BY OwnedIs DEF InStep, Recorded
<1>2. PICK r \in Runners : RecordMigration(r) \/ RemoveRecord(r)
  BY <1>1 DEF MigrateNext, migrateVars, ServerStarts, AutoMigrate, Commands, Connect, Run,
     Rollback, List, CheckOnly, UpSteps, BeginUp, BeginTransaction, RecordFails, DownSteps, Skip,
     BeginDown, Execute, StatementFails, Done, Abort
<1> DEFINE o == op[r]
           u == Head(o.todo)
<1>3. /\ ExecOK(o) /\ InProgress(o, schema) /\ InTxn(r) /\ o.left = <<>> /\ u = Version(r)
      /\ records \in Seq(Versions)
  BY <1>2, LocalsOf DEF RecordMigration, RemoveRecord, InTxn, MigrateInv, Version
<1>4. u \in Versions
  BY <1>3, TailIs DEF ExecOK, ExecOp
<1>5. ~InTxn(r)'
  BY <1>2 DEF RecordMigration, RemoveRecord, Commit, InTxn
<1>6. schema' = SeenBy(o, schema)
  BY <1>2 DEF RecordMigration, RemoveRecord, Commit, Seen, SeenBy
<1>7. \/ o.do = "run" /\ Recorded' = Recorded \cup {u}
      \/ o.do = "rollback" /\ Recorded' = Recorded \ {u}
  <2>1. CASE RecordMigration(r)
    <3>1. records' = Append(records, u) /\ o.do = "run"
      BY <1>3, <2>1 DEF RecordMigration, Commit
    <3>2. ToSet(Append(records, u)) = ToSet(records) \cup {u}
      BY <1>3, <1>4, AppendSet
    <3>3. QED
      BY <3>1, <3>2 DEF Recorded
  <2>2. CASE RemoveRecord(r)
    <3>1. records' = Without(records, u) /\ o.do = "rollback"
      BY <1>3, <2>2 DEF RemoveRecord, Commit, Without
    <3>2. ToSet(Without(records, u)) = ToSet(records) \ {u}
      BY <1>3, WithoutIs
    <3>3. QED
      BY <3>1, <3>2 DEF Recorded
  <2>3. QED
    BY <1>2, <2>1, <2>2
<1> HIDE DEF o, u
<1>8. u = v
  <2> SUFFICES ASSUME u # v PROVE FALSE
    OBVIOUS
  <2>1. i \notin o.added \cup o.dropped
    BY <1>3, DoneFor DEF u
  <2>2. i \in schema' <=> i \in schema
    BY <1>6, <2>1 DEF SeenBy
  <2>3. v \in Recorded' <=> v \in Recorded
    BY <1>7
  <2>4. QED
    BY <2>2, <2>3 DEF InStep
<1>9. ~Guarded(v, i) /\ v \in o.overtaken
  <2> SUFFICES ASSUME Guarded(v, i) \/ v \notin o.overtaken PROVE FALSE
    OBVIOUS
  <2>1. ToSet(o.left) = {}
    BY <1>3 DEF ToSet
  <2>2. i \in SeenBy(o, schema) <=> o.do = "run"
    BY <1>3, <1>8, <2>1 DEF InProgress, u
  <2>3. QED
    BY <1>6, <1>7, <1>8, <2>2 DEF InStep
<1>10. QED
  BY <1>3, <1>5, <1>8, <1>9 DEF o

\* What the executed statements of a version bring comes and goes with its record, however
\* commands overlap and whichever statement fails, but for a command that another overtook
\* between its listing and its commit; and even that one keeps the columns, since ALTER TABLE
\* makes the two wait for each other (migrate.go:121-150, 208-231).
THEOREM KeptInStep == MigrateSpec => InStepUnlessOvertaken
<1> DEFINE Kept ==
      \A v \in Versions : \A i \in Owned[v] :
        InStep(v, i) /\ ~InStep(v, i)'
          => /\ ~Guarded(v, i)
             /\ \E r \in Runners : /\ InTxn(r) /\ ~InTxn(r)' /\ Version(r) = v
                                  /\ v \in op[r].overtaken
<1>1. ASSUME MigrateInv, [MigrateNext]_migrateVars PROVE Kept
  BY <1>1, KeptByNext
<1>2. QED
  BY <1>1, AlwaysInv, PTL DEF MigrateSpec, InStepUnlessOvertaken

\* The columns that a version owns and that come and go by ALTER TABLE alone.
ColumnsTracked == \A v \in Versions : \A i \in Owned[v] : Guarded(v, i) => InStep(v, i)

\* A column that one version alone adds and drops, if at all, by ALTER TABLE is there exactly
\* while the version is recorded, for any number of overlapping runs and rollbacks, even those
\* over stale lists (migrate.go:121-150, 208-231).
THEOREM ColumnsStayTracked == MigrateSpec => []ColumnsTracked
<1>1. MigrateInit => ColumnsTracked
  BY DEF MigrateInit, ColumnsTracked, InStep, Recorded, ToSet
<1>2. MigrateInv /\ ColumnsTracked /\ [MigrateNext]_migrateVars => ColumnsTracked'
  <2> SUFFICES ASSUME MigrateInv, ColumnsTracked, [MigrateNext]_migrateVars,
                      NEW v \in Versions, NEW i \in Owned[v], Guarded(v, i)
               PROVE  InStep(v, i)'
    BY DEF ColumnsTracked
  <2>1. InStep(v, i)
    BY DEF ColumnsTracked
  <2>2. QED
    BY <2>1, KeptByNext
<1>3. QED
  BY <1>1, <1>2, AlwaysInv, PTL DEF MigrateSpec

\* A transaction that ends when the records change is the one that changes them.
LEMMA EndsByItsCommit ==
  ASSUME MigrateInv, MigrateNext, records' # records, NEW r \in Runners, InTxn(r), ~InTxn(r)'
  PROVE  RecordMigration(r) \/ RemoveRecord(r)
<1>1. PICK q \in Runners : RecordMigration(q) \/ RemoveRecord(q)
  BY DEF MigrateNext, ServerStarts, AutoMigrate, Commands, Connect, Run, Rollback, List,
         CheckOnly, UpSteps, BeginUp, BeginTransaction, RecordFails, DownSteps, Skip,
         BeginDown, Execute, StatementFails, Done, Abort
<1>2. CASE q = r
  BY <1>1, <1>2
<1>3. CASE q # r
  <2>1. \E new : Commit(q, new)
    BY <1>1 DEF RecordMigration, RemoveRecord
  <2>2. PICK new : Commit(q, new)
    BY <2>1
  <2>3. op'[r] = op[r] \/ op'[r] = [op[r] EXCEPT !.overtaken = @ \cup {Version(q)}]
    BY <1>3, <2>2 DEF Commit
  <2>4. op[r] \in ExecOp
    BY LocalsOf DEF InTxn, ExecOK
  <2>5. op'[r].pc = op[r].pc
    BY <2>3, <2>4 DEF ExecOp
  <2>6. QED
    BY <2>5 DEF InTxn
<1>4. QED
  BY <1>2, <1>3

\* The records after a commit.
LEMMA RecordedAfter ==
  ASSUME MigrateInv, NEW r \in Runners, RecordMigration(r) \/ RemoveRecord(r)
  PROVE  /\ RecordMigration(r) => Recorded \subseteq Recorded' /\ op[r].do = "run"
         /\ RemoveRecord(r) => Recorded' \subseteq Recorded /\ op[r].do = "rollback"
         /\ ExecOK(op[r]) /\ PlanOK(op[r], records)
<1>1. records \in Seq(Versions) /\ ExecOK(op[r]) /\ PlanOK(op[r], records)
  BY LocalsOf DEF MigrateInv, RecordMigration, RemoveRecord, InTxn
<1>2. Version(r) \in Versions
  BY <1>1, TailIs DEF ExecOK, ExecOp, Version
<1>3. ASSUME RecordMigration(r) PROVE Recorded \subseteq Recorded' /\ op[r].do = "run"
  <2> DEFINE v == Version(r)
             new == Append(records, v)
  <2>1. records' = new /\ op[r].do = "run"
    BY <1>3 DEF RecordMigration, Commit
  <2>2. \A i \in DOMAIN records : i \in DOMAIN new /\ new[i] = records[i]
    BY <1>1, <1>2, LenProperties, AppendProperties
  <2>3. QED
    BY <2>1, <2>2 DEF Recorded, ToSet
<1>4. ASSUME RemoveRecord(r) PROVE Recorded' \subseteq Recorded /\ op[r].do = "rollback"
  <2> DEFINE v == Version(r)
             new == Without(records, v)
  <2>1. records' = new /\ op[r].do = "rollback"
    BY <1>4 DEF RemoveRecord, Commit, Without
  <2>2. ToSet(new) \subseteq ToSet(records)
    BY <1>1, WithoutIs
  <2>3. QED
    BY <2>1, <2>2 DEF Recorded
<1>5. QED
  BY <1>1, <1>3, <1>4

\* A run records a version only after all those before it, but for what other commands
\* committed since it listed them: what it has not recorded is still in its list, in ascending
\* order (migrate.go:84, 104-155).
THEOREM RunsInOrder == MigrateSpec => AppliedInOrder
<1> DEFINE InOrder ==
      \A r \in Runners : \A v \in Recorded' \ Recorded :
        InTxn(r) /\ ~InTxn(r)' /\ Version(r) = v
          => {u \in Versions : u < v} \subseteq Recorded \cup op[r].overtaken
<1>1. ASSUME MigrateInv, [MigrateNext]_migrateVars PROVE InOrder
  <2> SUFFICES ASSUME NEW r \in Runners, NEW v \in Recorded' \ Recorded,
                      InTxn(r), ~InTxn(r)', Version(r) = v,
                      NEW u \in Versions, u < v, u \notin Recorded \cup op[r].overtaken
               PROVE  FALSE
    OBVIOUS
  <2>1. records' # records
    BY DEF Recorded
  <2>2. RecordMigration(r) \/ RemoveRecord(r)
    BY <1>1, <2>1, EndsByItsCommit DEF migrateVars
  <2>3. op[r].do = "run" /\ ExecOK(op[r]) /\ PlanOK(op[r], records)
    BY <1>1, <2>2, RecordedAfter
  <2> DEFINE s == op[r].todo
  <2>4. s \in Seq(Versions) /\ s # <<>>
    BY <2>3 DEF ExecOK, ExecOp
  <2>5. v = s[1] /\ v \in Versions /\ 1 \in DOMAIN s /\ DOMAIN s = 1..Len(s) /\ Len(s) \in Nat
    BY <2>4, TailIs DEF Version
  <2>6. PICK k \in DOMAIN s : s[k] = u
    <3>1. u \in ToSet(s)
      BY <2>3 DEF PlanOK, RunPlan, Recorded
    <3>2. QED
      BY <3>1 DEF ToSet
  <2>7. k = 1 \/ s[1] < s[k]
    <3>1. k = 1 \/ 1 < k
      BY <2>5
    <3>2. QED
      BY <2>3, <2>5, <3>1 DEF PlanOK, RunPlan
  <2>8. u \in Nat /\ v \in Nat
    BY <2>5, VersionsOrdered
  <2>9. QED
    BY <2>5, <2>6, <2>7, <2>8
<1>2. QED
  BY <1>1, AlwaysInv, PTL DEF MigrateSpec, AppliedInOrder

\* A rollback removes a version only after those recorded later, but for those without a down
\* file and what other commands committed since it listed them (migrate.go:174-178, 186-238).
THEOREM RollbacksFromTheEnd == MigrateSpec => RolledBackFromTheEnd
<1> DEFINE FromTheEnd ==
      \A r \in Runners : \A i \in DOMAIN records :
        InTxn(r) /\ ~InTxn(r)' /\ records[i] \notin Recorded' /\ records[i] = Version(r)
          => \A j \in DOMAIN records : j > i =>
               records[j] \in (Versions \ DOMAIN Down) \cup op[r].overtaken
<1>1. ASSUME MigrateInv, [MigrateNext]_migrateVars PROVE FromTheEnd
  <2> SUFFICES ASSUME NEW r \in Runners, NEW i \in DOMAIN records, InTxn(r), ~InTxn(r)',
                      records[i] \notin Recorded', records[i] = Version(r),
                      NEW j \in DOMAIN records, j > i
               PROVE  records[j] \in (Versions \ DOMAIN Down) \cup op[r].overtaken
    OBVIOUS
  <2>1. records[i] \in Recorded
    BY DEF Recorded, ToSet
  <2>2. records' # records
    BY <2>1 DEF Recorded
  <2>3. RecordMigration(r) \/ RemoveRecord(r)
    BY <1>1, <2>2, EndsByItsCommit DEF migrateVars
  <2>4. op[r].do = "rollback" /\ ExecOK(op[r]) /\ PlanOK(op[r], records)
    BY <1>1, <2>1, <2>3, RecordedAfter
  <2> DEFINE s == op[r].todo
  <2>5. s \in Seq(Versions) /\ s # <<>>
    BY <2>4 DEF ExecOK, ExecOp
  <2>6. Version(r) = s[1] /\ 1 \in DOMAIN s /\ DOMAIN s = 1..Len(s) /\ Len(s) \in Nat
    BY <2>5, TailIs DEF Version
  <2>7. \A b \in DOMAIN s : ~(b < 1)
    BY <2>6
  <2>8. i < j
    BY <1>1, LenProperties DEF MigrateInv
  <2>9. QED
    BY <2>4, <2>6, <2>7, <2>8 DEF PlanOK, RollbackPlan
<1>2. QED
  BY <1>1, AlwaysInv, PTL DEF MigrateSpec, RolledBackFromTheEnd
=============================================================================
