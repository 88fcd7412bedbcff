-------------------------- MODULE TourEditsProofs --------------------------
(***************************************************************************)
(* What overlapping edits of a tour can do to it, for every number of      *)
(* workers, tours and scenes: that they lose nothing but what a copy that  *)
(* is out of date writes over, and what linking makes of any list of       *)
(* rooms.                                                                  *)
(***************************************************************************)
EXTENDS TourEdits, FiniteSetTheorems, SequenceTheorems, WellFoundedInduction, TLAPS

-----------------------------------------------------------------------------
(* Loops *)

\* A set of numbers that is not empty has a least: what lies below its members cannot shrink
\* for ever.
LEMMA HasLeast ==
  ASSUME NEW S \in SUBSET Nat, S # {}
  PROVE  \E m \in S : \A j \in S : m <= j
<1> PICK n \in S : TRUE
  OBVIOUS
<1> DEFINE T == {x \in S : x <= n}
           Below(x) == {y \in T : y < x}
           parts == {Below(x) : x \in T}
<1>1. IsFiniteSet(T)
  <2>1. T \in SUBSET Nat /\ n \in Nat /\ \A x \in T : x <= n
    OBVIOUS
  <2> HIDE DEF T
  <2>2. QED
    BY <2>1, FS_BoundedSetOfNaturals
<1>2. /\ parts # {} /\ parts \subseteq FiniteSubsetsOf(T)
      /\ IsWellFoundedOn(StrictSubsetOrdering(T), FiniteSubsetsOf(T))
  <2>1. parts \subseteq FiniteSubsetsOf(T)
    BY <1>1, FS_FiniteSubsetsOfFinite
  <2>2. n \in T
    OBVIOUS
  <2>3. parts # {}
    BY <2>2
  <2>4. QED
    BY <1>1, <2>1, <2>3, FS_StrictSubsetOrderingWellFounded
<1>3. PICK least \in parts : \A B \in parts : <<B, least>> \notin StrictSubsetOrdering(T)
  <2> HIDE DEF parts
  <2>1. QED
    BY <1>2, WFMin
<1>4. PICK m \in T : least = Below(m)
  OBVIOUS
<1>5. ASSUME NEW j \in T, j < m PROVE FALSE
  <2>1. m \in Nat /\ j \in Nat /\ \A z \in T : z \in Nat
    OBVIOUS
  <2>2. ~(j < j) /\ \A z \in T : z < j => z < m
    BY <1>5, <2>1
  <2>3. /\ Below(j) \subseteq least /\ Below(j) # least /\ Below(j) \in parts
        /\ Below(j) \in SUBSET T /\ least \in SUBSET T
    BY <1>4, <1>5, <2>2
  <2> HIDE DEF Below, parts, T
  <2>4. <<Below(j), least>> \in StrictSubsetOrdering(T)
    BY <2>3 DEF StrictSubsetOrdering
  <2>5. QED
    BY <1>3, <2>3, <2>4
<1>6. m \in S /\ \A j \in S : m <= j
  BY <1>5
<1>7. QED
  BY <1>6

\* What holds before a loop, and of each pass if of the one before, holds of every pass.
LEMMA EveryPass ==
  ASSUME NEW n \in Nat, NEW S, 0 \in S, \A i \in 1..n : i - 1 \in S => i \in S
  PROVE  0..n \subseteq S
<1> DEFINE late == (0..n) \ S
<1> SUFFICES ASSUME late # {} PROVE FALSE
  OBVIOUS
<1>1. PICK m \in late : \A j \in late : m <= j
  <2>1. late \in SUBSET Nat
    OBVIOUS
  <2> HIDE DEF late
  <2>2. QED
    BY <2>1, HasLeast
<1>2. m \in 1..n /\ m - 1 \in 0..n /\ m - 1 \in S
  BY <1>1
<1>3. QED
  BY <1>1, <1>2

\* f is what a variable of X holds in a loop that starts with x and whose pass i is step[i].
Values(f, n, X, x, step) ==
  f \in [0..n -> X] /\ f[0] = x /\ \A i \in 1..n : f[i] = step[i][f[i - 1]]

\* The variable has a value after each pass.
LEMMA LoopHasValues ==
  ASSUME NEW n \in Nat, NEW X, NEW x \in X, NEW step \in [1..n -> [X -> X]]
  PROVE  \E f : Values(f, n, X, x, step)
<1> DEFINE Runs(f, k) == /\ f \in [0..k -> X] /\ f[0] = x
                         /\ \A i \in 1..k : f[i] = step[i][f[i - 1]]
           S == {k \in 0..n : \E f : Runs(f, k)}
<1>1. 0 \in S
  <2>1. Runs([i \in 0..0 |-> x], 0)
    OBVIOUS
  <2>2. 0 \in 0..n
    OBVIOUS
  <2> HIDE DEF Runs
  <2>3. QED
    BY <2>1, <2>2
<1>2. ASSUME NEW k \in 1..n, k - 1 \in S PROVE k \in S
  <2>1. PICK f : Runs(f, k - 1)
    BY <1>2
  <2> DEFINE g == [i \in 0..k |-> IF i = k THEN step[k][f[k - 1]] ELSE f[i]]
  <2>2. f[k - 1] \in X /\ step[k] \in [X -> X]
    BY <2>1
  <2>3. g \in [0..k -> X] /\ g[0] = x
    BY <2>1, <2>2
  <2>4. ASSUME NEW i \in 1..k PROVE g[i] = step[i][g[i - 1]]
    <3>1. g[i - 1] = f[i - 1]
      OBVIOUS
    <3>2. CASE i = k
      BY <3>1, <3>2
    <3>3. CASE i # k
      BY <2>1, <3>1, <3>3
    <3>4. QED
      BY <3>2, <3>3
  <2>5. Runs(g, k)
    BY <2>3, <2>4
  <2> HIDE DEF g, Runs
  <2>6. QED
    BY <2>5
<1>3. n \in S
  <2> HIDE DEF S
  <2>1. 0..n \subseteq S
    BY <1>1, <1>2, EveryPass
  <2>2. QED
    BY <2>1
<1>4. QED
  BY <1>3 DEF Values

-----------------------------------------------------------------------------
(* Linking *)

\* One pass of the loop appends a room.
LEMMA LinkRoomIs ==
  ASSUME NEW valid, NEW done \in Seq(Room), NEW room \in Room
  PROVE  /\ LinkRoom(valid, done, room) \in Seq(Room)
         /\ Len(LinkRoom(valid, done, room)) = Len(done) + 1
         /\ \A j \in 1..Len(done) : LinkRoom(valid, done, room)[j] = done[j]
         /\ LET last == LinkRoom(valid, done, room)[Len(done) + 1] IN
              /\ last.corners = room.corners
              /\ last.scene = IF room.scene \in valid \ Used(done) THEN room.scene ELSE NoScene
<1> DEFINE new == [room EXCEPT !.scene = IF @ \in valid \ Used(done) THEN @ ELSE NoScene]
<1>1. /\ new \in Room /\ new.corners = room.corners
      /\ new.scene = IF room.scene \in valid \ Used(done) THEN room.scene ELSE NoScene
  BY DEF Room
<1>2. LinkRoom(valid, done, room) = Append(done, new)
  BY DEF LinkRoom
<1> HIDE DEF new
<1>3. QED
  BY <1>1, <1>2, AppendProperties

\* done is what the loop over the rooms has linked after every pass.
Passes(done, rooms, valid) ==
  /\ done \in [0..Len(rooms) -> Seq(Room)]
  /\ Linked(rooms, valid) = done[Len(rooms)] /\ done[0] = <<>>
  /\ \A i \in 1..Len(rooms) : done[i] = LinkRoom(valid, done[i - 1], rooms[i])

\* The loop over the rooms, pass by pass.
LEMMA LinkedIs ==
  ASSUME NEW rooms \in Seq(Room), NEW valid
  PROVE  \E done : Passes(done, rooms, valid)
<1> DEFINE n == Len(rooms)
           Pass(g) == [i \in 0..n |->
                         IF i = 0 THEN <<>> ELSE LinkRoom(valid, g[i - 1], rooms[i])]
           step == [i \in 1..n |-> [d \in Seq(Room) |-> LinkRoom(valid, d, rooms[i])]]
<1>1. /\ n \in Nat /\ \A i \in 1..n : rooms[i] \in Room
      /\ 0 \in 0..n /\ \A i \in 1..n : i - 1 \in 0..n
  OBVIOUS
<1>2. Linked(rooms, valid) = (CHOOSE g : g = Pass(g))[n]
  BY DEF Linked
<1>3. step \in [1..n -> [Seq(Room) -> Seq(Room)]]
  BY <1>1, LinkRoomIs
<1>4. PICK f \in [0..n -> Seq(Room)] :
        f[0] = <<>> /\ \A i \in 1..n : f[i] = step[i][f[i - 1]]
  <2> DEFINE X == Seq(Room)
             x == <<>>
  <2>1. x \in X /\ n \in Nat /\ step \in [1..n -> [X -> X]]
    BY <1>1, <1>3
  <2> HIDE DEF step, n, X, x
  <2>2. \E f : Values(f, n, X, x, step)
    BY <2>1, LoopHasValues
  <2>3. QED
    BY <2>2 DEF Values, X, x
<1>5. ASSUME NEW i \in 1..n PROVE f[i] = LinkRoom(valid, f[i - 1], rooms[i])
  <2>1. i - 1 \in 0..n /\ f[i - 1] \in Seq(Room)
    BY <1>1, <1>4
  <2>2. f[i] = step[i][f[i - 1]]
    BY <1>4
  <2>3. step[i] = [d \in Seq(Room) |-> LinkRoom(valid, d, rooms[i])]
    OBVIOUS
  <2>4. QED
    BY <2>1, <2>2, <2>3
<1>6. f = Pass(f)
  BY <1>1, <1>4, <1>5
<1> DEFINE done == CHOOSE g : g = Pass(g)
<1>7. done = Pass(done)
  <2> HIDE DEF Pass
  <2>1. QED
    BY <1>6
<1> HIDE DEF done
<1>8. done[0] = <<>> /\ \A i \in 1..n : done[i] = LinkRoom(valid, done[i - 1], rooms[i])
  BY <1>1, <1>7
<1> DEFINE S == {i \in 0..n : done[i] \in Seq(Room)}
<1>9. 0 \in S /\ \A i \in 1..n : i - 1 \in S => i \in S
  <2>1. done[0] \in Seq(Room)
    <3>1. <<>> \in Seq(Room)
      OBVIOUS
    <3>2. QED
      BY <1>8, <3>1
  <2>2. ASSUME NEW i \in 1..n, done[i - 1] \in Seq(Room) PROVE done[i] \in Seq(Room)
    <3>1. done[i] = LinkRoom(valid, done[i - 1], rooms[i]) /\ rooms[i] \in Room
      BY <1>1, <1>8
    <3>2. QED
      BY <2>2, <3>1, LinkRoomIs
  <2>3. QED
    BY <1>1, <2>1, <2>2
<1>10. 0..n \subseteq S
  <2> HIDE DEF S, n
  <2>1. QED
    BY <1>1, <1>9, EveryPass
<1>11. done \in [0..n -> Seq(Room)]
  <2>1. DOMAIN done = 0..n /\ done = [i \in 0..n |-> done[i]]
    BY <1>7
  <2>2. QED
    BY <1>10, <2>1
<1>12. Passes(done, rooms, valid)
  BY <1>2, <1>8, <1>11 DEF Passes, done
<1>13. QED
  BY <1>12

\* Whether a room's photo is still free, as the loop finds out, and as it is meant.
LEMMA FreeMeansFirst ==
  ASSUME NEW rooms \in Seq(Room), NEW valid, NoScene \notin valid, NEW i \in 1..Len(rooms),
         NEW d \in Seq(Room), Len(d) = i - 1,
         \A j \in 1..(i - 1) :
           d[j].scene = IF KeepsLink(rooms, valid, j) THEN rooms[j].scene ELSE NoScene
  PROVE  rooms[i].scene \in valid \ Used(d) <=> KeepsLink(rooms, valid, i)
<1> DEFINE s == rooms[i].scene
           same == {j \in 1..(i - 1) : rooms[j].scene = s}
<1>1. DOMAIN d = 1..(i - 1) /\ i \in Nat
  OBVIOUS
<1>2. ASSUME s \in valid, same # {} PROVE s \in Used(d)
  <2>1. same \in SUBSET Nat
    BY <1>1
  <2>2. PICK m \in same : \A j \in same : m <= j
    <3> HIDE DEF same
    <3>1. QED
      BY <1>2, <2>1, HasLeast
  <2>3. m \in 1..(i - 1) /\ rooms[m].scene = s
    OBVIOUS
  <2>4. \A j \in 1..(m - 1) : j \in 1..(i - 1) /\ rooms[j].scene # s
    BY <1>1, <2>2
  <2>5. KeepsLink(rooms, valid, m)
    BY <1>2, <2>3, <2>4 DEF KeepsLink
  <2>6. d[m].scene = s /\ s # NoScene /\ m \in DOMAIN d
    BY <1>1, <1>2, <2>3, <2>5
  <2> HIDE DEF s
  <2>7. QED
    BY <2>6 DEF Used
<1>3. ASSUME s \in Used(d) PROVE same # {}
  <2>1. PICK j \in DOMAIN d : d[j].scene = s /\ s # NoScene
    BY <1>3 DEF Used
  <2>2. j \in 1..(i - 1) /\ rooms[j].scene = s
    BY <1>1, <2>1
  <2>3. QED
    BY <2>2
<1>4. KeepsLink(rooms, valid, i) <=> s \in valid /\ same = {}
  BY DEF KeepsLink
<1>5. QED
  BY <1>2, <1>3, <1>4

\* Linking gives what it is meant to, for every list of rooms.
LEMMA LinkedIsLinking ==
  ASSUME NEW rooms \in Seq(Room), NEW valid, NoScene \notin valid
  PROVE  Linked(rooms, valid) \in Seq(Room) /\ IsLinking(rooms, valid, Linked(rooms, valid))
<1> DEFINE n == Len(rooms)
           Link(j) == IF KeepsLink(rooms, valid, j) THEN rooms[j].scene ELSE NoScene
           Right(d, i) == /\ Len(d) = i
                          /\ \A j \in 1..i : /\ d[j].corners = rooms[j].corners
                                             /\ d[j].scene = Link(j)
<1>1. PICK done \in [0..n -> Seq(Room)] :
        /\ Linked(rooms, valid) = done[n] /\ done[0] = <<>>
        /\ \A i \in 1..n : done[i] = LinkRoom(valid, done[i - 1], rooms[i])
  <2>1. \E done : Passes(done, rooms, valid)
    BY LinkedIs
  <2>2. QED
    BY <2>1, Zenon DEF Passes
<1> DEFINE S == {i \in 0..n : Right(done[i], i)}
<1>2. n \in Nat /\ \A i \in 1..n : rooms[i] \in Room
  OBVIOUS
<1>3. 0 \in S
  BY <1>1, <1>2
<1>4. ASSUME NEW i \in 1..n, i - 1 \in S PROVE i \in S
  <2> DEFINE d == done[i - 1]
             e == done[i]
  <2>1. /\ d \in Seq(Room) /\ Right(d, i - 1) /\ rooms[i] \in Room
        /\ e = LinkRoom(valid, d, rooms[i])
    BY <1>1, <1>2, <1>4
  <2> HIDE DEF d, e, S
  <2>2. /\ Len(e) = Len(d) + 1 /\ \A j \in 1..Len(d) : e[j] = d[j]
        /\ e[Len(d) + 1].corners = rooms[i].corners
        /\ e[Len(d) + 1].scene = IF rooms[i].scene \in valid \ Used(d) THEN rooms[i].scene
                                 ELSE NoScene
    BY <2>1, LinkRoomIs
  <2>3. Len(d) = i - 1 /\ Len(d) + 1 = i /\ i \in 0..n
    BY <1>2, <2>1
  <2>4. rooms[i].scene \in valid \ Used(d) <=> KeepsLink(rooms, valid, i)
    BY <2>1, <2>3, FreeMeansFirst
  <2>5. e[i].corners = rooms[i].corners /\ e[i].scene = Link(i)
    BY <2>2, <2>3, <2>4
  <2>6. ASSUME NEW j \in 1..(i - 1)
        PROVE  e[j].corners = rooms[j].corners /\ e[j].scene = Link(j)
    <3>1. j \in 1..Len(d) /\ d[j].corners = rooms[j].corners /\ d[j].scene = Link(j)
      BY <2>1, <2>3
    <3> HIDE DEF Link
    <3>2. QED
      BY <2>2, <3>1
  <2>7. \A j \in 1..i : j = i \/ j \in 1..(i - 1)
    BY <1>2
  <2> HIDE DEF Link
  <2>8. Right(e, i)
    BY <2>2, <2>3, <2>5, <2>6, <2>7
  <2>9. QED
    BY <2>3, <2>8 DEF S, e
<1>5. n \in S
  <2> HIDE DEF S, n
  <2>1. 0..n \subseteq S
    BY <1>2, <1>3, <1>4, EveryPass
  <2>2. QED
    BY <1>2, <2>1
<1>6. done[n] \in Seq(Room) /\ Right(done[n], n)
  BY <1>2, <1>5
<1>7. QED
  BY <1>1, <1>2, <1>6 DEF IsLinking

\* After linking, rooms show different photos, of those they may show.
LEMMA LinkingSeparates ==
  ASSUME NEW rooms \in Seq(Room), NEW valid, NEW out, IsLinking(rooms, valid, out),
         NEW i \in DOMAIN out, out[i].scene # NoScene
  PROVE  /\ out[i].scene \in valid
         /\ \A j \in DOMAIN out \ {i} : out[j].scene # out[i].scene
<1>1. DOMAIN out = 1..Len(rooms) /\ Len(rooms) \in Nat
  BY DEF IsLinking
<1>2. \A j \in DOMAIN out : out[j].scene # NoScene =>
         KeepsLink(rooms, valid, j) /\ out[j].scene = rooms[j].scene
  BY DEF IsLinking
<1>3. out[i].scene \in valid
  BY <1>2 DEF KeepsLink
<1>4. ASSUME NEW j \in DOMAIN out, NEW k \in DOMAIN out, j < k, out[k].scene # NoScene
      PROVE  out[j].scene # out[k].scene
  <2>1. j \in 1..(k - 1)
    BY <1>1, <1>4
  <2>2. rooms[j].scene # rooms[k].scene
    BY <1>2, <1>4, <2>1 DEF KeepsLink
  <2>3. QED
    BY <1>2, <1>4, <2>2
<1>5. ASSUME NEW j \in DOMAIN out \ {i} PROVE out[j].scene # out[i].scene
  <2>1. j < i \/ i < j
    BY <1>1
  <2>2. CASE j < i
    BY <1>4, <2>2
  <2>3. CASE i < j
    BY <1>4, <2>3
  <2>4. QED
    BY <2>1, <2>2, <2>3
<1>6. QED
  BY <1>3, <1>5

\* What the analysis keeps are rooms.
LEMMA UsableAreRooms ==
  ASSUME NEW rooms \in Seq(Room)
  PROVE  Usable(rooms) \in Seq(Room)
<1> DEFINE n == Len(rooms)
           Keep(d, i) == IF rooms[i].corners = "few" THEN d ELSE Append(d, rooms[i])
           Pass(g) == [i \in 0..n |-> IF i = 0 THEN <<>> ELSE Keep(g[i - 1], i)]
           step == [i \in 1..n |-> [d \in Seq(Room) |-> Keep(d, i)]]
<1>1. /\ n \in Nat /\ \A i \in 1..n : rooms[i] \in Room
      /\ 0 \in 0..n /\ n \in 0..n /\ \A i \in 1..n : i - 1 \in 0..n
      /\ <<>> \in Seq(Room)
  OBVIOUS
<1>2. Usable(rooms) = (CHOOSE g : g = Pass(g))[n]
  BY DEF Usable
<1>3. \A i \in 1..n : \A d \in Seq(Room) : Keep(d, i) \in Seq(Room)
  BY <1>1
<1>4. PICK f \in [0..n -> Seq(Room)] :
        f[0] = <<>> /\ \A i \in 1..n : f[i] = step[i][f[i - 1]]
  <2> DEFINE X == Seq(Room)
             x == <<>>
  <2>1. x \in X /\ n \in Nat /\ step \in [1..n -> [X -> X]]
    BY <1>1, <1>3
  <2> HIDE DEF step, n, X, x
  <2>2. \E f : Values(f, n, X, x, step)
    BY <2>1, LoopHasValues
  <2>3. QED
    BY <2>2 DEF Values, X, x
<1>5. ASSUME NEW i \in 1..n PROVE f[i] = Keep(f[i - 1], i)
  <2>1. f[i - 1] \in Seq(Room)
    BY <1>1, <1>4
  <2>2. f[i] = step[i][f[i - 1]] /\ step[i] = [d \in Seq(Room) |-> Keep(d, i)]
    BY <1>4
  <2> HIDE DEF Keep
  <2>3. QED
    BY <2>1, <2>2
<1> HIDE DEF Keep
<1>6. f = Pass(f)
  BY <1>1, <1>4, <1>5
<1> DEFINE kept == CHOOSE g : g = Pass(g)
<1>7. kept = Pass(kept)
  <2> HIDE DEF Pass
  <2>1. QED
    BY <1>6
<1> HIDE DEF kept
<1> DEFINE S == {i \in 0..n : kept[i] \in Seq(Room)}
<1>8. kept[0] = <<>> /\ \A i \in 1..n : kept[i] = Keep(kept[i - 1], i)
  <2>1. \A i \in 0..n : kept[i] = IF i = 0 THEN <<>> ELSE Keep(kept[i - 1], i)
    BY <1>7
  <2>2. \A i \in 1..n : i \in 0..n /\ i # 0
    BY <1>1
  <2>3. QED
    BY <1>1, <2>1, <2>2
<1>9. 0 \in S /\ \A i \in 1..n : i - 1 \in S => i \in S
  <2>1. kept[0] \in Seq(Room)
    BY <1>1, <1>8
  <2>2. ASSUME NEW i \in 1..n, kept[i - 1] \in Seq(Room) PROVE kept[i] \in Seq(Room)
    BY <1>3, <1>8, <2>2
  <2>3. QED
    BY <1>1, <2>1, <2>2
<1>10. n \in S
  <2> HIDE DEF S, n
  <2>1. 0..n \subseteq S
    BY <1>1, <1>9, EveryPass
  <2>2. QED
    BY <1>1, <2>1
<1>11. QED
  BY <1>2, <1>10 DEF kept

-----------------------------------------------------------------------------
(* Types *)

Reqs == {Idle} \cup SaveReq \cup LinkReq \cup AnalyzeReq \cup AnswerReq

\* A handler's place tells which locals it has.
LEMMA WhichReq ==
  ASSUME EditsTypeOK, NEW w \in Workers
  PROVE  /\ req[w] \in Reqs
         /\ req[w].pc = "save" => req[w] \in SaveReq
         /\ req[w].pc = "link" => req[w] \in LinkReq
         /\ req[w].pc = "list" => req[w].t \in Tours
         /\ req[w].pc = "ask" => req[w].photos \in SUBSET Scenes
<1>1. req[w] \in Reqs
  BY DEF EditsTypeOK, Reqs
<1>2. QED
  BY <1>1 DEF Reqs, Idle, SaveReq, LinkReq, AnalyzeReq, AnswerReq

\* A table of scenes gives some scenes a tour, or Elsewhere.
LEMMA IsScenery ==
  ASSUME NEW table
  PROVE  table \in Scenery <=>
           /\ table = [s \in DOMAIN table |-> table[s]] /\ DOMAIN table \subseteq Scenes
           /\ \A s \in DOMAIN table : table[s] \in Tours \cup {Elsewhere}
<1>1. ASSUME table \in Scenery
      PROVE  /\ table = [s \in DOMAIN table |-> table[s]] /\ DOMAIN table \subseteq Scenes
             /\ \A s \in DOMAIN table : table[s] \in Tours \cup {Elsewhere}
  <2>1. PICK S \in SUBSET Scenes : table \in [S -> Tours \cup {Elsewhere}]
    BY <1>1 DEF Scenery
  <2>2. QED
    BY <2>1
<1>2. ASSUME table = [s \in DOMAIN table |-> table[s]], DOMAIN table \subseteq Scenes,
             \A s \in DOMAIN table : table[s] \in Tours \cup {Elsewhere}
      PROVE  table \in Scenery
  <2>1. table \in [DOMAIN table -> Tours \cup {Elsewhere}]
    BY <1>2
  <2>2. QED
    BY <1>2, <2>1 DEF Scenery
<1>3. QED
  BY <1>1, <1>2

\* What a statement leaves in a table of scenes.
LEMMA SceneryStays ==
  ASSUME NEW table \in Scenery
  PROVE  /\ \A gone : Without(table, gone) \in Scenery
         /\ \A s \in Scenes, t \in Tours : Saved(table, s, t) \in Scenery
<1>1. /\ DOMAIN table \subseteq Scenes
      /\ \A s \in DOMAIN table : table[s] \in Tours \cup {Elsewhere}
  BY IsScenery
<1>2. ASSUME NEW gone PROVE Without(table, gone) \in Scenery
  <2>1. Without(table, gone) \in [DOMAIN table \ gone -> Tours \cup {Elsewhere}]
    BY <1>1 DEF Without
  <2>2. QED
    BY <1>1, <2>1 DEF Scenery
<1>3. ASSUME NEW s \in Scenes, NEW t \in Tours PROVE Saved(table, s, t) \in Scenery
  <2>1. Saved(table, s, t) \in [DOMAIN table \cup {s} -> Tours \cup {Elsewhere}]
    BY <1>1 DEF Saved
  <2>2. QED
    BY <1>1, <2>1 DEF Scenery
<1>4. QED
  BY <1>2, <1>3

\* A body that names columns makes a row of a row.
LEMMA EditedIsRow ==
  ASSUME NEW row \in TourRow, NEW body, DOMAIN body \subseteq Columns,
         "published" \in DOMAIN body => body["published"] \in BOOLEAN,
         "scan" \in DOMAIN body => body["scan"] \in Seq(Room)
  PROVE  Edited(row, body) \in TourRow
BY DEF Edited, TourRow, Columns

\* A listing is of scenes of the tour.
LEMMA ListedAreScenes ==
  ASSUME EditsTypeOK, NEW t, NEW photos \in Listed(t)
  PROVE  /\ photos \in SUBSET Scenes /\ NoScene \notin photos
         /\ \A s \in photos : s \in DOMAIN scenes /\ scenes[s] = t
<1>1. photos \subseteq ScenesOf(scenes, t)
  BY DEF Listed, FirstScenes
<1>2. DOMAIN scenes \subseteq Scenes
  BY IsScenery DEF EditsTypeOK
<1>3. QED
  BY <1>1, <1>2, NoSceneIsNone, ScenesArePhotos DEF ScenesOf

\* Worker w goes on; the tables are left alone.
LEMMA GotoTyped ==
  ASSUME EditsTypeOK, NEW w \in Workers, NEW r \in Reqs, Goto(w, r),
         UNCHANGED <<tours, scenes, past>>
  PROVE  EditsTypeOK'
BY DEF EditsTypeOK, Goto, Reqs

\* An edit goes on to save the copy.
LEMMA SaveNextTyped ==
  ASSUME EditsTypeOK, NEW w \in Workers, NEW t \in Tours, NEW row \in TourRow, NEW body,
         NEW stale \in BOOLEAN, SaveNext(w, t, row, body, stale),
         UNCHANGED <<tours, scenes, past>>, DOMAIN body \subseteq Columns,
         "published" \in DOMAIN body => body["published"] \in BOOLEAN,
         "scan" \in DOMAIN body => body["scan"] \in Seq(Room)
  PROVE  EditsTypeOK'
<1> DEFINE edited == Edited(row, body)
           named == DOMAIN body
           r == [pc |-> "save", t |-> t, row |-> edited, named |-> named, stale |-> stale]
<1>1. edited \in TourRow
  BY EditedIsRow
<1>2. Goto(w, r) /\ named \in SUBSET Columns
  BY DEF SaveNext
<1> HIDE DEF edited, named
<1>3. r \in SaveReq
  BY <1>1, <1>2 DEF SaveReq
<1> HIDE DEF r
<1>4. QED
  BY <1>2, <1>3, GotoTyped DEF Reqs

\* A statement on the row of t leaves every handler its locals.
LEMMA WriteTyped ==
  ASSUME EditsTypeOK, NEW w \in Workers, NEW t, NEW new, Write(w, t, new, Idle)
  PROVE  req' \in [Workers -> Reqs] /\ tours' = new
<1>1. ASSUME NEW v \in Workers, HoldsCopy(v, t) PROVE [req[v] EXCEPT !.stale = TRUE] \in Reqs
  <2>1. req[v] \in SaveReq \/ req[v] \in LinkReq
    BY <1>1, WhichReq DEF HoldsCopy
  <2>2. CASE req[v] \in SaveReq
    BY <2>2 DEF SaveReq, Reqs
  <2>3. CASE req[v] \in LinkReq
    BY <2>3 DEF LinkReq, Reqs
  <2>4. QED
    BY <2>1, <2>2, <2>3
<1>2. \A v \in Workers : req[v] \in Reqs
  BY WhichReq
<1>3. Idle \in Reqs
  BY DEF Reqs
<1>4. QED
  BY <1>1, <1>2, <1>3 DEF Write

\* A save writes a row, and its history.
LEMMA SaveTourTyped ==
  ASSUME EditsTypeOK, NEW w \in Workers, SaveTour(w)
  PROVE  EditsTypeOK'
<1> DEFINE t == req[w].t
           row == req[w].row
           named == req[w].named
           asked == [c \in Columns |-> IF c \in named THEN row[c] ELSE past.last[t][c]]
           over == (past.undone[t] \ named) \cup
                     {c \in Columns \ named : req[w].stale /\ row[c] # past.last[t][c]}
<1>1. t \in Tours /\ row \in TourRow /\ named \in SUBSET Columns
  BY WhichReq DEF SaveTour, SaveReq
<1>2. /\ Write(w, t, Saved(tours, t, row), Idle) /\ scenes' = scenes
      /\ past' = [past EXCEPT !.last[t] = asked, !.undone[t] = over]
  BY DEF SaveTour
<1>3. past \in Past
  BY DEF EditsTypeOK
<1>4. past.last[t] \in TourRow /\ past.undone[t] \in SUBSET Columns
  BY <1>1, <1>3 DEF Past
<1>5. asked \in TourRow /\ over \in SUBSET Columns
  <2>1. asked \in TourRow
    BY <1>1, <1>4 DEF TourRow, Columns
  <2>2. over \in SUBSET Columns
    BY <1>4
  <2>3. QED
    BY <2>1, <2>2
<1> HIDE DEF asked, over
<1>6. past' \in Past
  <2> HIDE DEF t, row, named
  <2>1. QED
    BY <1>1, <1>2, <1>3, <1>5 DEF Past
<1>7. tours' = Saved(tours, t, row) /\ req' \in [Workers -> Reqs]
  BY <1>2, WriteTyped
<1>8. DOMAIN tours' \subseteq Tours /\ \A u \in DOMAIN tours' : tours'[u] \in TourRow
  <2> HIDE DEF t, row
  <2>1. QED
    BY <1>1, <1>7 DEF EditsTypeOK, Saved
<1>9. QED
  BY <1>2, <1>6, <1>7, <1>8 DEF EditsTypeOK, Reqs

\* A deletion.
LEMMA TourIsDeletedTyped ==
  ASSUME EditsTypeOK, NEW w \in Workers, NEW t \in Tours, TourIsDeleted(w, t)
  PROVE  EditsTypeOK'
<1>1. tours' = Without(tours, {t}) /\ req' \in [Workers -> Reqs]
  BY WriteTyped DEF TourIsDeleted
<1>2. scenes' \in Scenery /\ past' = past
  BY SceneryStays DEF TourIsDeleted, EditsTypeOK
<1>3. DOMAIN tours' \subseteq Tours /\ \A u \in DOMAIN tours' : tours'[u] \in TourRow
  BY <1>1 DEF EditsTypeOK, Without
<1>4. QED
  BY <1>1, <1>2, <1>3 DEF EditsTypeOK, Reqs

\* The first step of each request.
LEMMA RequestTyped ==
  ASSUME EditsTypeOK, NEW w \in Workers, EditRequest(w)
  PROVE  EditsTypeOK'
<1> PICK t \in Tours :
      \/ UpdateTour(w, t) \/ UpdateTourPublishStatus(w, t) \/ TourIsDeleted(w, t)
      \/ SaveBuildingScan(w, t) \/ DeleteBuildingScan(w, t) \/ Analyze(w, t)
  BY DEF EditRequest
<1>1. ASSUME NEW body, Edit(w, t, body), DOMAIN body \subseteq Columns,
             "published" \in DOMAIN body => body["published"] \in BOOLEAN,
             "scan" \in DOMAIN body => body["scan"] \in Seq(Room)
      PROVE  EditsTypeOK'
  <2> DEFINE row == tours[t]
  <2>1. SaveNext(w, t, row, body, FALSE) /\ UNCHANGED <<tours, scenes, past>> /\ row \in TourRow
    BY <1>1 DEF Edit, Exists, EditsTypeOK
  <2> HIDE DEF row
  <2>2. FALSE \in BOOLEAN
    OBVIOUS
  <2>3. QED
    BY <1>1, <2>1, <2>2, SaveNextTyped
<1>2. CASE UpdateTour(w, t) \/ UpdateTourPublishStatus(w, t)
  <2>1. PICK b \in BOOLEAN : Edit(w, t, <<>>) \/ Edit(w, t, [published |-> b])
    BY <1>2 DEF UpdateTour, UpdateTourPublishStatus
  <2> DEFINE one == [published |-> b]
             none == <<>>
  <2>2. DOMAIN none = {}
    OBVIOUS
  <2>3. DOMAIN one = {"published"} /\ one["published"] = b
    OBVIOUS
  <2> HIDE DEF one, none
  <2>4. Edit(w, t, none) \/ Edit(w, t, one)
    BY <2>1 DEF one, none
  <2>5. QED
    BY <1>1, <2>2, <2>3, <2>4 DEF Columns
<1>3. CASE DeleteBuildingScan(w, t)
  <2> DEFINE one == [scan |-> <<>>]
  <2>1. Edit(w, t, one)
    BY <1>3 DEF DeleteBuildingScan
  <2>2. DOMAIN one = {"scan"} /\ one["scan"] = <<>> /\ <<>> \in Seq(Room)
    OBVIOUS
  <2> HIDE DEF one
  <2>3. QED
    BY <1>1, <2>1, <2>2 DEF Columns
<1>4. CASE TourIsDeleted(w, t)
  BY <1>4, TourIsDeletedTyped
<1>5. CASE SaveBuildingScan(w, t)
  <2>1. PICK rooms \in Posts :
          Goto(w, [pc |-> "link", t |-> t, row |-> tours[t], rooms |-> rooms, stale |-> FALSE])
    BY <1>5 DEF SaveBuildingScan
  <2> DEFINE row == tours[t]
             r == [pc |-> "link", t |-> t, row |-> row, rooms |-> rooms, stale |-> FALSE]
  <2>2. Goto(w, r) /\ row \in TourRow /\ UNCHANGED <<tours, scenes, past>>
    BY <1>5, <2>1 DEF SaveBuildingScan, Exists, EditsTypeOK
  <2> HIDE DEF row
  <2>3. r \in LinkReq
    BY <2>2 DEF LinkReq
  <2> HIDE DEF r
  <2>4. QED
    BY <2>2, <2>3, GotoTyped DEF Reqs
<1>6. CASE Analyze(w, t)
  <2> DEFINE r == [pc |-> "list", t |-> t]
  <2>1. Goto(w, r) /\ UNCHANGED <<tours, scenes, past>> /\ r \in AnalyzeReq
    BY <1>6 DEF Analyze, AnalyzeReq
  <2> HIDE DEF r
  <2>2. QED
    BY <2>1, GotoTyped DEF Reqs
<1>7. QED
  BY <1>2, <1>3, <1>4, <1>5, <1>6

\* Every later step of a handler, and its end.
LEMMA StatementTyped ==
  ASSUME EditsTypeOK, NEW w \in Workers, EditStatement(w) \/ Respond(w)
  PROVE  EditsTypeOK'
<1>1. CASE SaveTour(w)
  BY <1>1, SaveTourTyped
<1>2. CASE LinkRooms(w)
  <2>1. /\ req[w].t \in Tours /\ req[w].row \in TourRow /\ req[w].stale \in BOOLEAN
        /\ req[w].rooms \in Seq(Room)
    BY <1>2, WhichReq, PostsAreRooms DEF LinkRooms, LinkReq
  <2>2. PICK photos \in Listed(req[w].t) :
          SaveNext(w, req[w].t, req[w].row, [scan |-> Linked(req[w].rooms, photos)], req[w].stale)
    BY <1>2 DEF LinkRooms
  <2> DEFINE linked == Linked(req[w].rooms, photos)
             body == [scan |-> linked]
  <2>3. linked \in Seq(Room)
    BY <2>1, ListedAreScenes, LinkedIsLinking
  <2>4. /\ SaveNext(w, req[w].t, req[w].row, body, req[w].stale)
        /\ UNCHANGED <<tours, scenes, past>>
    BY <1>2, <2>2 DEF LinkRooms
  <2> HIDE DEF linked
  <2>5. DOMAIN body = {"scan"} /\ body["scan"] = linked
    OBVIOUS
  <2> HIDE DEF body
  <2>6. QED
    BY <2>1, <2>3, <2>4, <2>5, SaveNextTyped DEF Columns
<1>3. CASE ListPhotos(w)
  <2>1. PICK photos \in Listed(req[w].t) : Goto(w, [pc |-> "ask", photos |-> photos])
    BY <1>3 DEF ListPhotos
  <2> DEFINE r == [pc |-> "ask", photos |-> photos]
  <2>2. Goto(w, r) /\ UNCHANGED <<tours, scenes, past>> /\ r \in AnalyzeReq
    BY <1>3, <2>1, ListedAreScenes DEF ListPhotos, AnalyzeReq
  <2> HIDE DEF r
  <2>3. QED
    BY <2>2, GotoTyped DEF Reqs
<1>4. CASE ModelAnswers(w)
  <2>1. PICK rooms \in Posts :
          Goto(w, [pc |-> "answer", rooms |-> Linked(Usable(rooms), req[w].photos)])
    BY <1>4 DEF ModelAnswers
  <2> DEFINE linked == Linked(Usable(rooms), req[w].photos)
             r == [pc |-> "answer", rooms |-> linked]
  <2>2. Usable(rooms) \in Seq(Room) /\ NoScene \notin req[w].photos
    BY <1>4, WhichReq, UsableAreRooms, PostsAreRooms, NoSceneIsNone, ScenesArePhotos
       DEF ModelAnswers
  <2>3. linked \in Seq(Room)
    BY <2>2, LinkedIsLinking
  <2>4. Goto(w, r) /\ UNCHANGED <<tours, scenes, past>>
    BY <1>4, <2>1 DEF ModelAnswers
  <2> HIDE DEF linked
  <2>5. r \in AnswerReq
    BY <2>3 DEF AnswerReq
  <2> HIDE DEF r
  <2>6. QED
    BY <2>4, <2>5, GotoTyped DEF Reqs
<1>5. CASE Respond(w)
  <2>1. Idle \in Reqs
    BY DEF Reqs
  <2>2. QED
    BY <1>5, <2>1, GotoTyped DEF Respond
<1>6. QED
  BY <1>1, <1>2, <1>3, <1>4, <1>5 DEF EditStatement

\* What happens to scenes.
LEMMA ScenesTyped ==
  ASSUME EditsTypeOK, NEW s \in Scenes,
         SceneIsGone(s) \/ \E t \in Tours : SceneIsSaved(s, t)
  PROVE  EditsTypeOK'
<1>1. CASE SceneIsGone(s)
  BY <1>1, SceneryStays DEF SceneIsGone, EditsTypeOK
<1>2. ASSUME NEW t \in Tours, SceneIsSaved(s, t) PROVE EditsTypeOK'
  <2>1. scenes' \in Scenery
    BY <1>2, SceneryStays DEF SceneIsSaved, EditsTypeOK
  <2>2. past' \in Past
    BY <1>2 DEF SceneIsSaved, EditsTypeOK, Past
  <2>3. QED
    BY <1>2, <2>1, <2>2 DEF SceneIsSaved, EditsTypeOK
<1>3. QED
  BY <1>1, <1>2

\* Nothing was edited yet.
LEMMA InitEditsTyped == EditsInit => EditsTypeOK
<1> SUFFICES ASSUME EditsInit PROVE EditsTypeOK
  OBVIOUS
<1>1. NewTour \in TourRow
  <2>1. <<>> \in Seq(Room)
    OBVIOUS
  <2>2. QED
    BY <2>1 DEF NewTour, TourRow
<1>2. scenes \in Scenery
  <2>1. scenes \in [{} -> Tours \cup {Elsewhere}]
    BY DEF EditsInit
  <2>2. QED
    BY <2>1 DEF Scenery
<1>3. past \in Past
  BY <1>1 DEF EditsInit, Past
<1>4. QED
  BY <1>1, <1>2, <1>3 DEF EditsInit, EditsTypeOK

\* Types are inductive.
LEMMA NextEditsTyped == EditsTypeOK /\ [EditsNext]_editVars => EditsTypeOK'
<1> SUFFICES ASSUME EditsTypeOK, [EditsNext]_editVars PROVE EditsTypeOK'
  OBVIOUS
<1>1. ASSUME NEW w \in Workers, EditRequest(w) PROVE EditsTypeOK'
  BY <1>1, RequestTyped
<1>2. ASSUME NEW w \in Workers, EditStatement(w) \/ Respond(w) PROVE EditsTypeOK'
  BY <1>2, StatementTyped
<1>3. ASSUME NEW s \in Scenes, SceneIsGone(s) \/ \E t \in Tours : SceneIsSaved(s, t)
      PROVE  EditsTypeOK'
  BY <1>3, ScenesTyped
<1>4. CASE UNCHANGED editVars
  BY <1>4 DEF editVars, EditsTypeOK
<1>5. QED
  BY <1>1, <1>2, <1>3, <1>4 DEF EditsNext, Refuse

\* In every behaviour the rows, the handlers' locals and the history keep their types
\* (tours/handlers.go:221-382, 506-514; scan.go:46-111; floorplan/handlers.go:90-240).
THEOREM EditsTyped == EditsSpec => []EditsTypeOK
BY InitEditsTyped, NextEditsTyped, PTL DEF EditsSpec

-----------------------------------------------------------------------------
(* Links *)

\* Each room that shows a photo shows one of its own, of these.
LinksOK(rooms, photos) ==
  \A i \in DOMAIN rooms : rooms[i].scene # NoScene =>
    /\ rooms[i].scene \in photos
    /\ \A j \in DOMAIN rooms \ {i} : rooms[j].scene # rooms[i].scene

\* The photos a tour has are remembered.
PhotosKnown ==
  \A s \in DOMAIN scenes : \A t \in Tours : scenes[s] = t => s \in past.been[t]

\* A copy of a row, as the row, links rooms to photos the tour has or had.
CopyLinksOK(r, been) ==
  r.pc \in {"save", "link"} => LinksOK(r.row.scan, been[r.t])

LinksInv ==
  /\ EditsTypeOK /\ PhotosKnown
  /\ \A t \in DOMAIN tours : LinksOK(tours[t].scan, past.been[t])
  /\ \A w \in Workers : CopyLinksOK(req[w], past.been)

\* More photos do no harm.
LEMMA MorePhotos ==
  ASSUME NEW rooms, NEW photos, NEW more, photos \subseteq more, LinksOK(rooms, photos)
  PROVE  LinksOK(rooms, more)
BY DEF LinksOK

\* Worker w goes on, holding a copy whose links are right if it holds one.
LEMMA GotoLinks ==
  ASSUME LinksInv, NEW w \in Workers, NEW r, Goto(w, r), UNCHANGED <<tours, scenes, past>>,
         EditsTypeOK', CopyLinksOK(r, past.been)
  PROVE  LinksInv'
<1>1. req \in [Workers -> Reqs]
  BY DEF LinksInv, EditsTypeOK, Reqs
<1>2. \A v \in Workers : req'[v] = IF v = w THEN r ELSE req[v]
  BY <1>1 DEF Goto
<1>3. \A v \in Workers : CopyLinksOK(req'[v], past'.been)
  BY <1>2 DEF LinksInv
<1> HIDE DEF CopyLinksOK
<1>4. PhotosKnown' /\ \A t \in DOMAIN tours' : LinksOK(tours'[t].scan, past'.been[t])
  BY DEF LinksInv, PhotosKnown
<1>5. QED
  BY <1>3, <1>4 DEF LinksInv, CopyLinksOK, LinksOK

\* A statement on the row of t leaves every copy its links.
LEMMA WriteLinks ==
  ASSUME LinksInv, NEW w \in Workers, NEW t, NEW new, Write(w, t, new, Idle)
  PROVE  \A v \in Workers : CopyLinksOK(req'[v], past.been)
<1>1. ASSUME NEW v \in Workers, HoldsCopy(v, t)
      PROVE  CopyLinksOK([req[v] EXCEPT !.stale = TRUE], past.been)
  <2> DEFINE late == [req[v] EXCEPT !.stale = TRUE]
  <2>1. req[v] \in SaveReq \/ req[v] \in LinkReq
    BY <1>1, WhichReq DEF HoldsCopy, LinksInv
  <2>2. late.pc = req[v].pc /\ late.t = req[v].t /\ late.row = req[v].row
    BY <2>1 DEF SaveReq, LinkReq
  <2>3. CopyLinksOK(req[v], past.been)
    BY DEF LinksInv
  <2> HIDE DEF late
  <2>4. CopyLinksOK(late, past.been)
    BY <2>2, <2>3 DEF CopyLinksOK
  <2>5. QED
    BY <2>4 DEF late
<1>2. CopyLinksOK(Idle, past.been)
  BY DEF CopyLinksOK, Idle
<1>3. \A v \in Workers : CopyLinksOK(req[v], past.been)
  BY DEF LinksInv
<1>4. QED
  BY <1>1, <1>2, <1>3 DEF Write

\* A save stores what the copy has.
LEMMA SaveTourLinks ==
  ASSUME LinksInv, NEW w \in Workers, SaveTour(w)
  PROVE  LinksInv'
<1> DEFINE t == req[w].t
           row == req[w].row
<1>1. /\ Write(w, t, Saved(tours, t, row), Idle) /\ scenes' = scenes
      /\ t \in Tours /\ LinksOK(row.scan, past.been[t])
  BY WhichReq DEF SaveTour, SaveReq, LinksInv, CopyLinksOK
<1>2. past'.been = past.been
  <2>1. past \in Past
    BY DEF LinksInv, EditsTypeOK
  <2>2. \E l, u : past' = [past EXCEPT !.last[t] = l, !.undone[t] = u]
    BY DEF SaveTour
  <2>3. QED
    BY <2>1, <2>2 DEF Past
<1>3. EditsTypeOK'
  BY SaveTourTyped DEF LinksInv
<1>4. \A v \in Workers : CopyLinksOK(req'[v], past'.been)
  BY <1>1, <1>2, WriteLinks
<1>5. tours' = Saved(tours, t, row)
  BY <1>1 DEF Write
<1>6. \A u \in DOMAIN tours' : LinksOK(tours'[u].scan, past'.been[u])
  BY <1>1, <1>2, <1>5 DEF Saved, LinksInv
<1>7. PhotosKnown'
  BY <1>1, <1>2 DEF LinksInv, PhotosKnown
<1>8. QED
  BY <1>3, <1>4, <1>6, <1>7 DEF LinksInv

\* An edit of other columns keeps the scan of the copy; linking makes one whose links are right.
LEMMA SaveNextLinks ==
  ASSUME LinksInv, NEW w \in Workers, NEW t \in Tours, NEW row, NEW body, NEW stale,
         SaveNext(w, t, row, body, stale), UNCHANGED <<tours, scenes, past>>, EditsTypeOK',
         LinksOK(IF "scan" \in DOMAIN body THEN body["scan"] ELSE row["scan"], past.been[t])
  PROVE  LinksInv'
<1> DEFINE edited == Edited(row, body)
           named == DOMAIN body
           r == [pc |-> "save", t |-> t, row |-> edited, named |-> named, stale |-> stale]
<1>1. Goto(w, r)
  BY DEF SaveNext
<1>2. edited["scan"] = IF "scan" \in DOMAIN body THEN body["scan"] ELSE row["scan"]
  BY DEF Edited, Columns
<1> HIDE DEF edited, named
<1>3. r.t = t /\ r.row = edited
  OBVIOUS
<1> HIDE DEF r
<1>4. CopyLinksOK(r, past.been)
  BY <1>2, <1>3 DEF CopyLinksOK
<1>5. QED
  BY <1>1, <1>4, GotoLinks

\* A deletion takes a row, and scenes, away.
LEMMA TourIsDeletedLinks ==
  ASSUME LinksInv, NEW w \in Workers, NEW t \in Tours, TourIsDeleted(w, t)
  PROVE  LinksInv'
<1>1. /\ Write(w, t, Without(tours, {t}), Idle) /\ past' = past
      /\ scenes' = Without(scenes, ScenesOf(scenes, t))
  BY DEF TourIsDeleted
<1>2. tours' = Without(tours, {t})
  BY <1>1 DEF Write
<1>3. \A u \in DOMAIN tours' : LinksOK(tours'[u].scan, past'.been[u])
  BY <1>1, <1>2 DEF Without, LinksInv
<1>4. PhotosKnown'
  BY <1>1 DEF Without, LinksInv, PhotosKnown
<1>5. EditsTypeOK' /\ \A v \in Workers : CopyLinksOK(req'[v], past'.been)
  BY <1>1, WriteLinks, TourIsDeletedTyped DEF LinksInv
<1>6. QED
  BY <1>3, <1>4, <1>5 DEF LinksInv

\* The first step of each request copies a row, or nothing.
LEMMA RequestLinks ==
  ASSUME LinksInv, NEW w \in Workers, EditRequest(w)
  PROVE  LinksInv'
<1> PICK t \in Tours :
      \/ UpdateTour(w, t) \/ UpdateTourPublishStatus(w, t) \/ TourIsDeleted(w, t)
      \/ SaveBuildingScan(w, t) \/ DeleteBuildingScan(w, t) \/ Analyze(w, t)
  BY DEF EditRequest
<1>1. EditsTypeOK'
  BY RequestTyped DEF LinksInv
<1>2. ASSUME NEW body, Edit(w, t, body), "scan" \in DOMAIN body => body["scan"] = <<>>
      PROVE  LinksInv'
  <2> DEFINE row == tours[t]
             scan == IF "scan" \in DOMAIN body THEN body["scan"] ELSE row["scan"]
  <2>1. /\ SaveNext(w, t, row, body, FALSE) /\ UNCHANGED <<tours, scenes, past>>
        /\ LinksOK(row.scan, past.been[t])
    BY <1>2 DEF Edit, Exists, LinksInv
  <2>2. LinksOK(<<>>, past.been[t])
    BY DEF LinksOK
  <2>3. LinksOK(scan, past.been[t])
    BY <1>2, <2>1, <2>2
  <2> HIDE DEF row
  <2>4. QED
    BY <1>1, <2>1, <2>3, SaveNextLinks
<1>3. CASE UpdateTour(w, t) \/ UpdateTourPublishStatus(w, t)
  <2>1. PICK b \in BOOLEAN : Edit(w, t, <<>>) \/ Edit(w, t, [published |-> b])
    BY <1>3 DEF UpdateTour, UpdateTourPublishStatus
  <2> DEFINE one == [published |-> b]
             none == <<>>
  <2>2. "scan" \notin DOMAIN none /\ "scan" \notin DOMAIN one
    OBVIOUS
  <2> HIDE DEF one, none
  <2>3. Edit(w, t, none) \/ Edit(w, t, one)
    BY <2>1 DEF one, none
  <2>4. QED
    BY <1>2, <2>2, <2>3
<1>4. CASE DeleteBuildingScan(w, t)
  <2> DEFINE one == [scan |-> <<>>]
  <2>1. Edit(w, t, one) /\ one["scan"] = <<>>
    BY <1>4 DEF DeleteBuildingScan
  <2> HIDE DEF one
  <2>2. QED
    BY <1>2, <2>1
<1>5. CASE TourIsDeleted(w, t)
  BY <1>5, TourIsDeletedLinks
<1>6. CASE SaveBuildingScan(w, t)
  <2>1. PICK rooms :
          Goto(w, [pc |-> "link", t |-> t, row |-> tours[t], rooms |-> rooms, stale |-> FALSE])
    BY <1>6 DEF SaveBuildingScan
  <2> DEFINE row == tours[t]
             r == [pc |-> "link", t |-> t, row |-> row, rooms |-> rooms, stale |-> FALSE]
  <2>2. /\ Goto(w, r) /\ UNCHANGED <<tours, scenes, past>> /\ LinksOK(row.scan, past.been[t])
    BY <1>6, <2>1 DEF SaveBuildingScan, Exists, LinksInv
  <2> HIDE DEF row
  <2>3. r.t = t /\ r.row = row
    OBVIOUS
  <2> HIDE DEF r
  <2>4. CopyLinksOK(r, past.been)
    BY <2>2, <2>3 DEF CopyLinksOK
  <2>5. QED
    BY <1>1, <2>2, <2>4, GotoLinks
<1>7. CASE Analyze(w, t)
  <2> DEFINE r == [pc |-> "list", t |-> t]
  <2>1. Goto(w, r) /\ UNCHANGED <<tours, scenes, past>> /\ r.pc = "list"
    BY <1>7 DEF Analyze
  <2> HIDE DEF r
  <2>2. QED
    BY <1>1, <2>1, GotoLinks DEF CopyLinksOK
<1>8. QED
  BY <1>3, <1>4, <1>5, <1>6, <1>7

\* What linking stores is right for the tour: the photos listed are scenes it has.
LEMMA LinkRoomsLinks ==
  ASSUME LinksInv, NEW w \in Workers, LinkRooms(w)
  PROVE  LinksInv'
<1> DEFINE t == req[w].t
           row == req[w].row
           stale == req[w].stale
<1>1. t \in Tours /\ req[w].rooms \in Seq(Room)
  BY WhichReq, PostsAreRooms DEF LinkRooms, LinkReq, LinksInv
<1>2. PICK photos \in Listed(t) :
        SaveNext(w, t, row, [scan |-> Linked(req[w].rooms, photos)], stale)
  BY DEF LinkRooms
<1> DEFINE linked == Linked(req[w].rooms, photos)
           body == [scan |-> linked]
<1>3. NoScene \notin photos /\ \A s \in photos : s \in DOMAIN scenes /\ scenes[s] = t
  BY ListedAreScenes DEF LinksInv
<1>4. photos \subseteq past.been[t]
  BY <1>1, <1>3 DEF LinksInv, PhotosKnown
<1>5. IsLinking(req[w].rooms, photos, linked)
  BY <1>1, <1>3, LinkedIsLinking
<1>6. SaveNext(w, t, row, body, stale) /\ UNCHANGED <<tours, scenes, past>>
  BY <1>2 DEF LinkRooms
<1> HIDE DEF linked
<1>7. LinksOK(linked, photos)
  BY <1>1, <1>5, LinkingSeparates DEF LinksOK
<1>8. LinksOK(linked, past.been[t])
  BY <1>4, <1>7, MorePhotos
<1>9. "scan" \in DOMAIN body /\ body["scan"] = linked
  OBVIOUS
<1>10. EditsTypeOK'
  BY StatementTyped DEF LinksInv, EditStatement
<1> HIDE DEF body, t, row, stale
<1>11. QED
  BY <1>1, <1>6, <1>8, <1>9, <1>10, SaveNextLinks

\* Every later step of a handler, and its end.
LEMMA StatementLinks ==
  ASSUME LinksInv, NEW w \in Workers, EditStatement(w) \/ Respond(w)
  PROVE  LinksInv'
<1>1. EditsTypeOK'
  BY StatementTyped DEF LinksInv
<1>2. CASE SaveTour(w)
  BY <1>2, SaveTourLinks
<1>3. CASE LinkRooms(w)
  BY <1>3, LinkRoomsLinks
<1>4. CASE ListPhotos(w) \/ ModelAnswers(w) \/ Respond(w)
  <2>1. ASSUME NEW r, Goto(w, r), r.pc \notin {"save", "link"} PROVE LinksInv'
    <3>1. UNCHANGED <<tours, scenes, past>>
      BY <1>4 DEF ListPhotos, ModelAnswers, Respond
    <3>2. QED
      BY <1>1, <2>1, <3>1, GotoLinks DEF CopyLinksOK
  <2>2. CASE ListPhotos(w)
    <3>1. PICK photos : Goto(w, [pc |-> "ask", photos |-> photos])
      BY <2>2 DEF ListPhotos
    <3> DEFINE r == [pc |-> "ask", photos |-> photos]
    <3>2. Goto(w, r) /\ r.pc = "ask"
      BY <3>1
    <3> HIDE DEF r
    <3>3. QED
      BY <2>1, <3>2
  <2>3. CASE ModelAnswers(w)
    <3>1. PICK rooms : Goto(w, [pc |-> "answer", rooms |-> rooms])
      BY <2>3 DEF ModelAnswers
    <3> DEFINE r == [pc |-> "answer", rooms |-> rooms]
    <3>2. Goto(w, r) /\ r.pc = "answer"
      BY <3>1
    <3> HIDE DEF r
    <3>3. QED
      BY <2>1, <3>2
  <2>4. CASE Respond(w)
    <3>1. Goto(w, Idle) /\ Idle.pc = "idle"
      BY <2>4 DEF Respond, Idle
    <3>2. QED
      BY <2>1, <3>1
  <2>5. QED
    BY <1>4, <2>2, <2>3, <2>4
<1>5. QED
  BY <1>2, <1>3, <1>4 DEF EditStatement

\* A scene that a tour gets is remembered.
LEMMA ScenesLinks ==
  ASSUME LinksInv, NEW s \in Scenes,
         SceneIsGone(s) \/ \E t \in Tours : SceneIsSaved(s, t)
  PROVE  LinksInv'
<1>1. EditsTypeOK' /\ past \in Past /\ UNCHANGED <<tours, req>>
  BY ScenesTyped DEF LinksInv, EditsTypeOK, SceneIsGone, SceneIsSaved
<1>2. ASSUME \A t \in Tours : past.been[t] \subseteq past'.been[t]
      PROVE  /\ \A t \in DOMAIN tours' : LinksOK(tours'[t].scan, past'.been[t])
             /\ \A w \in Workers : CopyLinksOK(req'[w], past'.been)
  <2>1. ASSUME NEW t \in DOMAIN tours PROVE LinksOK(tours[t].scan, past'.been[t])
    BY <1>2, MorePhotos DEF LinksInv, EditsTypeOK
  <2>2. ASSUME NEW w \in Workers, req[w].pc \in {"save", "link"}
        PROVE  LinksOK(req[w].row.scan, past'.been[req[w].t])
    <3>1. req[w].t \in Tours
      BY <2>2, WhichReq DEF LinksInv, SaveReq, LinkReq
    <3>2. QED
      BY <1>2, <2>2, <3>1, MorePhotos DEF LinksInv, CopyLinksOK
  <2>3. QED
    BY <1>1, <2>1, <2>2 DEF CopyLinksOK
<1>3. CASE SceneIsGone(s)
  <2>1. past' = past /\ scenes' = Without(scenes, {s})
    BY <1>3 DEF SceneIsGone
  <2>2. PhotosKnown'
    BY <2>1 DEF Without, LinksInv, PhotosKnown
  <2>3. QED
    BY <1>1, <1>2, <2>1, <2>2 DEF LinksInv
<1>4. ASSUME NEW t \in Tours, SceneIsSaved(s, t) PROVE LinksInv'
  <2>1. /\ scenes' = Saved(scenes, s, t)
        /\ past'.been = [past.been EXCEPT ![t] = @ \cup {s}]
        /\ past.been \in [Tours -> SUBSET Scenes]
    BY <1>1, <1>4 DEF SceneIsSaved, Past
  <2>2. \A u \in Tours : past.been[u] \subseteq past'.been[u]
    BY <2>1
  <2>3. s \in past'.been[t]
    BY <2>1
  <2>4. PhotosKnown'
    BY <2>1, <2>2, <2>3 DEF Saved, LinksInv, PhotosKnown
  <2>5. QED
    BY <1>1, <1>2, <2>2, <2>4 DEF LinksInv
<1>5. QED
  BY <1>3, <1>4

\* No scan is stored at first, and there is no scene.
LEMMA InitLinks == EditsInit => LinksInv
<1> SUFFICES ASSUME EditsInit PROVE LinksInv
  OBVIOUS
<1>1. \A t \in DOMAIN tours : tours[t].scan = <<>>
  BY DEF EditsInit, NewTour
<1>2. \A photos : LinksOK(<<>>, photos)
  BY DEF LinksOK
<1>3. PhotosKnown /\ \A w \in Workers : CopyLinksOK(req[w], past.been)
  BY DEF EditsInit, PhotosKnown, CopyLinksOK, Idle
<1>4. QED
  BY <1>1, <1>2, <1>3, InitEditsTyped DEF LinksInv

\* Links stay right.
LEMMA NextLinks == LinksInv /\ [EditsNext]_editVars => LinksInv'
<1> SUFFICES ASSUME LinksInv, [EditsNext]_editVars PROVE LinksInv'
  OBVIOUS
<1>1. ASSUME NEW w \in Workers, EditRequest(w) PROVE LinksInv'
  BY <1>1, RequestLinks
<1>2. ASSUME NEW w \in Workers, EditStatement(w) \/ Respond(w) PROVE LinksInv'
  BY <1>2, StatementLinks
<1>3. ASSUME NEW s \in Scenes, SceneIsGone(s) \/ \E t \in Tours : SceneIsSaved(s, t)
      PROVE  LinksInv'
  BY <1>3, ScenesLinks
<1>4. CASE UNCHANGED editVars
  BY <1>4 DEF editVars, LinksInv, EditsTypeOK, PhotosKnown, LinksOK, CopyLinksOK
<1>5. QED
  BY <1>1, <1>2, <1>3, <1>4 DEF EditsNext, Refuse

\* Every room of a stored scan shows a photo of its own, of the tour's or one that was, for
\* every list of rooms anyone posts (scan.go:64-82, 94).
THEOREM LinksStayPhotos == EditsSpec => []LinksArePhotos
<1>1. LinksInv => LinksArePhotos
  BY DEF LinksInv, LinksOK, LinksArePhotos
<1>2. QED
  BY <1>1, InitLinks, NextLinks, PTL DEF EditsSpec

\* A handler moves by its own steps only.
LEMMA OwnStep ==
  ASSUME EditsTypeOK, [EditsNext]_editVars, NEW w \in Workers, req'[w].pc # req[w].pc
  PROVE  EditRequest(w) \/ EditStatement(w) \/ Respond(w)
<1>1. req \in [Workers -> Reqs]
  BY DEF EditsTypeOK, Reqs
<1>2. ASSUME NEW v \in Workers, v # w, NEW r, Goto(v, r) PROVE FALSE
  BY <1>1, <1>2 DEF Goto
<1>3. ASSUME NEW v \in Workers, v # w, NEW t, NEW new, Write(v, t, new, Idle) PROVE FALSE
  <2>1. HoldsCopy(w, t) => [req[w] EXCEPT !.stale = TRUE].pc = req[w].pc
    <3>1. HoldsCopy(w, t) => req[w] \in SaveReq \/ req[w] \in LinkReq
      BY WhichReq DEF HoldsCopy
    <3>2. QED
      BY <3>1 DEF SaveReq, LinkReq
  <2>2. QED
    BY <1>3, <2>1 DEF Write
<1>4. ASSUME NEW v \in Workers, v # w, EditRequest(v) \/ EditStatement(v) \/ Respond(v)
      PROVE  FALSE
  <2>1. (\E r : Goto(v, r)) \/ \E t, new : Write(v, t, new, Idle)
    BY <1>4 DEF EditRequest, EditStatement, Respond, UpdateTour, UpdateTourPublishStatus,
         TourIsDeleted, SaveBuildingScan, DeleteBuildingScan, Analyze, Edit, SaveNext, SaveTour,
         LinkRooms, ListPhotos, ModelAnswers
  <2>2. QED
    BY <1>2, <1>3, <1>4, <2>1
<1>5. req' # req
  OBVIOUS
<1>6. QED
  BY <1>4, <1>5 DEF EditsNext, editVars, Refuse, SceneIsGone, SceneIsSaved

\* Both loops compute the linking that is meant: of the rooms that name a photo listed for them
\* the first keeps it, for every list of rooms (scan.go:69-82, floorplan/handlers.go:202-222).
THEOREM RoomsAreLinked == EditsSpec => RoomsLinked
<1> DEFINE Right(w) ==
      /\ req[w].pc = "link" /\ req'[w].pc = "save" =>
           \E photos \in Listed(req[w].t) : IsLinking(req[w].rooms, photos, req'[w].row.scan)
      /\ req[w].pc = "ask" /\ req'[w].pc = "answer" =>
           \E rooms \in Posts : IsLinking(Usable(rooms), req[w].photos, req'[w].rooms)
<1>1. ASSUME EditsTypeOK, [EditsNext]_editVars, NEW w \in Workers, req' # req
      PROVE  Right(w)
  <2>0. req \in [Workers -> Reqs]
    BY <1>1 DEF EditsTypeOK, Reqs
  <2>1. ASSUME req[w].pc = "link", req'[w].pc = "save"
        PROVE  \E photos \in Listed(req[w].t) :
                 IsLinking(req[w].rooms, photos, req'[w].row.scan)
    <3>1. LinkRooms(w)
      <4>1. ~Respond(w)
        BY <2>0, <2>1 DEF Respond, Goto, Idle
      <4>2. QED
        BY <1>1, <2>1, <4>1, OwnStep DEF EditRequest, EditStatement, UpdateTour,
           UpdateTourPublishStatus, TourIsDeleted, SaveBuildingScan, DeleteBuildingScan, Analyze,
           Edit, SaveTour, ListPhotos, ModelAnswers
    <3>2. PICK photos \in Listed(req[w].t) :
            SaveNext(w, req[w].t, req[w].row, [scan |-> Linked(req[w].rooms, photos)],
                     req[w].stale)
      BY <3>1 DEF LinkRooms
    <3> DEFINE linked == Linked(req[w].rooms, photos)
               body == [scan |-> linked]
    <3>3. req'[w].row = Edited(req[w].row, body)
      BY <2>0, <3>2 DEF SaveNext, Goto
    <3>4. IsLinking(req[w].rooms, photos, linked)
      BY <1>1, <2>1, WhichReq, PostsAreRooms, ListedAreScenes, LinkedIsLinking DEF LinkReq
    <3> HIDE DEF linked
    <3>5. Edited(req[w].row, body)["scan"] = linked
      BY DEF Edited, Columns
    <3>6. QED
      BY <3>3, <3>4, <3>5
  <2>2. ASSUME req[w].pc = "ask", req'[w].pc = "answer"
        PROVE  \E rooms \in Posts : IsLinking(Usable(rooms), req[w].photos, req'[w].rooms)
    <3>1. ModelAnswers(w)
      <4>1. ~Respond(w)
        BY <2>0, <2>2 DEF Respond, Goto, Idle
      <4>2. QED
        BY <1>1, <2>2, <4>1, OwnStep DEF EditRequest, EditStatement, UpdateTour,
           UpdateTourPublishStatus, TourIsDeleted, SaveBuildingScan, DeleteBuildingScan, Analyze,
           Edit, SaveTour, ListPhotos, LinkRooms
    <3>2. PICK rooms \in Posts :
            Goto(w, [pc |-> "answer", rooms |-> Linked(Usable(rooms), req[w].photos)])
      BY <3>1 DEF ModelAnswers
    <3>3. req'[w].rooms = Linked(Usable(rooms), req[w].photos)
      BY <2>0, <3>2 DEF Goto
    <3>4. Usable(rooms) \in Seq(Room) /\ NoScene \notin req[w].photos
      BY <1>1, <2>2, WhichReq, UsableAreRooms, PostsAreRooms, NoSceneIsNone, ScenesArePhotos
    <3>5. QED
      BY <3>3, <3>4, LinkedIsLinking
  <2>3. QED
    BY <2>1, <2>2
<1>2. EditsTypeOK /\ [EditsNext]_editVars => [\A w \in Workers : Right(w)]_req
  BY <1>1
<1>3. QED
  BY <1>2, InitEditsTyped, NextEditsTyped, PTL DEF EditsSpec, RoomsLinked

-----------------------------------------------------------------------------
(* Edits *)

\* What a handler that is to save, or to link, knows.
SaveLocals(r) ==
  /\ r = [pc |-> "save", t |-> r.t, row |-> r.row, named |-> r.named, stale |-> r.stale]
  /\ r.t \in Tours /\ r.stale \in BOOLEAN

LinkLocals(r) ==
  /\ r = [pc |-> "link", t |-> r.t, row |-> r.row, rooms |-> r.rooms, stale |-> r.stale]
  /\ r.t \in Tours /\ r.stale \in BOOLEAN

LocalsOK ==
  /\ DOMAIN req = Workers
  /\ \A w \in Workers : (req[w].pc = "save" => SaveLocals(req[w]))
                     /\ (req[w].pc = "link" => LinkLocals(req[w]))

TablesOK ==
  /\ DOMAIN tours \subseteq Tours
  /\ {"last", "undone", "been"} \subseteq DOMAIN past
  /\ DOMAIN past.last = Tours /\ DOMAIN past.undone = Tours

\* A copy that is not out of date is the row, but for the columns that the request names.
UpToDate(table, r) ==
  ~r.stale =>
    /\ r.t \in DOMAIN table
    /\ r.pc = "save" => \A c \in Columns \ r.named : r.row[c] = table[r.t][c]
    /\ r.pc = "link" => r.row = table[r.t]

CopiesOK == \A w \in Workers : req[w].pc \in {"save", "link"} => UpToDate(tours, req[w])

EditsInv == LocalsOK /\ TablesOK /\ CopiesOK /\ EditsKept

\* Nothing was edited yet, and no handler holds a copy.
LEMMA InitEdits == EditsInit => EditsInv
  <1> SUFFICES ASSUME EditsInit PROVE EditsInv
    OBVIOUS
  <1>1. \A w \in Workers : req[w].pc = "idle"
    BY DEF EditsInit, Idle
  <1>2. LocalsOK /\ CopiesOK
    BY <1>1 DEF EditsInit, LocalsOK, CopiesOK
  <1>3. TablesOK
    BY DEF EditsInit, TablesOK
  <1>4. EditsKept
    BY DEF EditsInit, EditsKept
  <1>5. QED BY <1>2, <1>3, <1>4 DEF EditsInv

\* Worker w goes on with locals that fit its place; the tables are left alone.
LEMMA GotoKeeps ==
  ASSUME EditsInv, NEW w \in Workers, NEW r, Goto(w, r), UNCHANGED <<tours, past>>,
         r.pc = "save" => SaveLocals(r) /\ UpToDate(tours, r),
         r.pc = "link" => LinkLocals(r) /\ UpToDate(tours, r)
  PROVE  EditsInv'
  <1>1. DOMAIN req' = Workers /\ \A v \in Workers : req'[v] = IF v = w THEN r ELSE req[v]
    BY DEF EditsInv, LocalsOK, Goto
  <1>2. LocalsOK'
    BY <1>1 DEF EditsInv, LocalsOK, SaveLocals, LinkLocals
  <1>3. CopiesOK'
    BY <1>1 DEF EditsInv, CopiesOK, UpToDate
  <1>4. TablesOK' /\ EditsKept'
    BY DEF EditsInv, TablesOK, EditsKept
  <1>5. QED BY <1>2, <1>3, <1>4 DEF EditsInv

\* Every edit, and the linking of rooms, goes on to save the copy with the columns it names.
LEMMA SaveNextKeeps ==
  ASSUME EditsInv, NEW w \in Workers, NEW t \in Tours, NEW row, NEW body, NEW stale \in BOOLEAN,
         SaveNext(w, t, row, body, stale), UNCHANGED <<tours, past>>,
         ~stale => t \in DOMAIN tours /\ row = tours[t]
  PROVE  EditsInv'
  <1> DEFINE edited == Edited(row, body)
             named == DOMAIN body
             r == [pc |-> "save", t |-> t, row |-> edited, named |-> named, stale |-> stale]
  <1>1. \A c \in Columns \ named : edited[c] = row[c]
    BY DEF Edited
  <1>2. Goto(w, r)
    BY DEF SaveNext
  <1> HIDE DEF edited, named
  <1>3. /\ r.pc = "save" /\ r.t = t /\ r.row = edited /\ r.named = named /\ r.stale = stale
        /\ SaveLocals(r)
    BY DEF SaveLocals
  <1> HIDE DEF r
  <1>4. UpToDate(tours, r)
    BY <1>1, <1>3 DEF UpToDate
  <1>5. QED BY <1>2, <1>3, <1>4, GotoKeeps

\* Locals that are out of date are locals still.
LEMMA LateSave ==
  ASSUME NEW r, SaveLocals(r)
  PROVE  LET late == [r EXCEPT !.stale = TRUE]
         IN SaveLocals(late) /\ late.pc = "save" /\ late.stale = TRUE
  <1> DEFINE late == [r EXCEPT !.stale = TRUE]
             t == r.t
             row == r.row
             named == r.named
             stale == r.stale
  <1>1. r = [pc |-> "save", t |-> t, row |-> row, named |-> named, stale |-> stale] /\ t \in Tours
    BY DEF SaveLocals
  <1>2. late = [r EXCEPT !.stale = TRUE]
    OBVIOUS
  <1> HIDE DEF t, row, named, stale, late
  <1>3. late = [pc |-> "save", t |-> t, row |-> row, named |-> named, stale |-> TRUE]
    BY <1>1, <1>2
  <1>4. SaveLocals(late) /\ late.pc = "save" /\ late.stale = TRUE
    BY <1>1, <1>3 DEF SaveLocals
  <1>5. QED BY <1>4 DEF late

\* The same for a handler that is to link rooms.
LEMMA LateLink ==
  ASSUME NEW r, LinkLocals(r)
  PROVE  LET late == [r EXCEPT !.stale = TRUE]
         IN LinkLocals(late) /\ late.pc = "link" /\ late.stale = TRUE
  <1> DEFINE late == [r EXCEPT !.stale = TRUE]
             t == r.t
             row == r.row
             rooms == r.rooms
             stale == r.stale
  <1>1. r = [pc |-> "link", t |-> t, row |-> row, rooms |-> rooms, stale |-> stale] /\ t \in Tours
    BY DEF LinkLocals
  <1>2. late = [r EXCEPT !.stale = TRUE]
    OBVIOUS
  <1> HIDE DEF t, row, rooms, stale, late
  <1>3. late = [pc |-> "link", t |-> t, row |-> row, rooms |-> rooms, stale |-> TRUE]
    BY <1>1, <1>2
  <1>4. LinkLocals(late) /\ late.pc = "link" /\ late.stale = TRUE
    BY <1>1, <1>3 DEF LinkLocals
  <1>5. QED BY <1>4 DEF late

\* A statement on the row of t: whoever holds a copy of it, and finds the table changed, is out of
\* date from then on.
LEMMA WriteKeepsCopies ==
  ASSUME EditsInv, NEW w \in Workers, NEW t \in Tours, NEW new, NEW next, Write(w, t, new, next),
         next.pc = "idle",
         \A u \in DOMAIN tours \ {t} : u \in DOMAIN new /\ new[u] = tours[u]
  PROVE  LocalsOK' /\ CopiesOK'
  <1> DEFINE late(v) == [req[v] EXCEPT !.stale = TRUE]
  <1>1. /\ tours' = new /\ DOMAIN req' = Workers /\ req'[w] = next
        /\ \A v \in Workers \ {w} :
             req'[v] = IF HoldsCopy(v, t) /\ new # tours THEN late(v) ELSE req[v]
    BY DEF Write
  <1>2. ASSUME NEW v \in Workers, v # w, HoldsCopy(v, t), new # tours
        PROVE  /\ req'[v].pc = "save" => SaveLocals(req'[v])
               /\ req'[v].pc = "link" => LinkLocals(req'[v])
               /\ UpToDate(tours', req'[v])
    <2>1. SaveLocals(req[v]) \/ LinkLocals(req[v])
      BY <1>2 DEF HoldsCopy, EditsInv, LocalsOK
    <2>2. req'[v] = late(v)
      BY <1>1, <1>2
    <2>3. CASE SaveLocals(req[v])
      BY <2>2, <2>3, LateSave DEF UpToDate
    <2>4. CASE LinkLocals(req[v])
      BY <2>2, <2>4, LateLink DEF UpToDate
    <2>5. QED BY <2>1, <2>3, <2>4
  <1>3. ASSUME NEW v \in Workers, v # w, ~(HoldsCopy(v, t) /\ new # tours)
        PROVE  /\ req'[v] = req[v]
               /\ req[v].pc \in {"save", "link"} => UpToDate(tours', req'[v])
    <2>1. req'[v] = req[v]
      BY <1>1, <1>3
    <2>2. CASE new = tours
      BY <1>1, <2>1, <2>2 DEF EditsInv, CopiesOK, UpToDate
    <2>3. CASE ~HoldsCopy(v, t)
      BY <1>1, <2>1, <2>3 DEF EditsInv, CopiesOK, UpToDate, HoldsCopy
    <2>4. QED BY <1>3, <2>1, <2>2, <2>3
  <1>4. LocalsOK'
    <2>1. ASSUME NEW v \in Workers
          PROVE  /\ req'[v].pc = "save" => SaveLocals(req'[v])
                 /\ req'[v].pc = "link" => LinkLocals(req'[v])
      BY <1>1, <1>2, <1>3 DEF EditsInv, LocalsOK
    <2>2. QED BY <1>1, <2>1 DEF LocalsOK, SaveLocals, LinkLocals
  <1>5. CopiesOK'
    <2>1. ASSUME NEW v \in Workers, req'[v].pc \in {"save", "link"}
          PROVE  UpToDate(tours', req'[v])
      BY <1>1, <1>2, <1>3, <2>1
    <2>2. QED BY <2>1 DEF CopiesOK, UpToDate
  <1>6. QED BY <1>4, <1>5

\* A save leaves the columns it names as asked; the others change only if the copy is late.
LEMMA SaveKeeps ==
  ASSUME EditsInv, NEW w \in Workers, SaveTour(w)
  PROVE  EditsInv'
  <1> DEFINE t == req[w].t
             row == req[w].row
             named == req[w].named
             asked == [c \in Columns |-> IF c \in named THEN row[c] ELSE past.last[t][c]]
             over == (past.undone[t] \ named) \cup
                       {c \in Columns \ named : req[w].stale /\ row[c] # past.last[t][c]}
  <1>1. /\ req[w].pc = "save" /\ t \in Tours /\ UpToDate(tours, req[w]) /\ req[w].stale \in BOOLEAN
    BY DEF SaveTour, EditsInv, LocalsOK, SaveLocals, CopiesOK
  <1>2. /\ Write(w, t, Saved(tours, t, row), Idle) /\ Idle.pc = "idle"
        /\ past' = [past EXCEPT !.last[t] = asked, !.undone[t] = over]
    BY DEF SaveTour, Idle
  <1>3. /\ DOMAIN tours' = DOMAIN tours \cup {t} /\ tours'[t] = row
        /\ \A u \in DOMAIN tours \ {t} : tours'[u] = tours[u]
        /\ tours' = Saved(tours, t, row)
    BY <1>2 DEF Write, Saved
  <1>4. LocalsOK' /\ CopiesOK'
    <2>1. \A u \in DOMAIN tours \ {t} :
            u \in DOMAIN Saved(tours, t, row) /\ Saved(tours, t, row)[u] = tours[u]
      BY DEF Saved
    <2> HIDE DEF t, row
    <2>2. t \in Tours
      BY <1>1
    <2>3. QED BY <1>2, <2>1, <2>2, WriteKeepsCopies
  <1>5. /\ {"last", "undone", "been"} \subseteq DOMAIN past'
        /\ past'.last = [past.last EXCEPT ![t] = asked]
        /\ past'.undone = [past.undone EXCEPT ![t] = over]
    <2> HIDE DEF asked, over, t
    <2>1. QED BY <1>2 DEF EditsInv, TablesOK
  <1>6. TablesOK'
    BY <1>1, <1>3, <1>5 DEF EditsInv, TablesOK
  <1>7. EditsKept'
    <2> SUFFICES ASSUME NEW u \in DOMAIN tours', NEW c \in Columns
                 PROVE  tours'[u][c] = past'.last[u][c] \/ c \in past'.undone[u]
      BY DEF EditsKept
    <2>1. CASE u # t
      <3>1. u \in DOMAIN tours /\ u \in Tours /\ tours'[u] = tours[u]
        BY <1>3, <2>1 DEF EditsInv, TablesOK
      <3>2. past'.last[u] = past.last[u] /\ past'.undone[u] = past.undone[u]
        <4> HIDE DEF asked, over, t
        <4>1. QED BY <1>5, <2>1, <3>1 DEF EditsInv, TablesOK
      <3>3. QED BY <3>1, <3>2 DEF EditsInv, EditsKept
    <2>2. CASE u = t
      <3>1. past'.last[t] = asked /\ past'.undone[t] = over
        <4> HIDE DEF asked, over, t
        <4>1. QED BY <1>1, <1>5 DEF EditsInv, TablesOK, t
      <3>2. CASE c \in named
        BY <1>3, <2>2, <3>1, <3>2
      <3>3. CASE c \notin named
        <4>1. asked[c] = past.last[t][c]
          BY <3>3
        <4>2. CASE req[w].stale
          BY <1>3, <2>2, <3>1, <3>3, <4>1, <4>2
        <4>3. CASE ~req[w].stale
          <5>1. t \in DOMAIN tours /\ row[c] = tours[t][c]
            BY <1>1, <3>3, <4>3 DEF UpToDate
          <5>2. row[c] = past.last[t][c] \/ c \in past.undone[t]
            BY <5>1 DEF EditsInv, EditsKept
          <5>3. QED BY <1>3, <2>2, <3>1, <3>3, <4>1, <5>2
        <4>4. QED BY <1>1, <4>2, <4>3
      <3>4. QED BY <3>2, <3>3
    <2>3. QED BY <2>1, <2>2
  <1>8. QED BY <1>4, <1>6, <1>7 DEF EditsInv

\* A deletion takes a row away, and makes the copies of it late.
LEMMA TourIsDeletedKeeps ==
  ASSUME EditsInv, NEW w \in Workers, NEW t \in Tours, TourIsDeleted(w, t)
  PROVE  EditsInv'
  <1>1. Write(w, t, Without(tours, {t}), Idle) /\ Idle.pc = "idle" /\ past' = past
    BY DEF TourIsDeleted, Idle
  <1>2. /\ DOMAIN Without(tours, {t}) = DOMAIN tours \ {t}
        /\ \A u \in DOMAIN tours \ {t} : Without(tours, {t})[u] = tours[u]
    BY DEF Without
  <1>3. LocalsOK' /\ CopiesOK'
    BY <1>1, <1>2, WriteKeepsCopies
  <1>4. tours' = Without(tours, {t})
    BY <1>1 DEF Write
  <1>5. TablesOK' /\ EditsKept'
    BY <1>1, <1>2, <1>4 DEF EditsInv, TablesOK, EditsKept
  <1>6. QED BY <1>3, <1>5 DEF EditsInv

\* An edit reads the row, and goes on to save it.
LEMMA EditKeeps ==
  ASSUME EditsInv, NEW w \in Workers, NEW t \in Tours, NEW body, Edit(w, t, body)
  PROVE  EditsInv'
  BY SaveNextKeeps DEF Edit, Exists

\* The first step of each request.
LEMMA RequestKeeps ==
  ASSUME EditsInv, NEW w \in Workers, EditRequest(w)
  PROVE  EditsInv'
  <1> PICK t \in Tours :
        \/ UpdateTour(w, t) \/ UpdateTourPublishStatus(w, t) \/ TourIsDeleted(w, t)
        \/ SaveBuildingScan(w, t) \/ DeleteBuildingScan(w, t) \/ Analyze(w, t)
    BY DEF EditRequest
  <1>1. CASE UpdateTour(w, t) \/ UpdateTourPublishStatus(w, t) \/ DeleteBuildingScan(w, t)
    BY <1>1, EditKeeps DEF UpdateTour, UpdateTourPublishStatus, DeleteBuildingScan
  <1>2. CASE TourIsDeleted(w, t)
    BY <1>2, TourIsDeletedKeeps
  <1>3. CASE SaveBuildingScan(w, t)
    <2>1. PICK rooms :
            Goto(w, [pc |-> "link", t |-> t, row |-> tours[t], rooms |-> rooms, stale |-> FALSE])
      BY <1>3 DEF SaveBuildingScan
    <2> DEFINE row == tours[t]
               r == [pc |-> "link", t |-> t, row |-> row, rooms |-> rooms, stale |-> FALSE]
    <2>2. Goto(w, r) /\ t \in DOMAIN tours /\ UNCHANGED <<tours, past>>
      BY <1>3, <2>1 DEF SaveBuildingScan, Exists
    <2> HIDE DEF row
    <2>3. r.pc = "link" /\ r.t = t /\ r.row = row /\ r.stale = FALSE /\ LinkLocals(r)
      BY DEF LinkLocals
    <2> HIDE DEF r
    <2>4. UpToDate(tours, r)
      BY <2>2, <2>3 DEF UpToDate, row
    <2>5. QED BY <2>2, <2>3, <2>4, GotoKeeps
  <1>4. CASE Analyze(w, t)
    <2> DEFINE r == [pc |-> "list", t |-> t]
    <2>1. Goto(w, r) /\ r.pc = "list" /\ UNCHANGED <<tours, past>>
      BY <1>4 DEF Analyze
    <2> HIDE DEF r
    <2>2. QED BY <2>1, GotoKeeps
  <1>5. QED BY <1>1, <1>2, <1>3, <1>4

\* Every later step of a handler, and its end.
LEMMA StatementKeeps ==
  ASSUME EditsInv, NEW w \in Workers, EditStatement(w) \/ Respond(w)
  PROVE  EditsInv'
  <1>1. CASE SaveTour(w)
    BY <1>1, SaveKeeps
  <1>2. CASE LinkRooms(w)
    <2>1. /\ LinkLocals(req[w]) /\ UpToDate(tours, req[w]) /\ req[w].pc = "link"
          /\ UNCHANGED <<tours, past>>
      BY <1>2 DEF LinkRooms, EditsInv, LocalsOK, CopiesOK
    <2>2. PICK body : SaveNext(w, req[w].t, req[w].row, body, req[w].stale)
      BY <1>2 DEF LinkRooms
    <2>3. /\ req[w].t \in Tours /\ req[w].stale \in BOOLEAN
          /\ ~req[w].stale => req[w].t \in DOMAIN tours /\ req[w].row = tours[req[w].t]
      BY <2>1 DEF LinkLocals, UpToDate
    <2>4. QED BY <2>1, <2>2, <2>3, SaveNextKeeps
  <1>3. CASE ListPhotos(w)
    <2>1. PICK photos : Goto(w, [pc |-> "ask", photos |-> photos])
      BY <1>3 DEF ListPhotos
    <2> DEFINE r == [pc |-> "ask", photos |-> photos]
    <2>2. Goto(w, r) /\ r.pc = "ask" /\ UNCHANGED <<tours, past>>
      BY <1>3, <2>1 DEF ListPhotos
    <2> HIDE DEF r
    <2>3. QED BY <2>2, GotoKeeps
  <1>4. CASE ModelAnswers(w)
    <2>1. PICK rooms : Goto(w, [pc |-> "answer", rooms |-> rooms])
      BY <1>4 DEF ModelAnswers
    <2> DEFINE r == [pc |-> "answer", rooms |-> rooms]
    <2>2. Goto(w, r) /\ r.pc = "answer" /\ UNCHANGED <<tours, past>>
      BY <1>4, <2>1 DEF ModelAnswers
    <2> HIDE DEF r
    <2>3. QED BY <2>2, GotoKeeps
  <1>5. CASE Respond(w)
    <2>1. Goto(w, Idle) /\ Idle.pc = "idle" /\ UNCHANGED <<tours, past>>
      BY <1>5 DEF Respond, Idle
    <2>2. QED BY <2>1, GotoKeeps
  <1>6. QED BY <1>1, <1>2, <1>3, <1>4, <1>5 DEF EditStatement

\* What happens to scenes changes no tour and no copy of one.
LEMMA SceneSavesKeep ==
  ASSUME EditsInv, UNCHANGED <<tours, req>>,
         past' = past \/ \E t \in Tours, s \in Scenes :
                           past' = [past EXCEPT !.been[t] = @ \cup {s}]
  PROVE  EditsInv'
  <1>1. /\ {"last", "undone", "been"} \subseteq DOMAIN past'
        /\ past'.last = past.last /\ past'.undone = past.undone
    BY DEF EditsInv, TablesOK
  <1>2. TablesOK' /\ EditsKept'
    BY <1>1 DEF EditsInv, TablesOK, EditsKept
  <1>3. LocalsOK' /\ CopiesOK'
    BY DEF EditsInv, LocalsOK, CopiesOK, SaveLocals, LinkLocals, UpToDate
  <1>4. QED BY <1>2, <1>3 DEF EditsInv

\* The invariant is inductive.
LEMMA NextEdits == EditsInv /\ [EditsNext]_editVars => EditsInv'
  <1> SUFFICES ASSUME EditsInv, [EditsNext]_editVars PROVE EditsInv'
    OBVIOUS
  <1>1. ASSUME NEW w \in Workers, EditRequest(w) PROVE EditsInv'
    BY <1>1, RequestKeeps
  <1>2. ASSUME NEW w \in Workers, EditStatement(w) \/ Respond(w) PROVE EditsInv'
    BY <1>2, StatementKeeps
  <1>3. ASSUME NEW s \in Scenes, SceneIsGone(s) \/ \E t \in Tours : SceneIsSaved(s, t)
        PROVE  EditsInv'
    BY <1>3, SceneSavesKeep DEF SceneIsGone, SceneIsSaved
  <1>4. CASE UNCHANGED editVars
    BY <1>4, SceneSavesKeep DEF editVars
  <1>5. QED BY <1>1, <1>2, <1>3, <1>4 DEF EditsNext, Refuse

\* However edits overlap, every column is as it was last asked to be, unless a request wrote over
\* it that had read the row before.
THEOREM EditsAreKept == EditsSpec => []EditsKept
  <1>1. EditsInv => EditsKept
    BY DEF EditsInv
  <1>2. QED BY <1>1, InitEdits, NextEdits, PTL DEF EditsSpec
=============================================================================
