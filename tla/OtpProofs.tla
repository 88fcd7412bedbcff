----------------------------- MODULE OtpProofs -----------------------------
(***************************************************************************)
(* What TLAPS proves of the one-time-code store, for any number of         *)
(* workers, addresses and codes and any value of the limits.               *)
(***************************************************************************)
EXTENDS Otp, SequenceTheorems, FiniteSetTheorems, WellFoundedInduction, TLAPS

Ops == IdleOp \cup IssueOp \cup VerifyOp

\* A record that replaces an element of a table leaves it a table of the same length.
LEMMA UpdateRow ==
  ASSUME NEW S, NEW s \in Seq(S), NEW i \in 1..Len(s), NEW e \in S
  PROVE  /\ [s EXCEPT ![i] = e] \in Seq(S)
         /\ Len([s EXCEPT ![i] = e]) = Len(s)
         /\ [s EXCEPT ![i] = e][i] = e
         /\ \A j \in 1..Len(s) : j # i => [s EXCEPT ![i] = e][j] = s[j]
BY ExceptSeq

\* An appended element comes last and leaves the others where they are.
LEMMA AppendRow ==
  ASSUME NEW S, NEW s \in Seq(S), NEW e \in S
  PROVE  /\ Append(s, e) \in Seq(S)
         /\ Len(Append(s, e)) = Len(s) + 1
         /\ Append(s, e)[Len(s) + 1] = e
         /\ \A j \in 1..Len(s) : Append(s, e)[j] = s[j]
BY AppendProperties

\* Where a worker's locals point: rows it holds a number of exist, and the row it
\* inserted remembers the rows its transaction consumes.
LocalsOK ==
  /\ \A w \in Workers :
       /\ op[w] \in VerifyOp => op[w].row \in Ids
       /\ op[w] \in IssueOp => op[w].rows \subseteq Ids
       /\ op[w].pc = "commit" => /\ op[w].row \in Ids \ op[w].rows
                                 /\ hist[op[w].row].saw \subseteq op[w].rows
  /\ \A i \in Ids : hist[i].saw \subseteq Ids

TypeInv == OtpTypeOK /\ LocalsOK

\* A worker's program counter tells which locals it has.
LEMMA WhichOp ==
  ASSUME OtpTypeOK, NEW w \in Workers
  PROVE  /\ op[w].pc = "idle" => op[w] \in IdleOp
         /\ op[w].pc \in {"count", "update", "lock", "commit"} => op[w] \in IssueOp
         /\ op[w].pc \in {"miss", "consume"} => op[w] \in VerifyOp
BY DEF OtpTypeOK, IdleOp, IssueOp, VerifyOp

\* The table and the history start empty and no worker has called yet.
LEMMA InitTyped == OtpInit => TypeInv
BY EmptySeq DEF OtpInit, TypeInv, OtpTypeOK, LocalsOK, Ids, IdleOp, IssueOp, VerifyOp, Results

\* What the locals of one worker must satisfy for it to be well placed.
Placed(r, o, h) ==
  /\ r \in IdleOp \cup IssueOp \cup VerifyOp
  /\ r \in VerifyOp => r.row \in 1..Len(o)
  /\ r \in IssueOp => r.rows \subseteq 1..Len(o)
  /\ r.pc = "commit" => r.row \in (1..Len(o)) \ r.rows /\ h[r.row].saw \subseteq r.rows

\* A step that moves one worker's locals to a good place keeps the invariant.
LEMMA MoveTyped ==
  ASSUME TypeInv, NEW w \in Workers, NEW r, Goto(w, r), Placed(r, otps, hist),
         UNCHANGED <<otps, clock, hist>>
  PROVE  TypeInv'
BY DEF TypeInv, OtpTypeOK, LocalsOK, Goto, Placed, Ids

\* The record of a returned call is well placed.
LEMMA IdlePlaced ==
  ASSUME NEW result \in Results, NEW code \in Nat, NEW o, NEW h
  PROVE  Placed([pc |-> "idle", result |-> result, code |-> code], o, h)
BY DEF Placed, IdleOp, IssueOp, VerifyOp

\* Beginning issue only moves the caller.
LEMMA IssueStartTyped ==
  ASSUME TypeInv, NEW w \in Workers, NEW k \in Keys, IssueStart(w, k)
  PROVE  TypeInv'
<1>1. CASE Return(w, "cooldown", 0)
  <2>1. "cooldown" \in Results /\ 0 \in Nat BY DEF Results
  <2>2. QED BY <1>1, <2>1, IdlePlaced, MoveTyped DEF Return, IssueStart
<1>2. ASSUME NEW c \in SUBSET Limits,
             Goto(w, [pc |-> "count", key |-> k, now |-> clock, rows |-> {},
                      queue |-> <<>>, row |-> 0, checked |-> c])
      PROVE  TypeInv'
  <2> DEFINE r == [pc |-> "count", key |-> k, now |-> clock, rows |-> {},
                   queue |-> <<>>, row |-> 0, checked |-> c]
  <2>1. clock \in Nat /\ <<>> \in Seq(Nat) BY EmptySeq DEF TypeInv, OtpTypeOK
  <2>2. Placed(r, otps, hist) BY <2>1 DEF Placed, IssueOp, VerifyOp
  <2>3. QED BY <1>2, <2>2, MoveTyped DEF IssueStart
<1>3. QED BY <1>1, <1>2 DEF IssueStart, Limits

\* Counting the recent codes only moves the caller.
LEMMA IssueCountTyped ==
  ASSUME TypeInv, NEW w \in Workers, IssueCount(w)
  PROVE  TypeInv'
<1>1. CASE Return(w, "hourly_limit", 0)
  <2>1. "hourly_limit" \in Results /\ 0 \in Nat BY DEF Results
  <2>2. QED BY <1>1, <2>1, IdlePlaced, MoveTyped DEF Return, IssueCount
<1>2. ASSUME NEW c \in SUBSET Limits,
             Goto(w, [op[w] EXCEPT !.pc = "update", !.checked = @ \cup c])
      PROVE  TypeInv'
  <2> DEFINE r == [op[w] EXCEPT !.pc = "update", !.checked = @ \cup c]
  <2>1. op[w] \in IssueOp /\ op[w].rows \subseteq 1..Len(otps)
    BY WhichOp DEF IssueCount, TypeInv, LocalsOK, Ids
  <2>2. r \in IssueOp /\ r.rows = op[w].rows /\ r.pc = "update" BY <2>1 DEF IssueOp
  <2>3. Placed(r, otps, hist) BY <2>1, <2>2 DEF Placed, IssueOp, VerifyOp
  <2>4. QED BY <1>2, <2>3, MoveTyped DEF IssueCount
<1>3. PICK countOk \in BOOLEAN :
        IF countOk /\ OverHourlyLimit(op[w].key, op[w].now)
        THEN Return(w, "hourly_limit", 0)
        ELSE Goto(w, [op[w] EXCEPT !.pc = "update",
                                   !.checked = @ \cup IF countOk THEN {"hourly"} ELSE {}])
  BY DEF IssueCount
<1>4. (IF countOk THEN {"hourly"} ELSE {}) \in SUBSET Limits BY DEF Limits
<1>5. QED BY <1>1, <1>2, <1>3, <1>4

\* The rows in some order are a queue of numbers (SequencesExt: SetToSeqs).
LEMMA QueueTyped ==
  ASSUME TypeInv, NEW S \in SUBSET Ids, NEW queue \in SetToSeqs(S)
  PROVE  queue \in Seq(Nat)
<1>1. Len(otps) \in Nat
  BY DEF TypeInv, OtpTypeOK
<1>2. IsFiniteSet(S) /\ S \in SUBSET Nat
  <2>1. Ids \in SUBSET Nat BY <1>1 DEF Ids
  <2>2. IsFiniteSet(Ids) BY <1>1, FS_Interval DEF Ids
  <2>3. QED BY <2>1, <2>2, FS_Subset
<1>3. Cardinality(S) \in Nat
  BY <1>2, FS_CardinalityType
<1>4. queue \in [1..Cardinality(S) -> S]
  BY DEF SetToSeqs
<1>5. queue \in [1..Cardinality(S) -> Nat]
  BY <1>2, <1>4
<1>6. QED
  BY <1>3, <1>5

\* The locals of an issue whose UPDATE has begun: only the rows and the queue change.
LEMMA IssueUpdateLocals ==
  ASSUME TypeInv, NEW w \in Workers, IssueUpdate(w)
  PROVE  \E r \in IssueOp :
           /\ Goto(w, r) /\ r.pc = "lock" /\ r.rows = Unconsumed(op[w].key)
           /\ r.key = op[w].key /\ r.now = op[w].now /\ r.checked = op[w].checked
<1>1. op[w] \in IssueOp BY WhichOp DEF IssueUpdate, TypeInv
<1> DEFINE rows == Unconsumed(op[w].key)
<1>2. rows \in SUBSET Ids /\ rows \in SUBSET Nat
  BY DEF Unconsumed, Stored, Ids, TypeInv, OtpTypeOK
<1> HIDE DEF rows
<1>3. PICK queue \in SetToSeqs(rows) :
        Goto(w, [op[w] EXCEPT !.pc = "lock", !.rows = rows, !.queue = queue])
  BY DEF IssueUpdate, rows
<1>4. queue \in Seq(Nat) BY <1>2, <1>3, QueueTyped
<1> DEFINE r == [op[w] EXCEPT !.pc = "lock", !.rows = rows, !.queue = queue]
<1>5. /\ r \in IssueOp /\ r.pc = "lock" /\ r.rows = rows
      /\ r.key = op[w].key /\ r.now = op[w].now /\ r.checked = op[w].checked
  BY <1>1, <1>2, <1>4 DEF IssueOp
<1>6. QED BY <1>3, <1>5 DEF rows

\* The locals of an issue that got a lock: only the queue changes.
LEMMA IssueLockLocals ==
  ASSUME TypeInv, NEW w \in Workers, IssueLock(w)
  PROVE  \E r \in IssueOp :
           /\ Goto(w, r) /\ r.pc = "lock" /\ r.rows = op[w].rows
           /\ r.key = op[w].key /\ r.now = op[w].now /\ r.checked = op[w].checked
<1> DEFINE queue == Tail(op[w].queue)
           r == [op[w] EXCEPT !.queue = queue]
<1>1. op[w] \in IssueOp /\ op[w].pc = "lock" /\ op[w].queue # <<>>
  BY WhichOp DEF IssueLock, TypeInv
<1>2. op[w].queue \in Seq(Nat) BY <1>1 DEF IssueOp
<1>3. queue \in Seq(Nat) BY <1>1, <1>2, HeadTailProperties
<1>4. Goto(w, r)
  BY <1>1 DEF IssueLock, IssueOp
<1> HIDE DEF queue
<1>5. /\ r \in IssueOp /\ r.pc = "lock" /\ r.rows = op[w].rows
      /\ r.key = op[w].key /\ r.now = op[w].now /\ r.checked = op[w].checked
  BY <1>1, <1>3 DEF IssueOp
<1>6. QED BY <1>4, <1>5

\* Starting the UPDATE of issue, and getting one of its locks, only moves the caller.
LEMMA IssueUpdateTyped ==
  ASSUME TypeInv, NEW w \in Workers, IssueUpdate(w) \/ IssueLock(w)
  PROVE  TypeInv'
<1>1. op[w] \in IssueOp /\ op[w].rows \subseteq 1..Len(otps)
  BY WhichOp DEF IssueUpdate, IssueLock, TypeInv, LocalsOK, Ids
<1>2. Unconsumed(op[w].key) \subseteq 1..Len(otps) BY DEF Unconsumed, Stored, Ids
<1>3. PICK r \in IssueOp : /\ Goto(w, r) /\ r.pc = "lock"
                           /\ r.rows = op[w].rows \/ r.rows = Unconsumed(op[w].key)
  BY IssueUpdateLocals, IssueLockLocals
<1>4. Placed(r, otps, hist) BY <1>1, <1>2, <1>3 DEF Placed, IssueOp, VerifyOp
<1>5. QED BY <1>3, <1>4, MoveTyped DEF IssueUpdate, IssueLock

\* The tables stay tables, no row goes away and no history of what was seen changes.
TablesGrow ==
  /\ otps' \in Seq(Row) /\ hist' \in Seq(History) /\ Len(hist') = Len(otps')
  /\ Len(otps) <= Len(otps')
  /\ \A i \in 1..Len(otps) : hist'[i].saw = hist[i].saw
  /\ \A i \in 1..Len(otps') : hist'[i].saw \subseteq 1..Len(otps')

\* A step that moves one worker to a good place and lets the tables grow keeps the invariant.
LEMMA StepTyped ==
  ASSUME TypeInv, NEW w \in Workers, NEW r, Goto(w, r), Placed(r, otps', hist'),
         clock' = clock, TablesGrow
  PROVE  TypeInv'
<1>1. /\ Len(otps) \in Nat /\ Len(otps') \in Nat
      /\ 1..Len(otps) \subseteq 1..Len(otps')
  BY DEF TypeInv, OtpTypeOK, TablesGrow
<1>2. OtpTypeOK'
  BY DEF TypeInv, OtpTypeOK, Goto, Placed, TablesGrow
<1>3. ASSUME NEW v \in Workers
      PROVE  /\ op'[v] \in VerifyOp => op'[v].row \in 1..Len(otps')
             /\ op'[v] \in IssueOp => op'[v].rows \subseteq 1..Len(otps')
             /\ op'[v].pc = "commit" => /\ op'[v].row \in (1..Len(otps')) \ op'[v].rows
                                        /\ hist'[op'[v].row].saw \subseteq op'[v].rows
  <2>1. CASE v = w BY <2>1 DEF TypeInv, OtpTypeOK, Goto, Placed
  <2>2. CASE v # w BY <2>2, <1>1 DEF TypeInv, OtpTypeOK, LocalsOK, Ids, Goto, TablesGrow
  <2>3. QED BY <2>1, <2>2
<1>4. QED BY <1>2, <1>3 DEF TypeInv, LocalsOK, Ids, TablesGrow

\* Replacing one row, and one history entry, by well-typed ones lets the tables grow.
LEMMA ReplaceGrows ==
  ASSUME TypeInv, NEW i \in Ids, NEW o \in Row, NEW h \in History, h.saw = hist[i].saw,
         otps' = [otps EXCEPT ![i] = o], hist' = [hist EXCEPT ![i] = h]
  PROVE  TablesGrow
BY UpdateRow DEF TypeInv, OtpTypeOK, LocalsOK, Ids, TablesGrow

\* So does replacing a row while the history stays.
LEMMA ReplaceRowGrows ==
  ASSUME TypeInv, NEW i \in Ids, NEW o \in Row,
         otps' = [otps EXCEPT ![i] = o], hist' = hist
  PROVE  TablesGrow
BY UpdateRow DEF TypeInv, OtpTypeOK, LocalsOK, Ids, TablesGrow

\* And replacing a history entry while the rows stay.
LEMMA ReplaceHistGrows ==
  ASSUME TypeInv, NEW i \in Ids, NEW h \in History, h.saw = hist[i].saw,
         otps' = otps, hist' = [hist EXCEPT ![i] = h]
  PROVE  TablesGrow
BY UpdateRow DEF TypeInv, OtpTypeOK, LocalsOK, Ids, TablesGrow

\* The row an issue inserts, and the history it starts with, have their types.
LEMMA NewRowTyped ==
  ASSUME NEW w \in Workers, op[w] \in IssueOp, clock \in Nat
  PROVE  /\ NewRow(w) \in Row
         /\ [accepted |-> 0, tries |-> 0, lost |-> 0,
             saw |-> op[w].rows, checked |-> op[w].checked] \in History
<1>1. op[w].now + Lifetime \in Nat /\ op[w].key \in Keys
  BY LimitsPositive DEF IssueOp
<1>2. NewRow(w) \in Row
  BY <1>1 DEF NewRow, Row
<1>3. op[w].rows \in SUBSET Nat /\ op[w].checked \in SUBSET Limits
  BY DEF IssueOp
<1>4. QED
  BY <1>2, <1>3 DEF History

\* A history with one acceptance more.
LEMMA AcceptedTyped ==
  ASSUME NEW g \in History, NEW h, h = [g EXCEPT !.accepted = @ + 1]
  PROVE  h \in History /\ h.saw = g.saw /\ h.accepted = g.accepted + 1
<1>1. g.accepted \in Nat
  BY DEF History
<1>2. QED
  BY <1>1 DEF History

\* Inserting puts a pending row and its history at the end of both tables.
LEMMA IssueInsertTyped ==
  ASSUME TypeInv, NEW w \in Workers, IssueInsert(w)
  PROVE  TypeInv'
<1> DEFINE r == [op[w] EXCEPT !.pc = "commit", !.row = Len(otps) + 1]
           h == [accepted |-> 0, tries |-> 0, lost |-> 0,
                 saw |-> op[w].rows, checked |-> op[w].checked]
<1>1. /\ op[w] \in IssueOp /\ op[w].rows \subseteq 1..Len(otps)
      /\ otps \in Seq(Row) /\ hist \in Seq(History) /\ Len(hist) = Len(otps)
      /\ clock \in Nat /\ Len(otps) \in Nat
  BY WhichOp DEF IssueInsert, TypeInv, OtpTypeOK, LocalsOK, Ids
<1>2. NewRow(w) \in Row /\ h \in History
  BY <1>1, NewRowTyped
<1>3. h \in History /\ h.saw = op[w].rows
  BY <1>2
<1>4. /\ otps' \in Seq(Row) /\ Len(otps') = Len(otps) + 1
      /\ hist' \in Seq(History) /\ Len(hist') = Len(otps) + 1
      /\ hist'[Len(otps) + 1] = h
      /\ \A j \in 1..Len(otps) : hist'[j] = hist[j]
  BY <1>1, <1>2, <1>3, AppendRow DEF IssueInsert
<1>5. r \in IssueOp /\ r.rows = op[w].rows /\ r.row = Len(otps) + 1 /\ r.pc = "commit"
  <2> DEFINE n == Len(otps) + 1
  <2>1. n \in Nat BY <1>1
  <2> HIDE DEF n
  <2>2. [op[w] EXCEPT !.pc = "commit", !.row = n] \in IssueOp BY <1>1, <2>1 DEF IssueOp
  <2>3. QED BY <1>1, <2>2 DEF n, IssueOp
<1>6. Placed(r, otps', hist')
  BY <1>1, <1>3, <1>4, <1>5 DEF Placed, IssueOp, VerifyOp
<1>7. TablesGrow
  <2>1. \A i \in 1..Len(otps) : hist[i].saw \subseteq 1..Len(otps)
    BY DEF TypeInv, LocalsOK, Ids
  <2>2. \A i \in 1..Len(otps') : i \in 1..Len(otps) \/ i = Len(otps) + 1
    BY <1>1, <1>4
  <2>3. 1..Len(otps) \subseteq 1..Len(otps') BY <1>1, <1>4
  <2> HIDE DEF h
  <2>4. \A i \in 1..Len(otps') : hist'[i].saw \subseteq 1..Len(otps)
    BY <1>1, <1>3, <1>4, <2>1, <2>2
  <2>5. QED BY <1>1, <1>4, <2>3, <2>4 DEF TablesGrow
<1>8. QED BY <1>6, <1>7, StepTyped DEF IssueInsert

\* What a commit leaves is a table of the same length.
LEMMA CommittedTable ==
  ASSUME TypeInv, NEW w \in Workers
  PROVE  Committed(w) \in Seq(Row) /\ Len(Committed(w)) = Len(otps)
<1>1. Len(otps) \in Nat /\ otps \in Seq(Row) BY DEF TypeInv, OtpTypeOK
<1>2. \A i \in 1..Len(otps) : otps[i] \in Row BY <1>1, ElementOfSeq
<1>3. \A i \in 1..Len(otps) : Committed(w)[i] \in Row BY <1>2 DEF Committed, Ids, Row
<1>4. Committed(w) = [i \in 1..Len(otps) |-> Committed(w)[i]] BY DEF Committed, Ids
<1>5. QED BY <1>1, <1>3, <1>4, IsASeq

\* Committing marks the superseded rows consumed and the new one committed.
LEMMA IssueCommitTyped ==
  ASSUME TypeInv, NEW w \in Workers, IssueCommit(w)
  PROVE  TypeInv'
<1>1. otps' \in Seq(Row) /\ Len(otps') = Len(otps) BY CommittedTable DEF IssueCommit
<1>2. TablesGrow BY <1>1 DEF IssueCommit, TablesGrow, TypeInv, OtpTypeOK, LocalsOK, Ids
<1>3. op[w].row \in Nat BY WhichOp DEF IssueCommit, TypeInv, IssueOp
<1>4. "ok" \in Results /\ "error" \in Results /\ 0 \in Nat BY DEF Results
<1>5. QED BY <1>2, <1>3, <1>4, IdlePlaced, StepTyped DEF IssueCommit, Return

\* Rolling back marks the inserted row, if there is one.
LEMMA IssueFailTyped ==
  ASSUME TypeInv, NEW w \in Workers, IssueFail(w)
  PROVE  TypeInv'
<1>1. TablesGrow
  <2>1. CASE op[w].pc = "commit"
    <3> DEFINE o == [otps[op[w].row] EXCEPT !.status = "rolledback"]
    <3>1. op[w].row \in Ids /\ otps \in Seq(Row) BY <2>1 DEF TypeInv, OtpTypeOK, LocalsOK
    <3>2. otps[op[w].row] \in Row BY <3>1, ElementOfSeq DEF Ids
    <3>3. o \in Row BY <3>2 DEF Row
    <3>4. otps' = [otps EXCEPT ![op[w].row] = o] BY <2>1 DEF IssueFail
    <3>5. QED BY <3>1, <3>3, <3>4, ReplaceRowGrows DEF IssueFail
  <2>2. CASE op[w].pc # "commit"
    BY <2>2 DEF IssueFail, TablesGrow, TypeInv, OtpTypeOK, LocalsOK, Ids
  <2>3. QED BY <2>1, <2>2
<1>2. "error" \in Results /\ 0 \in Nat BY DEF Results
<1>3. QED BY <1>1, <1>2, IdlePlaced, StepTyped DEF IssueFail, Return

\* Reading a code moves the caller, and counts a wrong guess in the history.
LEMMA VerifyReadTyped ==
  ASSUME TypeInv, NEW w \in Workers, NEW k \in Keys, NEW guess \in Guesses,
         VerifyRead(w, k, guess)
  PROVE  TypeInv'
<1> USE DEF VerifyRead
<1>1. "invalid" \in Results /\ "too_many" \in Results /\ "ok" \in Results /\ 0 \in Nat
  BY DEF Results
<1>2. CASE Return(w, "invalid", 0) /\ UNCHANGED hist
  BY <1>1, <1>2, IdlePlaced, MoveTyped DEF Return
<1>3. ASSUME NEW i \in Latest(Usable(k)),
             \/ Return(w, "too_many", 0) /\ UNCHANGED hist
             \/ Goto(w, [pc |-> "consume", row |-> i, result |-> "ok"]) /\ UNCHANGED hist
             \/ /\ \E res \in Results : Goto(w, [pc |-> "miss", row |-> i, result |-> res])
                /\ hist' = [hist EXCEPT ![i].tries = @ + 1]
      PROVE  TypeInv'
  <2>1. i \in Ids /\ i \in 1..Len(otps) /\ i \in Nat
    BY DEF Latest, Usable, Unconsumed, Stored, Ids, TypeInv, OtpTypeOK
  <2>2. CASE Return(w, "too_many", 0) /\ UNCHANGED hist
    BY <1>1, <2>2, IdlePlaced, MoveTyped DEF Return
  <2>3. CASE /\ Goto(w, [pc |-> "consume", row |-> i, result |-> "ok"])
             /\ UNCHANGED hist
    <3>1. Placed([pc |-> "consume", row |-> i, result |-> "ok"], otps, hist)
      BY <1>1, <2>1 DEF Placed, IdleOp, IssueOp, VerifyOp
    <3>2. QED BY <2>3, <3>1, MoveTyped
  <2>4. ASSUME NEW res \in Results, Goto(w, [pc |-> "miss", row |-> i, result |-> res]),
               hist' = [hist EXCEPT ![i].tries = @ + 1]
        PROVE  TypeInv'
    <3> DEFINE h == [hist[i] EXCEPT !.tries = @ + 1]
    <3>1. hist[i] \in History BY <2>1, ElementOfSeq DEF TypeInv, OtpTypeOK
    <3>2. h \in History /\ h.saw = hist[i].saw BY <3>1 DEF History
    <3>3. hist' = [hist EXCEPT ![i] = h] BY <2>4
    <3> HIDE DEF h
    <3>4. TablesGrow BY <2>1, <3>2, <3>3, ReplaceHistGrows
    <3>5. Len(otps') = Len(otps) OBVIOUS
    <3>6. Placed([pc |-> "miss", row |-> i, result |-> res], otps', hist')
      BY <2>1, <3>5 DEF Placed, IdleOp, IssueOp, VerifyOp
    <3>7. QED BY <2>4, <3>4, <3>6, StepTyped
  <2>5. QED BY <1>3, <2>2, <2>3, <2>4
<1>4. QED BY <1>1, <1>2, <1>3

\* Recording a wrong guess, or failing to, returns to the caller.
LEMMA VerifyMissTyped ==
  ASSUME TypeInv, NEW w \in Workers, VerifyMiss(w) \/ VerifyMissFails(w)
  PROVE  TypeInv'
<1> DEFINE i == op[w].row
<1>1. /\ op[w] \in VerifyOp /\ i \in Ids /\ i \in 1..Len(otps)
      /\ op[w].result \in Results /\ 0 \in Nat
  BY WhichOp DEF VerifyMiss, VerifyMissFails, TypeInv, LocalsOK, VerifyOp, Ids
<1>2. otps[i] \in Row /\ hist[i] \in History BY <1>1, ElementOfSeq DEF TypeInv, OtpTypeOK
<1>3. CASE VerifyMiss(w)
  <2> DEFINE o == [otps[i] EXCEPT !.attempts = @ + 1]
  <2>1. o \in Row BY <1>2 DEF Row
  <2>2. otps' = [otps EXCEPT ![i] = o] BY <1>3 DEF VerifyMiss, CountMiss
  <2> HIDE DEF o
  <2>3. TablesGrow BY <1>1, <1>3, <2>1, <2>2, ReplaceRowGrows DEF VerifyMiss
  <2>4. QED BY <1>1, <1>3, <2>3, IdlePlaced, StepTyped DEF VerifyMiss, Return
<1>4. CASE VerifyMissFails(w)
  <2> DEFINE h == [hist[i] EXCEPT !.lost = @ + 1]
  <2>1. h \in History /\ h.saw = hist[i].saw BY <1>2 DEF History
  <2>2. hist' = [hist EXCEPT ![i] = h] BY <1>4 DEF VerifyMissFails
  <2> HIDE DEF h
  <2>3. TablesGrow BY <1>1, <1>4, <2>1, <2>2, ReplaceHistGrows DEF VerifyMissFails
  <2>4. QED BY <1>1, <1>4, <2>3, IdlePlaced, StepTyped DEF VerifyMissFails, Return
<1>5. QED BY <1>3, <1>4

\* Consuming a code, or failing to, returns to the caller.
LEMMA VerifyConsumeTyped ==
  ASSUME TypeInv, NEW w \in Workers, VerifyConsume(w) \/ VerifyConsumeFails(w)
  PROVE  TypeInv'
<1> DEFINE i == op[w].row
           o == [otps[i] EXCEPT !.consumed = TRUE]
           h == [hist[i] EXCEPT !.accepted = @ + 1]
<1>1. op[w] \in VerifyOp /\ i \in Ids /\ i \in 1..Len(otps)
  BY WhichOp DEF VerifyConsume, VerifyConsumeFails, TypeInv, LocalsOK, Ids
<1>2. otps[i] \in Row /\ hist[i] \in History BY <1>1, ElementOfSeq DEF TypeInv, OtpTypeOK
<1>3. o \in Row BY <1>2 DEF Row
<1>4. h \in History /\ h.saw = hist[i].saw
  BY <1>2, AcceptedTyped
<1>5. "ok" \in Results /\ "invalid" \in Results /\ 0 \in Nat BY DEF Results
<1>6. \/ UNCHANGED <<otps, hist>>
      \/ otps' = [otps EXCEPT ![i] = o] /\ UNCHANGED hist
      \/ otps' = [otps EXCEPT ![i] = o] /\ hist' = [hist EXCEPT ![i] = h]
  BY DEF VerifyConsume, VerifyConsumeFails
<1> HIDE DEF o, h
<1>7. TablesGrow
  <2>1. CASE UNCHANGED <<otps, hist>>
    BY <2>1 DEF TablesGrow, TypeInv, OtpTypeOK, LocalsOK, Ids
  <2>2. QED BY <1>1, <1>3, <1>4, <1>6, <2>1, ReplaceGrows, ReplaceRowGrows
<1>8. /\ Return(w, "ok", 0) \/ Return(w, "invalid", 0)
      /\ clock' = clock
  BY DEF VerifyConsume, VerifyConsumeFails
<1>9. QED BY <1>5, <1>7, <1>8, IdlePlaced, StepTyped DEF Return

\* Time passing moves nobody.
LEMMA TickTyped == ASSUME TypeInv, Tick PROVE TypeInv'
BY DEF TypeInv, OtpTypeOK, LocalsOK, Ids, Tick

\* So does a step outside the store.
LEMMA StutterTyped == ASSUME TypeInv, UNCHANGED otpVars PROVE TypeInv'
BY DEF TypeInv, OtpTypeOK, LocalsOK, Ids, otpVars

\* A deadlock that is detected is one way for the transaction to fail.
LEMMA NextKinds ==
  ASSUME OtpNext
  PROVE  \/ \E w \in Workers : Call(w) \/ IssueStep(w) \/ VerifyStep(w) \/ Fault(w)
         \/ Tick
BY DEF OtpNext, DeadlockDetected, Fault

\* Every step keeps the tables, the locals and the history well typed.
LEMMA NextTyped == ASSUME TypeInv, [OtpNext]_otpVars PROVE TypeInv'
BY NextKinds, IssueStartTyped, IssueCountTyped, IssueUpdateTyped, IssueInsertTyped,
   IssueCommitTyped, IssueFailTyped, VerifyReadTyped, VerifyMissTyped, VerifyConsumeTyped,
   TickTyped, StutterTyped
   DEF Call, IssueStep, VerifyStep, Fault

\* In every behaviour of the store the tables, the locals of the workers and the history
\* keep their types (otp.go:56-123).
THEOREM TypeCorrect == OtpSpec => []OtpTypeOK
<1>1. OtpSpec => []TypeInv BY InitTyped, NextTyped, PTL DEF OtpSpec
<1>2. TypeInv => OtpTypeOK BY DEF TypeInv
<1>3. QED BY <1>1, <1>2, PTL

-----------------------------------------------------------------------------
(* What one step does to the rows *)

\* A row only ages: it is consumed for good and its attempts only grow; it is accepted
\* in the step that consumes it; and when it becomes committed, what it superseded is
\* consumed.  A new row starts pending and unaccepted.
RowAges(i) ==
  /\ otps[i].consumed => otps'[i].consumed
  /\ otps'[i].attempts >= otps[i].attempts
  /\ hist'[i].saw = hist[i].saw
  /\ \/ hist'[i].accepted = hist[i].accepted
     \/ /\ hist'[i].accepted = hist[i].accepted + 1
        /\ ~otps[i].consumed /\ otps'[i].consumed
  /\ otps'[i].status = "committed" =>
       \/ otps[i].status = "committed"
       \/ \A s \in hist[i].saw : otps'[s].consumed

RowsAge ==
  /\ Ids \subseteq Ids'
  /\ \A i \in Ids : RowAges(i)
  /\ \A i \in Ids' \ Ids : /\ otps'[i].status = "pending"
                           /\ hist'[i].accepted = 0

\* A step that leaves both tables alone ages nothing.
LEMMA SameTablesAge ==
  ASSUME TypeInv, UNCHANGED <<otps, hist>>
  PROVE  RowsAge
<1>1. \A i \in Ids : otps[i] \in Row BY ElementOfSeq DEF TypeInv, OtpTypeOK, Ids
<1>2. QED BY <1>1 DEF RowsAge, RowAges, Ids, Row

\* Inserting adds a pending row and ages no other.
LEMMA InsertAges ==
  ASSUME TypeInv, NEW w \in Workers, IssueInsert(w)
  PROVE  RowsAge
<1> DEFINE h == [accepted |-> 0, tries |-> 0, lost |-> 0,
                 saw |-> op[w].rows, checked |-> op[w].checked]
<1>1. /\ otps \in Seq(Row) /\ hist \in Seq(History) /\ Len(hist) = Len(otps)
      /\ op[w] \in IssueOp /\ clock \in Nat /\ Len(otps) \in Nat
  BY WhichOp DEF IssueInsert, TypeInv, OtpTypeOK
<1>2. NewRow(w) \in Row /\ h \in History
  BY <1>1, NewRowTyped
<1>3. /\ Len(otps') = Len(otps) + 1
      /\ otps'[Len(otps) + 1] = NewRow(w) /\ hist'[Len(otps) + 1] = h
      /\ \A j \in 1..Len(otps) : otps'[j] = otps[j] /\ hist'[j] = hist[j]
  BY <1>1, <1>2, AppendRow DEF IssueInsert
<1>4. \A i \in Ids : otps[i] \in Row BY <1>1, ElementOfSeq DEF Ids
<1>5. Ids \subseteq Ids' /\ \A i \in Ids' \ Ids : i = Len(otps) + 1
  BY <1>1, <1>3 DEF Ids
<1>6. NewRow(w).status = "pending" /\ h.accepted = 0 BY DEF NewRow
<1>7. \A i \in Ids : RowAges(i) BY <1>3, <1>4 DEF RowAges, Ids, Row
<1>8. QED BY <1>3, <1>5, <1>6, <1>7 DEF RowsAge

\* Committing consumes what the new row superseded and makes it visible.
LEMMA CommitAges ==
  ASSUME TypeInv, NEW w \in Workers, IssueCommit(w)
  PROVE  RowsAge
<1>1. \A i \in Ids : otps[i] \in Row BY ElementOfSeq DEF TypeInv, OtpTypeOK, Ids
<1>2. /\ op[w] \in IssueOp /\ op[w].rows \subseteq Ids
      /\ op[w].row \in Ids \ op[w].rows /\ hist[op[w].row].saw \subseteq op[w].rows
  BY WhichOp DEF IssueCommit, TypeInv, LocalsOK
<1>3. \A i \in Ids : otps'[i] = IF i = op[w].row THEN [otps[i] EXCEPT !.status = "committed"]
                               ELSE IF i \in op[w].rows THEN [otps[i] EXCEPT !.consumed = TRUE]
                               ELSE otps[i]
  BY DEF IssueCommit, Committed
<1>4. ASSUME NEW s \in op[w].rows PROVE otps'[s].consumed
  <2>1. otps[s] \in Row /\ otps'[s] = [otps[s] EXCEPT !.consumed = TRUE]
    BY <1>1, <1>2, <1>3
  <2>2. QED BY <2>1 DEF Row
<1>5. ASSUME NEW i \in Ids PROVE RowAges(i)
  <2>1. /\ otps[i] \in Row
        /\ \/ i = op[w].row /\ otps'[i] = [otps[i] EXCEPT !.status = "committed"]
           \/ i # op[w].row /\ otps'[i] = [otps[i] EXCEPT !.consumed = TRUE]
           \/ otps'[i] = otps[i]
    BY <1>1, <1>3
  <2>2. otps'[i].attempts = otps[i].attempts
    BY <2>1 DEF Row
  <2>3. otps[i].consumed => otps'[i].consumed
    BY <2>1 DEF Row
  <2>4. i # op[w].row => otps'[i].status = otps[i].status
    BY <2>1 DEF Row
  <2>5. hist' = hist BY DEF IssueCommit
  <2>6. QED BY <1>2, <1>4, <2>1, <2>2, <2>3, <2>4, <2>5 DEF RowAges, Row
<1>6. Ids' = Ids BY CommittedTable DEF IssueCommit, Ids
<1>7. QED BY <1>5, <1>6 DEF RowsAge

\* Rolling back takes the inserted row away and nothing else.
LEMMA FailAges ==
  ASSUME TypeInv, NEW w \in Workers, IssueFail(w)
  PROVE  RowsAge
<1>1. CASE op[w].pc # "commit" BY <1>1, SameTablesAge DEF IssueFail
<1>2. CASE op[w].pc = "commit"
  <2> DEFINE j == op[w].row
             o == [otps[j] EXCEPT !.status = "rolledback"]
  <2>1. j \in Ids /\ j \in 1..Len(otps) BY <1>2 DEF TypeInv, LocalsOK, Ids
  <2>2. \A i \in Ids : otps[i] \in Row BY ElementOfSeq DEF TypeInv, OtpTypeOK, Ids
  <2>3. /\ o \in Row /\ o.consumed = otps[j].consumed /\ o.attempts = otps[j].attempts
        /\ o.status = "rolledback"
    BY <2>1, <2>2 DEF Row
  <2>4. otps' = [otps EXCEPT ![j] = o] /\ hist' = hist BY <1>2 DEF IssueFail
  <2> HIDE DEF o, j
  <2>5. Len(otps') = Len(otps) /\ otps'[j] = o /\ \A i \in 1..Len(otps) : i # j => otps'[i] = otps[i]
    BY <2>1, <2>3, <2>4, UpdateRow DEF TypeInv, OtpTypeOK
  <2>6. \A i \in Ids : RowAges(i) BY <2>2, <2>3, <2>4, <2>5 DEF RowAges, Ids, Row
  <2>7. QED BY <2>5, <2>6 DEF RowsAge, Ids
<1>3. QED BY <1>1, <1>2

\* A comparison that fails changes only the history of guesses.
LEMMA ReadAges ==
  ASSUME TypeInv, NEW w \in Workers, NEW k \in Keys, NEW guess \in Guesses,
         VerifyRead(w, k, guess)
  PROVE  RowsAge
<1>1. CASE UNCHANGED hist BY <1>1, SameTablesAge DEF VerifyRead
<1>2. ASSUME NEW i \in Latest(Usable(k)), hist' = [hist EXCEPT ![i].tries = @ + 1]
      PROVE  RowsAge
  <2> DEFINE h == [hist[i] EXCEPT !.tries = @ + 1]
  <2>1. i \in Ids /\ i \in 1..Len(hist)
    BY DEF Latest, Usable, Unconsumed, Stored, Ids, TypeInv, OtpTypeOK
  <2>2. hist[i] \in History BY <2>1, ElementOfSeq DEF TypeInv, OtpTypeOK
  <2>3. h \in History /\ h.saw = hist[i].saw /\ h.accepted = hist[i].accepted
    BY <2>2 DEF History
  <2>4. hist' = [hist EXCEPT ![i] = h] BY <1>2
  <2> HIDE DEF h
  <2>5. hist'[i] = h /\ \A j \in 1..Len(hist) : j # i => hist'[j] = hist[j]
    BY <2>1, <2>3, <2>4, UpdateRow DEF TypeInv, OtpTypeOK
  <2>6. \A j \in Ids : otps[j] \in Row BY ElementOfSeq DEF TypeInv, OtpTypeOK, Ids
  <2>7. otps' = otps BY DEF VerifyRead
  <2>8. ASSUME NEW j \in Ids PROVE RowAges(j)
    <3>1. hist'[j].saw = hist[j].saw /\ hist'[j].accepted = hist[j].accepted
      BY <2>3, <2>5 DEF Ids, TypeInv, OtpTypeOK
    <3>2. QED BY <2>6, <2>7, <3>1 DEF RowAges, Row
  <2>9. QED BY <2>7, <2>8 DEF RowsAge, Ids
<1>3. QED BY <1>1, <1>2 DEF VerifyRead

\* Recording a wrong guess raises attempts by one.
LEMMA MissAges ==
  ASSUME TypeInv, NEW w \in Workers, VerifyMiss(w) \/ VerifyMissFails(w)
  PROVE  RowsAge
<1> DEFINE i == op[w].row
<1>1. i \in 1..Len(otps) /\ i \in 1..Len(hist)
  BY WhichOp DEF VerifyMiss, VerifyMissFails, TypeInv, OtpTypeOK, LocalsOK, Ids
<1>2. /\ \A j \in Ids : otps[j] \in Row
      /\ otps[i] \in Row /\ hist[i] \in History
  BY <1>1, ElementOfSeq DEF TypeInv, OtpTypeOK, Ids
<1>3. CASE VerifyMiss(w)
  <2> DEFINE o == [otps[i] EXCEPT !.attempts = @ + 1]
  <2>1. /\ o \in Row /\ o.attempts = otps[i].attempts + 1 /\ o.consumed = otps[i].consumed
        /\ o.status = otps[i].status
    BY <1>2 DEF Row
  <2>2. otps' = [otps EXCEPT ![i] = o] /\ hist' = hist BY <1>3 DEF VerifyMiss, CountMiss
  <2> HIDE DEF o, i
  <2>3. Len(otps') = Len(otps) /\ otps'[i] = o /\ \A j \in 1..Len(otps) : j # i => otps'[j] = otps[j]
    BY <1>1, <2>1, <2>2, UpdateRow DEF TypeInv, OtpTypeOK
  <2>4. ASSUME NEW j \in Ids PROVE RowAges(j)
    <3>1. CASE j = i BY <1>2, <2>1, <2>2, <2>3, <3>1 DEF RowAges, Row
    <3>2. CASE j # i BY <1>2, <2>2, <2>3, <3>2 DEF RowAges, Row, Ids
    <3>3. QED BY <3>1, <3>2
  <2>5. QED BY <2>3, <2>4 DEF RowsAge, Ids
<1>4. CASE VerifyMissFails(w)
  <2> DEFINE h == [hist[i] EXCEPT !.lost = @ + 1]
  <2>1. h \in History /\ h.saw = hist[i].saw /\ h.accepted = hist[i].accepted
    BY <1>2 DEF History
  <2>2. hist' = [hist EXCEPT ![i] = h] /\ otps' = otps BY <1>4 DEF VerifyMissFails
  <2> HIDE DEF h, i
  <2>3. hist'[i] = h /\ \A j \in 1..Len(hist) : j # i => hist'[j] = hist[j]
    BY <1>1, <2>1, <2>2, UpdateRow DEF TypeInv, OtpTypeOK
  <2>4. ASSUME NEW j \in Ids PROVE RowAges(j)
    <3>1. hist'[j].saw = hist[j].saw /\ hist'[j].accepted = hist[j].accepted
      BY <2>1, <2>3 DEF Ids, TypeInv, OtpTypeOK
    <3>2. QED BY <1>2, <2>2, <3>1 DEF RowAges, Row
  <2>5. QED BY <2>2, <2>4 DEF RowsAge, Ids
<1>5. QED BY <1>3, <1>4

\* Consuming a row sets consumed; it is accepted only if it was not consumed before.
LEMMA ConsumeAges ==
  ASSUME TypeInv, NEW w \in Workers, VerifyConsume(w) \/ VerifyConsumeFails(w)
  PROVE  RowsAge
<1> DEFINE i == op[w].row
           o == [otps[i] EXCEPT !.consumed = TRUE]
           h == [hist[i] EXCEPT !.accepted = @ + 1]
<1>1. i \in 1..Len(otps) /\ i \in 1..Len(hist)
  BY WhichOp DEF VerifyConsume, VerifyConsumeFails, TypeInv, OtpTypeOK, LocalsOK, Ids
<1>2. /\ \A j \in Ids : otps[j] \in Row
      /\ otps[i] \in Row /\ hist[i] \in History
  BY <1>1, ElementOfSeq DEF TypeInv, OtpTypeOK, Ids
<1>3. /\ o \in Row /\ o.consumed /\ o.attempts = otps[i].attempts
      /\ o.status = otps[i].status
  BY <1>2 DEF Row
<1>4. h \in History /\ h.saw = hist[i].saw /\ h.accepted = hist[i].accepted + 1
  BY <1>2, AcceptedTyped
<1>5. \/ UNCHANGED <<otps, hist>>
      \/ otps' = [otps EXCEPT ![i] = o] /\ hist' = hist
      \/ ~otps[i].consumed /\ otps' = [otps EXCEPT ![i] = o] /\ hist' = [hist EXCEPT ![i] = h]
  BY DEF VerifyConsume, VerifyConsumeFails, Consumable
<1> HIDE DEF o, h, i
<1>6. CASE UNCHANGED <<otps, hist>> BY <1>6, SameTablesAge
<1>7. ASSUME otps' = [otps EXCEPT ![i] = o],
             hist' = hist \/ (~otps[i].consumed /\ hist' = [hist EXCEPT ![i] = h])
      PROVE  RowsAge
  <2>1. Len(otps') = Len(otps) /\ otps'[i] = o /\ \A j \in 1..Len(otps) : j # i => otps'[j] = otps[j]
    BY <1>1, <1>3, <1>7, UpdateRow DEF TypeInv, OtpTypeOK
  <2>2. /\ \A j \in 1..Len(hist) : j # i => hist'[j] = hist[j]
        /\ hist'[i] = hist[i] \/ (~otps[i].consumed /\ hist'[i] = h)
    BY <1>1, <1>4, <1>7, UpdateRow DEF TypeInv, OtpTypeOK
  <2>3. ASSUME NEW j \in Ids PROVE RowAges(j)
    <3>1. CASE j = i BY <1>2, <1>3, <1>4, <2>1, <2>2, <3>1 DEF RowAges, Row
    <3>2. CASE j # i
      <4>1. otps'[j] = otps[j] /\ hist'[j] = hist[j]
        BY <2>1, <2>2, <3>2 DEF Ids, TypeInv, OtpTypeOK
      <4>2. QED BY <1>2, <4>1 DEF RowAges, Row
    <3>3. QED BY <3>1, <3>2
  <2>4. QED BY <2>1, <2>3 DEF RowsAge, Ids
<1>8. QED BY <1>5, <1>6, <1>7

\* Every step of the store only ages its rows.
LEMMA NextAges == ASSUME TypeInv, [OtpNext]_otpVars PROVE RowsAge
<1>1. ASSUME UNCHANGED <<otps, hist>> PROVE RowsAge BY <1>1, SameTablesAge
<1>2. ASSUME NEW w \in Workers, NEW k \in Keys, IssueStart(w, k) PROVE RowsAge
  BY <1>1, <1>2 DEF IssueStart
<1>3. ASSUME NEW w \in Workers, IssueStep(w) PROVE RowsAge
  BY <1>1, <1>3, InsertAges, CommitAges DEF IssueStep, IssueCount, IssueUpdate, IssueLock
<1>4. QED
  BY <1>1, <1>2, <1>3, FailAges, ReadAges, MissAges, ConsumeAges, NextKinds
     DEF Call, VerifyStep, Fault, Tick, otpVars

-----------------------------------------------------------------------------
(* What the codes owe their holders *)

\* The inductive invariant behind the results on codes: a code is consumed once accepted,
\* and so is everything a committed code superseded.
CodesInv == TypeInv /\ AcceptedOnce /\ IssueInvalidatesWhatItSaw

\* Initially there is no code.
LEMMA InitCodes == OtpInit => CodesInv
<1>1. SUFFICES ASSUME OtpInit PROVE CodesInv OBVIOUS
<1>2. TypeInv BY <1>1, InitTyped
<1>3. Ids = {} BY <1>1 DEF OtpInit, Ids
<1>4. QED BY <1>2, <1>3 DEF CodesInv, AcceptedOnce, IssueInvalidatesWhatItSaw

\* Ageing keeps a code from being accepted twice.
LEMMA AgeAcceptedOnce ==
  ASSUME TypeInv, AcceptedOnce, RowsAge
  PROVE  AcceptedOnce'
<1>1. ASSUME NEW i \in Ids
      PROVE  /\ hist'[i].accepted <= 1
             /\ hist'[i].accepted = 1 => otps'[i].consumed
  <2>1. hist[i].accepted \in Nat
    <3>1. hist[i] \in History BY ElementOfSeq DEF TypeInv, OtpTypeOK, Ids
    <3>2. QED BY <3>1 DEF History
  <2>2. /\ hist[i].accepted <= 1
        /\ hist[i].accepted = 1 => otps[i].consumed
    BY DEF AcceptedOnce
  <2>3. RowAges(i) BY DEF RowsAge
  <2>4. CASE hist'[i].accepted = hist[i].accepted BY <2>1, <2>2, <2>3, <2>4 DEF RowAges
  <2>5. CASE hist'[i].accepted = hist[i].accepted + 1 /\ ~otps[i].consumed /\ otps'[i].consumed
    BY <2>1, <2>2, <2>5
  <2>6. QED BY <2>3, <2>4, <2>5 DEF RowAges
<1>2. ASSUME NEW i \in Ids' \ Ids
      PROVE  /\ hist'[i].accepted <= 1
             /\ hist'[i].accepted = 1 => otps'[i].consumed
  <2>1. hist'[i].accepted = 0 BY DEF RowsAge
  <2>2. QED BY <2>1
<1>3. QED BY <1>1, <1>2 DEF AcceptedOnce

\* Ageing keeps every superseded code consumed.
LEMMA AgeInvalidates ==
  ASSUME TypeInv, IssueInvalidatesWhatItSaw, RowsAge
  PROVE  IssueInvalidatesWhatItSaw'
<1>1. SUFFICES ASSUME NEW j \in Ids', otps'[j].status = "committed", NEW i \in hist'[j].saw
               PROVE  otps'[i].consumed
  BY DEF IssueInvalidatesWhatItSaw
<1>2. j \in Ids BY <1>1 DEF RowsAge
<1>3. RowAges(j) /\ hist'[j].saw = hist[j].saw BY <1>2 DEF RowsAge, RowAges
<1>4. i \in Ids BY <1>1, <1>2, <1>3 DEF TypeInv, LocalsOK
<1>5. CASE otps[j].status = "committed"
  <2>1. otps[i].consumed BY <1>2, <1>3, <1>5 DEF IssueInvalidatesWhatItSaw
  <2>2. QED BY <1>4, <2>1 DEF RowsAge, RowAges
<1>6. CASE \A s \in hist[j].saw : otps'[s].consumed BY <1>3, <1>6
<1>7. QED BY <1>1, <1>3, <1>5, <1>6 DEF RowAges

\* Every step keeps the invariant of the codes.
LEMMA NextCodes == ASSUME CodesInv, [OtpNext]_otpVars PROVE CodesInv'
BY NextTyped, NextAges, AgeAcceptedOnce, AgeInvalidates DEF CodesInv

\* The invariant holds in every behaviour.
LEMMA CodesAlways == OtpSpec => []CodesInv
BY InitCodes, NextCodes, PTL DEF OtpSpec

\* No code is accepted twice, whatever requests present it together (otp.go:117-121).
THEOREM CodeAcceptedOnce == OtpSpec => []AcceptedOnce
<1>1. CodesInv => AcceptedOnce BY DEF CodesInv
<1>2. QED BY <1>1, CodesAlways, PTL

\* Once a new code is committed, every code its transaction found unconsumed is consumed,
\* however the transactions overlapped (otp.go:77-90).
THEOREM IssueInvalidates == OtpSpec => []IssueInvalidatesWhatItSaw
<1>1. CodesInv => IssueInvalidatesWhatItSaw BY DEF CodesInv
<1>2. QED BY <1>1, CodesAlways, PTL

\* A consumed code stays consumed and attempts never go down (otp.go:110, 118).
THEOREM OnlyAge == OtpSpec => RowsOnlyAge
<1>1. ASSUME CodesInv, [OtpNext]_otpVars
      PROVE  [\A i \in Ids : /\ otps'[i].attempts >= otps[i].attempts
                             /\ otps[i].consumed => otps'[i].consumed]_otpVars
  BY <1>1, NextAges DEF CodesInv, RowsAge, RowAges
<1>2. QED BY <1>1, CodesAlways, PTL DEF OtpSpec, RowsOnlyAge

\* A superseded code is never accepted, even by a verify that read it before it was
\* superseded (otp.go:98-123 against 77-90).
THEOREM SupersededNeverAccepted == OtpSpec => NoSupersededAccept
<1>1. ASSUME CodesInv, [OtpNext]_otpVars
      PROVE  [\A i \in Ids : hist'[i].accepted > hist[i].accepted =>
                \A j \in Ids : otps[j].status = "committed" => i \notin hist[j].saw]_otpVars
  <2>1. SUFFICES ASSUME NEW i \in Ids, hist'[i].accepted > hist[i].accepted,
                        NEW j \in Ids, otps[j].status = "committed", i \in hist[j].saw
                 PROVE  FALSE
    OBVIOUS
  <2>2. otps[i].consumed BY <1>1, <2>1 DEF CodesInv, IssueInvalidatesWhatItSaw
  <2>3. RowAges(i) BY <1>1, NextAges DEF CodesInv, RowsAge
  <2>4. hist[i].accepted \in Nat
    <3>1. hist[i] \in History BY <1>1, ElementOfSeq DEF CodesInv, TypeInv, OtpTypeOK, Ids
    <3>2. QED BY <3>1 DEF History
  <2>5. QED BY <2>1, <2>2, <2>3, <2>4 DEF RowAges
<1>2. QED BY <1>1, CodesAlways, PTL DEF OtpSpec, NoSupersededAccept

-----------------------------------------------------------------------------
(* Who owns a pending row, and what the limits charge *)

IssuePlaces == {"count", "update", "lock", "commit"}

\* The places of issue before the row is inserted.
RoomPlaces == {"count", "update", "lock"}

Room == Len(otps) + Cardinality({v \in Workers : Issuing(v)}) < MaxCodes

\* What the locals of a worker rely on: rows to consume or to verify are committed, the row
\* to commit is the worker's own, and its time was read earlier.
InPlace(r, o, h, t) ==
  /\ r.pc \in IssuePlaces => /\ r.now <= t
                             /\ \A i \in r.rows : o[i].status = "committed"
  /\ r.pc \in {"miss", "consume"} => o[r.row].status = "committed"
  /\ r.pc = "commit" => /\ o[r.row].status = "pending"
                        /\ o[r.row].key = r.key /\ h[r.row].checked = r.checked

AllInPlace == \A w \in Workers : InPlace(op[w], otps, hist, clock)

OwnsAlone ==
  \A v, w \in Workers :
    op[v].pc = "commit" /\ op[w].pc = "commit" /\ op[v].row = op[w].row => v = w

\* A pending row is fresh, and some worker is about to commit it.
PendingOwned ==
  \A i \in Ids : otps[i].status = "pending" =>
    /\ ~otps[i].consumed /\ hist[i].accepted = 0
    /\ \E w \in Workers : op[w].pc = "commit" /\ op[w].row = i

CreatedInOrder ==
  /\ \A i \in Ids : otps[i].created <= clock
  /\ \A i, j \in Ids : i <= j => otps[i].created <= otps[j].created

RowsInv == TypeInv /\ AllInPlace /\ OwnsAlone /\ PendingOwned /\ CreatedInOrder

\* The rows a limit has charged to an address or a key so far, and the calls that passed
\* the limit and may still add one.
Window(limit) == IF limit = "hourly" THEN Hour ELSE Cooldown

Allowance(limit) == IF limit = "hourly" THEN MaxPerHour - 1 ELSE 0

Subject(limit, k) == IF limit = "hourly" THEN k[1] ELSE k

Charged(limit, s) ==
  {i \in Ids : /\ otps[i].status = "committed"
               /\ limit \in hist[i].checked
               /\ Subject(limit, otps[i].key) = s
               /\ otps[i].created > clock - Window(limit)}

Passing(limit, s) ==
  {w \in Workers : /\ op[w].pc \in IssuePlaces
                   /\ limit \in op[w].checked
                   /\ Subject(limit, op[w].key) = s}

Passed(limit, k) == Cardinality(Charged(limit, Subject(limit, k))) <= Allowance(limit)

LimitsInv ==
  \A limit \in Limits, s \in Emails \cup Keys :
    Cardinality(Charged(limit, s)) + Cardinality(Passing(limit, s))
      <= Allowance(limit) + Cardinality(Workers)

\* What a step of worker w does to a row that is there already.
RowMoves(w, i) ==
  /\ otps'[i].key = otps[i].key /\ otps'[i].created = otps[i].created
  /\ hist'[i].checked = hist[i].checked
  /\ \/ op[w].pc = "commit" /\ i = op[w].row /\ otps'[i].status # "pending"
     \/ /\ otps'[i].status = otps[i].status
        /\ otps[i].status = "pending" => /\ otps'[i].consumed = otps[i].consumed
                                         /\ hist'[i].accepted = hist[i].accepted

\* What a step of worker w does to a row it adds.
RowAdded(w, i) ==
  /\ op'[w].pc = "commit" /\ op'[w].row = i
  /\ op[w].pc # "commit"
  /\ otps'[i].created = clock /\ ~otps'[i].consumed /\ hist'[i].accepted = 0
  /\ otps'[i].status = "pending"

\* What any step of worker w does: a limit is noted as checked only when it was passed.
Moves(w) ==
  /\ \A v \in Workers : v # w => op'[v] = op[v]
  /\ clock' = clock
  /\ \/ Len(otps') = Len(otps)
     \/ /\ op[w].pc = "lock" /\ op'[w].pc = "commit"
        /\ Len(otps') = Len(otps) + 1
  /\ op'[w].pc \in RoomPlaces => op[w].pc \in RoomPlaces \/ Room
  /\ \A i \in Ids : RowMoves(w, i)
  /\ \A i \in Ids' \ Ids : RowAdded(w, i)
  /\ op[w].pc = "commit" => op'[w].pc = "idle" /\ otps'[op[w].row].status # "pending"
  /\ op'[w].pc = "commit" => op'[w].row \in Ids' \ Ids
  /\ InPlace(op'[w], otps', hist', clock')
  /\ op'[w].pc \in IssuePlaces =>
       \A limit \in op'[w].checked :
         \/ op[w].pc \in IssuePlaces /\ limit \in op[w].checked /\ op'[w].key = op[w].key
         \/ Passed(limit, op'[w].key)

\* Every row has the type of a row, and its history that of a history.
LEMMA RowTyped ==
  ASSUME TypeInv, NEW i \in Ids
  PROVE  otps[i] \in Row /\ hist[i] \in History
BY ElementOfSeq DEF TypeInv, OtpTypeOK, Ids

\* Any set of rows is finite.
LEMMA RowsFinite ==
  ASSUME TypeInv, NEW S \in SUBSET Ids
  PROVE  IsFiniteSet(S) /\ Cardinality(S) \in Nat
<1>1. Len(otps) \in Nat
  BY DEF TypeInv, OtpTypeOK
<1>2. IsFiniteSet(1..Len(otps))
  BY <1>1, FS_Interval
<1>3. QED
  BY <1>2, FS_Subset, FS_CardinalityType DEF Ids

\* A worker that moves without touching the tables, other than the count of guesses.
LEMMA QuietMoves ==
  ASSUME RowsInv, NEW w \in Workers, NEW r, Goto(w, r), clock' = clock, otps' = otps,
         \A i \in Ids : hist'[i].checked = hist[i].checked /\ hist'[i].accepted = hist[i].accepted,
         op[w].pc # "commit", r.pc # "commit", InPlace(r, otps, hist, clock),
         r.pc \in RoomPlaces => op[w].pc \in RoomPlaces \/ Room,
         r.pc \in IssuePlaces =>
           \A limit \in r.checked :
             \/ op[w].pc \in IssuePlaces /\ limit \in op[w].checked /\ r.key = op[w].key
             \/ Passed(limit, r.key)
  PROVE  Moves(w)
<1>1. op'[w] = r /\ \A v \in Workers : v # w => op'[v] = op[v]
  BY DEF Goto, RowsInv, TypeInv, OtpTypeOK
<1>2. Ids' = Ids /\ Len(otps') = Len(otps) /\ Len(otps) \in Nat
  BY DEF Ids, RowsInv, TypeInv, OtpTypeOK
<1>3. \A i \in Ids : RowMoves(w, i)
  BY DEF RowMoves
<1>4. InPlace(r, otps', hist', clock')
  BY DEF InPlace
<1>5. QED
  BY <1>1, <1>2, <1>3, <1>4 DEF Moves

\* A worker that returns relies on nothing.
LEMMA ReturnInPlace ==
  ASSUME NEW result, NEW code, NEW o, NEW h, NEW t
  PROVE  InPlace([pc |-> "idle", result |-> result, code |-> code], o, h, t)
BY DEF InPlace, IssuePlaces

\* Returning without touching the tables moves only the worker.
LEMMA ReturnMoves ==
  ASSUME RowsInv, NEW w \in Workers, NEW result, NEW code, Return(w, result, code),
         UNCHANGED <<clock, otps, hist>>, op[w].pc # "commit"
  PROVE  Moves(w)
<1>1. InPlace([pc |-> "idle", result |-> result, code |-> code], otps, hist, clock)
  BY ReturnInPlace
<1>2. QED
  BY <1>1, QuietMoves DEF Return, IssuePlaces, RoomPlaces

\* A finite set of numbers has a largest: the parts above its members cannot shrink for ever.
LEMMA HasLargest ==
  ASSUME NEW S \in SUBSET Nat, IsFiniteSet(S), S # {}
  PROVE  \E m \in S : \A j \in S : j <= m
<1> DEFINE Above(x) == {y \in S : y > x}
           parts == {Above(x) : x \in S}
<1>1. /\ parts # {} /\ parts \subseteq FiniteSubsetsOf(S)
      /\ IsWellFoundedOn(StrictSubsetOrdering(S), FiniteSubsetsOf(S))
  <2>1. parts \subseteq FiniteSubsetsOf(S)
    BY FS_FiniteSubsetsOfFinite
  <2>2. IsWellFoundedOn(StrictSubsetOrdering(S), FiniteSubsetsOf(S))
    BY FS_StrictSubsetOrderingWellFounded
  <2>3. parts # {}
    OBVIOUS
  <2>4. QED BY <2>1, <2>2, <2>3
<1>2. PICK least \in parts : \A B \in parts : <<B, least>> \notin StrictSubsetOrdering(S)
  <2> HIDE DEF parts
  <2>1. QED BY <1>1, WFMin
<1>3. PICK m \in S : least = Above(m)
  OBVIOUS
<1>4. ASSUME NEW j \in S, j > m PROVE FALSE
  <2>1. j \in Nat /\ m \in Nat /\ \A z \in S : z \in Nat
    OBVIOUS
  <2>2. ~(j > j) /\ \A z \in S : z > j => z > m
    BY <1>4, <2>1
  <2>3. /\ Above(j) \subseteq least /\ Above(j) # least /\ Above(j) \in parts
        /\ Above(j) \in SUBSET S /\ least \in SUBSET S
    BY <1>3, <1>4, <2>2
  <2> HIDE DEF Above, parts
  <2>4. <<Above(j), least>> \in StrictSubsetOrdering(S)
    BY <2>3 DEF StrictSubsetOrdering
  <2>5. QED BY <1>2, <2>3, <2>4
<1>5. \A j \in S : j <= m
  BY <1>4
<1>6. QED BY <1>5

\* When a key is not cooling down, no code of its is inside the cooldown.
LEMMA NotCooling ==
  ASSUME RowsInv, NEW k \in Keys, ~CoolingDown(k)
  PROVE  Charged("cooldown", k) = {}
<1> SUFFICES ASSUME NEW i \in Charged("cooldown", k) PROVE FALSE
  OBVIOUS
<1>1. i \in Stored(k) /\ i \in Ids /\ otps[i].created > clock - Cooldown
  BY DEF Charged, Stored, Subject, Window
<1>2. \A j \in Ids : otps[j].created \in Nat
  BY RowTyped DEF RowsInv, Row
<1>3. Len(otps) \in Nat /\ clock \in Nat /\ Cooldown \in Nat
  BY LimitsPositive DEF RowsInv, TypeInv, OtpTypeOK
<1>4. \E m \in Stored(k) : \A j \in Stored(k) : j <= m
  <2>1. Stored(k) \in SUBSET Ids /\ Stored(k) \in SUBSET Nat /\ Stored(k) # {}
    BY <1>1, <1>3 DEF Stored, Ids
  <2>2. QED
    BY <2>1, RowsFinite, HasLargest DEF RowsInv
<1>5. PICK m \in Latest(Stored(k)) : i <= m
  BY <1>1, <1>4 DEF Latest
<1>6. m \in Ids
  BY DEF Latest, Stored
<1>7. otps[i].created <= otps[m].created
  BY <1>1, <1>5, <1>6 DEF RowsInv, CreatedInOrder
<1>8. clock - otps[m].created < Cooldown
  BY <1>1, <1>2, <1>3, <1>6, <1>7
<1>9. QED
  BY <1>5, <1>8 DEF CoolingDown

\* Reading the latest code notes the cooldown as checked only when the key is not in it.
LEMMA IssueStartMoves ==
  ASSUME RowsInv, NEW w \in Workers, NEW k \in Keys, IssueStart(w, k)
  PROVE  Moves(w)
<1>1. op[w].pc # "commit" /\ Room /\ UNCHANGED <<otps, clock, hist>>
  BY DEF IssueStart, Room
<1>2. CASE Return(w, "cooldown", 0)
  BY <1>1, <1>2, ReturnMoves
<1>3. ASSUME NEW c \in SUBSET Limits, c # {} => c = {"cooldown"} /\ ~CoolingDown(k),
             Goto(w, [pc |-> "count", key |-> k, now |-> clock, rows |-> {},
                      queue |-> <<>>, row |-> 0, checked |-> c])
      PROVE  Moves(w)
  <2> DEFINE r == [pc |-> "count", key |-> k, now |-> clock, rows |-> {},
                   queue |-> <<>>, row |-> 0, checked |-> c]
  <2>1. r.pc = "count" /\ r.key = k /\ r.checked = c
    OBVIOUS
  <2>2. InPlace(r, otps, hist, clock)
    BY DEF InPlace, RowsInv, TypeInv, OtpTypeOK
  <2>3. ASSUME NEW limit \in c PROVE Passed(limit, k)
    <3>1. limit = "cooldown" /\ Charged("cooldown", k) = {}
      BY <1>3, <2>3, NotCooling
    <3>2. QED
      BY <3>1, FS_EmptySet DEF Passed, Subject, Allowance
  <2> HIDE DEF r
  <2>4. Goto(w, r)
    BY <1>3 DEF r
  <2>5. QED
    BY <1>1, <2>1, <2>2, <2>3, <2>4, QuietMoves
<1>4. PICK readOk \in BOOLEAN :
        IF readOk /\ CoolingDown(k)
        THEN Return(w, "cooldown", 0)
        ELSE Goto(w, [pc |-> "count", key |-> k, now |-> clock, rows |-> {},
                      queue |-> <<>>, row |-> 0, checked |-> IF readOk THEN {"cooldown"} ELSE {}])
  BY DEF IssueStart
<1>5. (IF readOk THEN {"cooldown"} ELSE {}) \in SUBSET Limits
  BY DEF Limits
<1>6. QED
  BY <1>2, <1>3, <1>4, <1>5

\* Below the hourly limit, fewer codes than the limit were issued in the last hour.
LEMMA NotOverLimit ==
  ASSUME RowsInv, NEW k \in Keys, NEW now \in Nat, now <= clock, ~OverHourlyLimit(k, now)
  PROVE  Passed("hourly", k)
<1> DEFINE C == Charged("hourly", k[1])
           R == RecentFor(k[1], now)
<1>1. Len(otps) \in Nat /\ clock \in Nat /\ Hour \in Nat /\ MaxPerHour \in Nat
  BY LimitsPositive DEF RowsInv, TypeInv, OtpTypeOK
<1>2. \A i \in Ids : otps[i].created \in Nat
  BY RowTyped DEF RowsInv, Row
<1>3. C \in SUBSET R
  BY <1>1, <1>2 DEF Charged, RecentFor, Subject, Window
<1>4. R \in SUBSET Ids
  BY DEF RecentFor
<1> HIDE DEF C, R
<1>5. IsFiniteSet(R)
  BY <1>4, RowsFinite DEF RowsInv
<1>6. Cardinality(C) <= Cardinality(R) /\ Cardinality(C) \in Nat /\ Cardinality(R) \in Nat
  BY <1>3, <1>5, FS_Subset, FS_CardinalityType
<1>7. ~(Cardinality(R) >= MaxPerHour)
  BY DEF OverHourlyLimit, R
<1>8. Cardinality(C) <= MaxPerHour - 1
  BY <1>1, <1>6, <1>7
<1>9. QED
  BY <1>8 DEF C, Passed, Subject, Allowance

\* A worker with a transaction or a count ahead of it has the locals of issue.
LEMMA IssueLocals ==
  ASSUME RowsInv, NEW w \in Workers, op[w].pc \in IssuePlaces
  PROVE  /\ op[w] \in IssueOp /\ op[w].now <= clock /\ op[w].rows \subseteq Ids
         /\ \A i \in op[w].rows : otps[i].status = "committed"
         /\ clock \in Nat
<1>1. op[w] \in IssueOp
  BY WhichOp DEF IssuePlaces, RowsInv, TypeInv
<1>2. QED
  BY <1>1 DEF RowsInv, TypeInv, OtpTypeOK, LocalsOK, AllInPlace, InPlace

\* Counting notes the hourly limit as checked only when it is not reached.
LEMMA IssueCountMoves ==
  ASSUME RowsInv, NEW w \in Workers, IssueCount(w)
  PROVE  Moves(w)
<1>1. /\ op[w] \in IssueOp /\ op[w].now <= clock /\ op[w].rows \subseteq Ids
      /\ \A i \in op[w].rows : otps[i].status = "committed"
      /\ op[w].pc = "count" /\ UNCHANGED <<otps, clock, hist>>
  BY IssueLocals DEF IssueCount, IssuePlaces
<1>2. CASE Return(w, "hourly_limit", 0)
  BY <1>1, <1>2, ReturnMoves
<1>3. ASSUME NEW c \in SUBSET Limits,
             c # {} => c = {"hourly"} /\ ~OverHourlyLimit(op[w].key, op[w].now),
             Goto(w, [op[w] EXCEPT !.pc = "update", !.checked = @ \cup c])
      PROVE  Moves(w)
  <2> DEFINE r == [op[w] EXCEPT !.pc = "update", !.checked = @ \cup c]
  <2>1. /\ r.pc = "update" /\ r.key = op[w].key /\ r.checked = op[w].checked \cup c
        /\ r.now = op[w].now /\ r.rows = op[w].rows
    BY <1>1 DEF IssueOp
  <2> HIDE DEF r
  <2>2. InPlace(r, otps, hist, clock)
    BY <1>1, <2>1 DEF InPlace
  <2>3. ASSUME NEW limit \in c PROVE Passed(limit, op[w].key)
    <3>1. /\ limit = "hourly" /\ ~OverHourlyLimit(op[w].key, op[w].now)
          /\ op[w].key \in Keys /\ op[w].now \in Nat
      BY <1>1, <1>3, <2>3 DEF IssueOp
    <3>2. QED
      BY <1>1, <3>1, NotOverLimit
  <2>4. Goto(w, r)
    BY <1>3 DEF r
  <2>5. op[w].pc \in IssuePlaces /\ op[w].pc \in RoomPlaces
    BY <1>1 DEF IssuePlaces, RoomPlaces
  <2>6. QED
    BY <1>1, <2>1, <2>2, <2>3, <2>4, <2>5, QuietMoves
<1>4. PICK countOk \in BOOLEAN :
        IF countOk /\ OverHourlyLimit(op[w].key, op[w].now)
        THEN Return(w, "hourly_limit", 0)
        ELSE Goto(w, [op[w] EXCEPT !.pc = "update",
                                   !.checked = @ \cup IF countOk THEN {"hourly"} ELSE {}])
  BY DEF IssueCount
<1>5. (IF countOk THEN {"hourly"} ELSE {}) \in SUBSET Limits
  BY DEF Limits
<1>6. QED
  BY <1>2, <1>3, <1>4, <1>5

\* The UPDATE takes committed rows only, and getting the locks takes no more.
LEMMA IssueUpdateMoves ==
  ASSUME RowsInv, NEW w \in Workers, IssueUpdate(w) \/ IssueLock(w)
  PROVE  Moves(w)
<1>1. /\ op[w] \in IssueOp /\ op[w].now <= clock /\ op[w].rows \subseteq Ids
      /\ \A i \in op[w].rows : otps[i].status = "committed"
      /\ op[w].pc \in {"update", "lock"} /\ UNCHANGED <<otps, clock, hist>>
  BY IssueLocals DEF IssueUpdate, IssueLock, IssuePlaces
<1>2. PICK r \in IssueOp : /\ Goto(w, r) /\ r.pc = "lock"
                           /\ r.rows = op[w].rows \/ r.rows = Unconsumed(op[w].key)
                           /\ r.key = op[w].key /\ r.now = op[w].now
                           /\ r.checked = op[w].checked
  BY IssueUpdateLocals, IssueLockLocals DEF RowsInv
<1>3. \A i \in r.rows : otps[i].status = "committed"
  BY <1>1, <1>2 DEF Unconsumed, Stored
<1>4. InPlace(r, otps, hist, clock)
  BY <1>1, <1>2, <1>3 DEF InPlace
<1>5. /\ op[w].pc \in IssuePlaces /\ op[w].pc \in RoomPlaces
      /\ op[w].pc # "commit" /\ r.pc # "commit"
  BY <1>1, <1>2 DEF IssuePlaces, RoomPlaces
<1>6. QED
  BY <1>1, <1>2, <1>4, <1>5, QuietMoves

\* The inserted row is the worker's own, and remembers what the worker checked.
LEMMA IssueInsertMoves ==
  ASSUME RowsInv, NEW w \in Workers, IssueInsert(w)
  PROVE  Moves(w)
<1> DEFINE n == Len(otps) + 1
           h == [accepted |-> 0, tries |-> 0, lost |-> 0,
                 saw |-> op[w].rows, checked |-> op[w].checked]
           r == [op[w] EXCEPT !.pc = "commit", !.row = n]
<1>1. /\ op[w] \in IssueOp /\ op[w].now <= clock /\ op[w].rows \subseteq Ids
      /\ \A i \in op[w].rows : otps[i].status = "committed"
      /\ op[w].pc = "lock" /\ clock' = clock
      /\ otps \in Seq(Row) /\ hist \in Seq(History) /\ Len(hist) = Len(otps)
      /\ clock \in Nat /\ Len(otps) \in Nat
  BY IssueLocals DEF IssueInsert, IssuePlaces, RowsInv, TypeInv, OtpTypeOK
<1>2. NewRow(w) \in Row /\ h \in History
  BY <1>1, NewRowTyped
<1>3. /\ Len(otps') = n
      /\ otps'[n] = NewRow(w) /\ hist'[n] = h
      /\ \A j \in 1..Len(otps) : otps'[j] = otps[j] /\ hist'[j] = hist[j]
  BY <1>1, <1>2, AppendRow DEF IssueInsert
<1>4. Ids' = 1..n /\ \A i \in Ids' \ Ids : i = n
  BY <1>1, <1>3 DEF Ids
<1>5. n \in Ids' \ Ids
  BY <1>1, <1>4 DEF Ids
<1>6. op'[w] = r /\ \A v \in Workers : v # w => op'[v] = op[v]
  BY DEF IssueInsert, Goto, RowsInv, TypeInv, OtpTypeOK
<1>7. /\ r.pc = "commit" /\ r.row = n /\ r.key = op[w].key /\ r.rows = op[w].rows
      /\ r.checked = op[w].checked /\ r.now = op[w].now
  BY <1>1 DEF IssueOp
<1>8. /\ otps'[n].key = op[w].key /\ otps'[n].created = clock /\ ~otps'[n].consumed
      /\ otps'[n].status = "pending"
      /\ hist'[n].accepted = 0 /\ hist'[n].checked = op[w].checked
  BY <1>3 DEF NewRow
<1> HIDE DEF r, n, h
<1>9. InPlace(r, otps', hist', clock')
  <2>1. \A i \in op[w].rows : otps'[i] = otps[i]
    BY <1>1, <1>3 DEF Ids
  <2>2. QED
    BY <1>1, <1>7, <1>8, <2>1 DEF InPlace
<1>10. \A i \in Ids : RowMoves(w, i)
  BY <1>3 DEF RowMoves, Ids
<1>11. \A i \in Ids' \ Ids : RowAdded(w, i)
  BY <1>1, <1>4, <1>6, <1>7, <1>8 DEF RowAdded
<1>12. Len(otps') = Len(otps) + 1
  BY <1>3 DEF n
<1>13. op[w].pc \in IssuePlaces /\ op[w].pc # "commit" /\ r.pc \notin RoomPlaces
  BY <1>1, <1>7 DEF IssuePlaces, RoomPlaces
<1>14. QED
  BY <1>1, <1>5, <1>6, <1>7, <1>9, <1>10, <1>11, <1>12, <1>13 DEF Moves

\* A step of issue that ends keeps the table's length and moves the caller out.
LEMMA EndMoves ==
  ASSUME RowsInv, NEW w \in Workers, NEW result, NEW code, Return(w, result, code),
         UNCHANGED clock, Len(otps') = Len(otps), \A i \in Ids : RowMoves(w, i),
         op[w].pc = "commit" => otps'[op[w].row].status # "pending"
  PROVE  Moves(w)
<1> DEFINE r == [pc |-> "idle", result |-> result, code |-> code]
<1>1. op'[w] = r /\ \A v \in Workers : v # w => op'[v] = op[v]
  BY DEF Return, Goto, RowsInv, TypeInv, OtpTypeOK
<1>2. r.pc = "idle" /\ r.pc \notin IssuePlaces \cup RoomPlaces /\ r.pc # "commit"
  BY DEF IssuePlaces, RoomPlaces
<1>3. InPlace(r, otps', hist', clock')
  BY ReturnInPlace
<1> HIDE DEF r
<1>4. Ids' = Ids /\ Len(otps) \in Nat
  BY DEF Ids, RowsInv, TypeInv, OtpTypeOK
<1>5. QED
  BY <1>1, <1>2, <1>3, <1>4 DEF Moves

\* Committing makes the worker's own row visible and consumes committed rows only.
LEMMA IssueCommitMoves ==
  ASSUME RowsInv, NEW w \in Workers, IssueCommit(w)
  PROVE  Moves(w)
<1> DEFINE j == op[w].row
<1>1. /\ op[w] \in IssueOp /\ op[w].rows \subseteq Ids
      /\ \A i \in op[w].rows : otps[i].status = "committed"
      /\ op[w].pc = "commit" /\ UNCHANGED <<clock, hist>>
  BY IssueLocals DEF IssueCommit, IssuePlaces
<1>2. j \in Ids
  BY <1>1 DEF RowsInv, TypeInv, LocalsOK
<1>3. \A i \in Ids : otps'[i] = IF i = j THEN [otps[i] EXCEPT !.status = "committed"]
                               ELSE IF i \in op[w].rows THEN [otps[i] EXCEPT !.consumed = TRUE]
                               ELSE otps[i]
  BY DEF IssueCommit, Committed
<1>4. \A i \in Ids : otps[i] \in Row
  BY RowTyped DEF RowsInv
<1>5. otps'[j].status = "committed"
  BY <1>2, <1>3, <1>4 DEF Row
<1>6. ASSUME NEW i \in Ids PROVE RowMoves(w, i)
  <2>1. otps'[i].key = otps[i].key /\ otps'[i].created = otps[i].created
    BY <1>3, <1>4 DEF Row
  <2>2. CASE i = j
    BY <1>1, <1>5, <2>1, <2>2 DEF RowMoves
  <2>3. CASE i # j
    <3>1. otps'[i].status = otps[i].status
      BY <1>3, <1>4, <2>3 DEF Row
    <3>2. otps[i].status = "pending" => otps'[i] = otps[i]
      BY <1>1, <1>3, <2>3
    <3>3. QED
      BY <1>1, <2>1, <3>1, <3>2 DEF RowMoves
  <2>4. QED
    BY <2>2, <2>3
<1>7. Len(otps') = Len(otps)
  BY CommittedTable DEF IssueCommit, RowsInv
<1>8. Return(w, "ok", j) \/ Return(w, "error", 0)
  BY DEF IssueCommit
<1>9. QED
  BY <1>1, <1>5, <1>6, <1>7, <1>8, EndMoves

\* A step that replaces one row by one of the same key, time of creation and status.
LEMMA ReplaceMoves ==
  ASSUME RowsInv, NEW w \in Workers, NEW i \in Ids, NEW o \in Row,
         otps' = [otps EXCEPT ![i] = o],
         o.key = otps[i].key, o.created = otps[i].created,
         \/ o.status = otps[i].status /\ otps[i].status # "pending"
         \/ op[w].pc = "commit" /\ i = op[w].row /\ o.status # "pending",
         \A j \in Ids : /\ hist'[j].checked = hist[j].checked
                        /\ j # i => hist'[j].accepted = hist[j].accepted
  PROVE  Len(otps') = Len(otps) /\ otps'[i] = o /\ \A j \in Ids : RowMoves(w, j)
<1>1. /\ Len(otps') = Len(otps) /\ otps'[i] = o
      /\ \A j \in 1..Len(otps) : j # i => otps'[j] = otps[j]
  BY UpdateRow DEF RowsInv, TypeInv, OtpTypeOK, Ids
<1>2. ASSUME NEW j \in Ids PROVE RowMoves(w, j)
  <2>1. CASE j = i
    BY <1>1, <2>1 DEF RowMoves
  <2>2. CASE j # i
    BY <1>1, <2>2 DEF RowMoves, Ids
  <2>3. QED
    BY <2>1, <2>2
<1>3. QED
  BY <1>1, <1>2

\* Rolling back takes the worker's own row away.
LEMMA IssueFailMoves ==
  ASSUME RowsInv, NEW w \in Workers, IssueFail(w)
  PROVE  Moves(w)
<1>1. Return(w, "error", 0) /\ UNCHANGED <<clock, hist>>
  BY DEF IssueFail
<1>2. CASE op[w].pc # "commit"
  BY <1>1, <1>2, ReturnMoves DEF IssueFail
<1>3. CASE op[w].pc = "commit"
  <2> DEFINE j == op[w].row
             o == [otps[j] EXCEPT !.status = "rolledback"]
  <2>1. j \in Ids
    BY <1>3 DEF RowsInv, TypeInv, LocalsOK
  <2>2. otps[j] \in Row
    BY <2>1, RowTyped DEF RowsInv
  <2>3. /\ o \in Row /\ o.key = otps[j].key /\ o.created = otps[j].created
        /\ o.status = "rolledback"
    BY <2>2 DEF Row
  <2>4. otps' = [otps EXCEPT ![j] = o]
    BY <1>3 DEF IssueFail
  <2> HIDE DEF o
  <2>5. Len(otps') = Len(otps) /\ otps'[j] = o /\ \A i \in Ids : RowMoves(w, i)
    BY <1>1, <1>3, <2>1, <2>3, <2>4, ReplaceMoves
  <2>6. QED
    BY <1>1, <1>3, <2>3, <2>5, EndMoves
<1>4. QED
  BY <1>2, <1>3

\* Only committed rows are verified.
LEMMA VerifyReadMoves ==
  ASSUME RowsInv, NEW w \in Workers, NEW k \in Keys, NEW guess \in Guesses,
         VerifyRead(w, k, guess)
  PROVE  Moves(w)
<1>1. op[w].pc = "idle" /\ UNCHANGED <<otps, clock>>
  BY DEF VerifyRead
<1>2. ASSUME NEW result, NEW code, Return(w, result, code), UNCHANGED hist
      PROVE  Moves(w)
  BY <1>1, <1>2, ReturnMoves
<1>3. ASSUME NEW i \in Latest(Usable(k)), NEW r, Goto(w, r),
             r.pc \in {"consume", "miss"}, r.row = i,
             hist' = hist \/ hist' = [hist EXCEPT ![i].tries = @ + 1]
      PROVE  Moves(w)
  <2>1. i \in Ids /\ otps[i].status = "committed"
    BY DEF Latest, Usable, Unconsumed, Stored
  <2>2. InPlace(r, otps, hist, clock)
    BY <1>3, <2>1 DEF InPlace, IssuePlaces
  <2>3. \A j \in Ids : /\ hist'[j].checked = hist[j].checked
                       /\ hist'[j].accepted = hist[j].accepted
    <3>1. CASE hist' = hist
      BY <3>1
    <3>2. CASE hist' = [hist EXCEPT ![i].tries = @ + 1]
      <4> DEFINE h == [hist[i] EXCEPT !.tries = @ + 1]
      <4>1. hist \in Seq(History) /\ i \in 1..Len(hist) /\ Len(hist) = Len(otps)
        BY <2>1 DEF RowsInv, TypeInv, OtpTypeOK, Ids
      <4>2. hist[i] \in History
        BY <2>1, RowTyped DEF RowsInv
      <4>3. h \in History /\ h.checked = hist[i].checked /\ h.accepted = hist[i].accepted
        BY <4>2 DEF History
      <4>4. hist' = [hist EXCEPT ![i] = h]
        BY <3>2
      <4> HIDE DEF h
      <4>5. hist'[i] = h /\ \A j \in 1..Len(hist) : j # i => hist'[j] = hist[j]
        BY <4>1, <4>3, <4>4, UpdateRow
      <4>6. QED
        BY <4>1, <4>3, <4>5 DEF Ids
    <3>3. QED
      BY <1>3, <3>1, <3>2
  <2>4. op[w].pc # "commit" /\ r.pc # "commit" /\ r.pc \notin IssuePlaces \cup RoomPlaces
    BY <1>1, <1>3 DEF IssuePlaces, RoomPlaces
  <2>5. QED
    BY <1>1, <1>3, <2>2, <2>3, <2>4, QuietMoves
<1>4. CASE Return(w, "invalid", 0) /\ UNCHANGED hist
  BY <1>2, <1>4
<1>5. ASSUME NEW i \in Latest(Usable(k)),
             \/ Return(w, "too_many", 0) /\ UNCHANGED hist
             \/ Goto(w, [pc |-> "consume", row |-> i, result |-> "ok"]) /\ UNCHANGED hist
             \/ /\ \E res \in {"too_many", "invalid"} :
                     Goto(w, [pc |-> "miss", row |-> i, result |-> res])
                /\ hist' = [hist EXCEPT ![i].tries = @ + 1]
      PROVE  Moves(w)
  <2>1. CASE Return(w, "too_many", 0) /\ UNCHANGED hist
    BY <1>2, <2>1
  <2>2. CASE Goto(w, [pc |-> "consume", row |-> i, result |-> "ok"]) /\ UNCHANGED hist
    BY <1>3, <2>2
  <2>3. ASSUME NEW res \in {"too_many", "invalid"},
               Goto(w, [pc |-> "miss", row |-> i, result |-> res]),
               hist' = [hist EXCEPT ![i].tries = @ + 1]
        PROVE  Moves(w)
    <3> DEFINE r == [pc |-> "miss", row |-> i, result |-> res]
    <3>1. r.pc \in {"consume", "miss"} /\ r.row = i
      OBVIOUS
    <3>2. Goto(w, r)
      BY <2>3
    <3> HIDE DEF r
    <3>3. QED
      BY <1>3, <2>3, <3>1, <3>2
  <2>4. QED
    BY <1>5, <2>1, <2>2, <2>3
<1>6. QED
  BY <1>4, <1>5 DEF VerifyRead

\* Counting a wrong guess, or failing to, touches one committed row or its history.
LEMMA VerifyMissMoves ==
  ASSUME RowsInv, NEW w \in Workers, VerifyMiss(w) \/ VerifyMissFails(w)
  PROVE  Moves(w)
<1> DEFINE i == op[w].row
<1>1. /\ i \in Ids /\ otps[i].status = "committed" /\ op[w].pc = "miss"
      /\ UNCHANGED clock /\ Return(w, op[w].result, 0)
  BY WhichOp DEF VerifyMiss, VerifyMissFails, RowsInv, TypeInv, LocalsOK, AllInPlace, InPlace
<1>2. otps[i] \in Row /\ hist[i] \in History
  BY <1>1, RowTyped DEF RowsInv
<1>3. CASE VerifyMiss(w)
  <2> DEFINE o == [otps[i] EXCEPT !.attempts = @ + 1]
  <2>1. /\ o \in Row /\ o.key = otps[i].key /\ o.created = otps[i].created
        /\ o.status = otps[i].status
    BY <1>2 DEF Row
  <2>2. otps' = [otps EXCEPT ![i] = o] /\ hist' = hist
    BY <1>3 DEF VerifyMiss, CountMiss
  <2> HIDE DEF o, i
  <2>3. Len(otps') = Len(otps) /\ \A j \in Ids : RowMoves(w, j)
    BY <1>1, <2>1, <2>2, ReplaceMoves
  <2>4. QED
    BY <1>1, <2>3, EndMoves
<1>4. CASE VerifyMissFails(w)
  <2> DEFINE h == [hist[i] EXCEPT !.lost = @ + 1]
  <2>1. h \in History /\ h.checked = hist[i].checked /\ h.accepted = hist[i].accepted
    BY <1>2 DEF History
  <2>2. hist' = [hist EXCEPT ![i] = h] /\ otps' = otps
    BY <1>4 DEF VerifyMissFails
  <2> HIDE DEF h, i
  <2>3. hist'[i] = h /\ \A j \in 1..Len(hist) : j # i => hist'[j] = hist[j]
    BY <1>1, <2>1, <2>2, UpdateRow DEF RowsInv, TypeInv, OtpTypeOK, Ids
  <2>4. \A j \in Ids : RowMoves(w, j)
    BY <2>1, <2>2, <2>3 DEF RowMoves, Ids, RowsInv, TypeInv, OtpTypeOK
  <2>5. QED
    BY <1>1, <2>2, <2>4, EndMoves
<1>5. QED
  BY <1>3, <1>4

\* Consuming a code, or failing to, touches one committed row and its history.
LEMMA VerifyConsumeMoves ==
  ASSUME RowsInv, NEW w \in Workers, VerifyConsume(w) \/ VerifyConsumeFails(w)
  PROVE  Moves(w)
<1> DEFINE i == op[w].row
           o == [otps[i] EXCEPT !.consumed = TRUE]
           h == [hist[i] EXCEPT !.accepted = @ + 1]
<1>1. /\ i \in Ids /\ otps[i].status = "committed" /\ op[w].pc = "consume"
      /\ UNCHANGED clock
  BY WhichOp DEF VerifyConsume, VerifyConsumeFails, RowsInv, TypeInv, LocalsOK, AllInPlace,
                 InPlace
<1>2. otps[i] \in Row /\ hist[i] \in History
  BY <1>1, RowTyped DEF RowsInv
<1>3. /\ o \in Row /\ o.key = otps[i].key /\ o.created = otps[i].created
      /\ o.status = otps[i].status
      /\ h \in History /\ h.checked = hist[i].checked
  <2>1. /\ o \in Row /\ o.key = otps[i].key /\ o.created = otps[i].created
        /\ o.status = otps[i].status
    BY <1>2 DEF Row
  <2>2. h \in History /\ h.checked = hist[i].checked
    BY <1>2 DEF History
  <2>3. QED
    BY <2>1, <2>2
<1>4. \/ UNCHANGED <<otps, hist>>
      \/ otps' = [otps EXCEPT ![i] = o] /\ hist' = hist
      \/ otps' = [otps EXCEPT ![i] = o] /\ hist' = [hist EXCEPT ![i] = h]
  BY DEF VerifyConsume, VerifyConsumeFails
<1>5. Return(w, "ok", 0) \/ Return(w, "invalid", 0)
  BY DEF VerifyConsume, VerifyConsumeFails
<1> HIDE DEF o, h, i
<1>6. CASE UNCHANGED <<otps, hist>>
  BY <1>1, <1>5, <1>6, ReturnMoves
<1>7. ASSUME otps' = [otps EXCEPT ![i] = o], hist' = hist \/ hist' = [hist EXCEPT ![i] = h]
      PROVE  Moves(w)
  <2>1. \A j \in Ids : /\ hist'[j].checked = hist[j].checked
                       /\ j # i => hist'[j].accepted = hist[j].accepted
    <3>1. CASE hist' = hist
      BY <3>1
    <3>2. CASE hist' = [hist EXCEPT ![i] = h]
      <4>1. hist'[i] = h /\ \A j \in 1..Len(hist) : j # i => hist'[j] = hist[j]
        BY <1>1, <1>3, <3>2, UpdateRow DEF RowsInv, TypeInv, OtpTypeOK, Ids
      <4>2. QED
        BY <1>3, <4>1 DEF Ids, RowsInv, TypeInv, OtpTypeOK
    <3>3. QED
      BY <1>7, <3>1, <3>2
  <2>2. Len(otps') = Len(otps) /\ \A j \in Ids : RowMoves(w, j)
    BY <1>1, <1>3, <1>7, <2>1, ReplaceMoves
  <2>3. QED
    BY <1>1, <1>5, <2>2, EndMoves
<1>8. QED
  BY <1>4, <1>6, <1>7

\* Every step of the store moves one worker, or the clock, or nothing.
LEMMA NextMoves ==
  ASSUME RowsInv, [OtpNext]_otpVars
  PROVE  (\E w \in Workers : Moves(w)) \/ Tick \/ UNCHANGED otpVars
<1>1. ASSUME NEW w \in Workers, Call(w) PROVE Moves(w)
  BY <1>1, IssueStartMoves, VerifyReadMoves DEF Call
<1>2. ASSUME NEW w \in Workers, IssueStep(w) PROVE Moves(w)
  BY <1>2, IssueCountMoves, IssueUpdateMoves, IssueInsertMoves, IssueCommitMoves
  DEF IssueStep
<1>3. ASSUME NEW w \in Workers, VerifyStep(w) \/ Fault(w) PROVE Moves(w)
  BY <1>3, VerifyMissMoves, VerifyConsumeMoves, IssueFailMoves DEF VerifyStep, Fault
<1>4. QED
  BY <1>1, <1>2, <1>3, NextKinds

\* The other workers' locals stay in place: their committed rows stay committed, and
\* nobody else commits or rolls back their own row.
LEMMA MoveInPlace ==
  ASSUME RowsInv, NEW w \in Workers, Moves(w)
  PROVE  AllInPlace'
<1> SUFFICES ASSUME NEW v \in Workers PROVE InPlace(op'[v], otps', hist', clock')
  BY DEF AllInPlace
<1>1. CASE v = w
  BY <1>1 DEF Moves
<1>2. CASE v # w
  <2>1. /\ op'[v] = op[v] /\ clock' = clock /\ \A i \in Ids : RowMoves(w, i)
        /\ InPlace(op[v], otps, hist, clock)
    BY <1>2 DEF Moves, RowsInv, AllInPlace
  <2>2. ASSUME NEW i \in Ids, otps[i].status = "committed"
        PROVE  otps'[i].status = "committed"
    <3>1. ~(op[w].pc = "commit" /\ i = op[w].row)
      BY <2>2 DEF RowsInv, AllInPlace, InPlace
    <3>2. QED
      BY <2>1, <2>2, <3>1 DEF RowMoves
  <2>3. CASE op[v].pc \in IssuePlaces
    <3>1. op[v].rows \subseteq Ids
      BY <2>3, IssueLocals
    <3>2. \A i \in op[v].rows : otps'[i].status = "committed"
      BY <2>1, <2>2, <2>3, <3>1 DEF InPlace
    <3>3. ASSUME op[v].pc = "commit"
          PROVE  /\ otps'[op[v].row].status = "pending"
                 /\ otps'[op[v].row].key = op[v].key
                 /\ hist'[op[v].row].checked = op[v].checked
      <4>1. op[v].row \in Ids
        BY <3>3 DEF RowsInv, TypeInv, LocalsOK
      <4>2. ~(op[w].pc = "commit" /\ op[v].row = op[w].row)
        BY <1>2, <3>3 DEF RowsInv, OwnsAlone
      <4>3. QED
        BY <2>1, <3>3, <4>1, <4>2 DEF RowMoves, InPlace
    <3>4. op[v].pc \notin {"miss", "consume"}
      BY <2>3 DEF IssuePlaces
    <3>5. QED
      BY <2>1, <2>3, <3>2, <3>3, <3>4 DEF InPlace
  <2>4. CASE op[v].pc \in {"miss", "consume"}
    <3>1. op[v].row \in Ids
      BY <2>4, WhichOp DEF RowsInv, TypeInv, LocalsOK
    <3>2. QED
      BY <2>1, <2>2, <2>4, <3>1 DEF InPlace, IssuePlaces
  <2>5. CASE op[v].pc \notin IssuePlaces \cup {"miss", "consume"}
    BY <2>1, <2>5 DEF InPlace, IssuePlaces
  <2>6. QED
    BY <2>3, <2>4, <2>5
<1>3. QED
  BY <1>1, <1>2

\* A new row has one owner, and the rows that are there keep theirs.
LEMMA MoveOwned ==
  ASSUME RowsInv, NEW w \in Workers, Moves(w)
  PROVE  OwnsAlone' /\ PendingOwned'
<1>1. /\ \A v \in Workers : v # w => op'[v] = op[v]
      /\ op[w].pc = "commit" => op'[w].pc = "idle"
      /\ op'[w].pc = "commit" => op'[w].row \in Ids' \ Ids
      /\ \A i \in Ids : RowMoves(w, i)
      /\ \A i \in Ids' \ Ids : RowAdded(w, i)
  BY DEF Moves
<1>2. \A v \in Workers : op[v].pc = "commit" => op[v].row \in Ids
  BY DEF RowsInv, TypeInv, LocalsOK
<1>3. OwnsAlone'
  <2> SUFFICES ASSUME NEW u \in Workers, NEW v \in Workers, op'[u].pc = "commit",
                      op'[v].pc = "commit", op'[u].row = op'[v].row
               PROVE  u = v
    BY DEF OwnsAlone
  <2>1. CASE u # w /\ v # w
    BY <1>1, <2>1 DEF RowsInv, OwnsAlone
  <2>2. CASE u = w /\ v # w
    BY <1>1, <1>2, <2>2
  <2>3. CASE u # w /\ v = w
    BY <1>1, <1>2, <2>3
  <2>4. QED
    BY <2>1, <2>2, <2>3
<1>4. PendingOwned'
  <2> SUFFICES ASSUME NEW i \in Ids', otps'[i].status = "pending"
               PROVE  /\ ~otps'[i].consumed /\ hist'[i].accepted = 0
                      /\ \E v \in Workers : op'[v].pc = "commit" /\ op'[v].row = i
    BY DEF PendingOwned
  <2>1. CASE i \in Ids
    <3>1. RowMoves(w, i)
      BY <1>1, <2>1
    <3>2. /\ otps[i].status = "pending" /\ otps'[i].consumed = otps[i].consumed
          /\ hist'[i].accepted = hist[i].accepted
          /\ ~(op[w].pc = "commit" /\ i = op[w].row)
      BY <3>1, <1>1, <2>1 DEF RowMoves, Moves
    <3>3. PICK v \in Workers : op[v].pc = "commit" /\ op[v].row = i
      BY <2>1, <3>2 DEF RowsInv, PendingOwned
    <3>4. v # w
      BY <3>2, <3>3
    <3>5. op'[v].pc = "commit" /\ op'[v].row = i
      BY <1>1, <3>3, <3>4
    <3>6. ~otps[i].consumed /\ hist[i].accepted = 0
      BY <2>1, <3>2 DEF RowsInv, PendingOwned
    <3>7. QED
      BY <3>2, <3>5, <3>6
  <2>2. CASE i \notin Ids
    BY <1>1, <2>2 DEF RowAdded
  <2>3. QED
    BY <2>1, <2>2
<1>5. QED
  BY <1>3, <1>4

\* A new row comes last and now, so rows stay in the order of their creation.
LEMMA MoveInOrder ==
  ASSUME RowsInv, TypeInv', NEW w \in Workers, Moves(w)
  PROVE  CreatedInOrder'
<1>1. /\ clock' = clock /\ clock \in Nat
      /\ \A i \in Ids : otps'[i].created = otps[i].created
      /\ \A i \in Ids' \ Ids : otps'[i].created = clock
  BY DEF Moves, RowMoves, RowAdded, RowsInv, TypeInv, OtpTypeOK
<1>2. Len(otps) \in Nat /\ Len(otps') \in Nat
  BY DEF RowsInv, TypeInv, OtpTypeOK
<1>3. \A i \in Ids : otps[i].created \in Nat /\ otps[i].created <= clock
  BY RowTyped DEF RowsInv, Row, CreatedInOrder
<1>4. \A i \in Ids' : otps'[i].created <= clock'
  BY <1>1, <1>3
<1>5. ASSUME NEW i \in Ids', NEW j \in Ids', i <= j
      PROVE  otps'[i].created <= otps'[j].created
  <2>1. CASE j \in Ids
    <3>1. i \in Ids
      BY <1>2, <1>5, <2>1 DEF Ids
    <3>2. QED
      BY <1>1, <1>5, <2>1, <3>1 DEF RowsInv, CreatedInOrder
  <2>2. CASE j \notin Ids
    BY <1>1, <1>4, <2>2
  <2>3. QED
    BY <2>1, <2>2
<1>6. QED
  BY <1>4, <1>5 DEF CreatedInOrder

\* Time passing only moves the rows further into the past.
LEMMA TickRows ==
  ASSUME RowsInv, Tick
  PROVE  RowsInv'
<1>1. TypeInv'
  BY TickTyped DEF RowsInv
<1>2. UNCHANGED <<otps, op, hist>> /\ clock' = clock + 1 /\ clock \in Nat
  BY DEF Tick, RowsInv, TypeInv, OtpTypeOK
<1>3. OwnsAlone' /\ PendingOwned'
  BY <1>2 DEF RowsInv, OwnsAlone, PendingOwned, Ids
<1>4. \A i \in Ids : otps[i].created \in Nat
  BY RowTyped DEF RowsInv, Row
<1>5. CreatedInOrder'
  BY <1>2, <1>4 DEF RowsInv, CreatedInOrder, Ids
<1>6. ASSUME NEW w \in Workers PROVE InPlace(op[w], otps, hist, clock')
  <2>1. InPlace(op[w], otps, hist, clock)
    BY DEF RowsInv, AllInPlace
  <2>2. op[w].pc \in IssuePlaces => op[w].now \in Nat
    BY IssueLocals DEF IssueOp
  <2>3. QED
    BY <1>2, <2>1, <2>2 DEF InPlace
<1>7. AllInPlace'
  BY <1>2, <1>6 DEF AllInPlace
<1>8. QED
  BY <1>1, <1>3, <1>5, <1>7 DEF RowsInv

\* There is no row and no worker has begun.
LEMMA InitRows == OtpInit => RowsInv
<1> SUFFICES ASSUME OtpInit PROVE RowsInv
  OBVIOUS
<1>1. TypeInv
  BY InitTyped
<1>2. Ids = {} /\ \A w \in Workers : op[w].pc = "idle"
  BY DEF OtpInit, Ids
<1>3. AllInPlace /\ OwnsAlone
  BY <1>2 DEF AllInPlace, InPlace, OwnsAlone, IssuePlaces
<1>4. QED
  BY <1>1, <1>2, <1>3 DEF RowsInv, PendingOwned, CreatedInOrder

\* Every step keeps who owns what.
LEMMA NextRows == ASSUME RowsInv, [OtpNext]_otpVars PROVE RowsInv'
<1>1. TypeInv'
  BY NextTyped DEF RowsInv
<1>2. ASSUME NEW w \in Workers, Moves(w) PROVE RowsInv'
  BY <1>1, <1>2, MoveInPlace, MoveOwned, MoveInOrder DEF RowsInv
<1>3. CASE UNCHANGED otpVars
  BY <1>1, <1>3 DEF otpVars, RowsInv, AllInPlace, OwnsAlone, PendingOwned, CreatedInOrder, Ids
<1>4. QED
  BY <1>2, <1>3, NextMoves, TickRows

-----------------------------------------------------------------------------
(* The limits *)

\* A step charges nothing new but the row it commits, which its worker had passed for.
LEMMA MoveCharges ==
  ASSUME RowsInv, NEW w \in Workers, Moves(w), NEW limit \in Limits,
         NEW s \in Emails \cup Keys
  PROVE  /\ Charged(limit, s)' \subseteq Charged(limit, s)
              \cup (IF op[w].pc = "commit" /\ w \in Passing(limit, s) THEN {op[w].row} ELSE {})
         /\ \A v \in Workers \ {w} : v \in Passing(limit, s)' <=> v \in Passing(limit, s)
<1>1. ASSUME NEW i \in Charged(limit, s)', i \notin Charged(limit, s)
      PROVE  op[w].pc = "commit" /\ w \in Passing(limit, s) /\ i = op[w].row
  <2>1. /\ i \in Ids' /\ otps'[i].status = "committed" /\ limit \in hist'[i].checked
        /\ Subject(limit, otps'[i].key) = s /\ otps'[i].created > clock' - Window(limit)
    BY <1>1 DEF Charged
  <2>2. i \in Ids /\ RowMoves(w, i) /\ clock' = clock
    BY <2>1 DEF Moves, RowAdded
  <2>3. /\ limit \in hist[i].checked
        /\ Subject(limit, otps[i].key) = s /\ otps[i].created > clock - Window(limit)
    BY <2>1, <2>2 DEF RowMoves
  <2>4. otps[i].status # "committed"
    BY <1>1, <2>2, <2>3 DEF Charged
  <2>5. op[w].pc = "commit" /\ i = op[w].row
    BY <2>1, <2>2, <2>4 DEF RowMoves
  <2>6. op[w].checked = hist[i].checked /\ op[w].key = otps[i].key
    BY <2>5 DEF RowsInv, AllInPlace, InPlace
  <2>7. QED
    BY <2>3, <2>5, <2>6 DEF Passing, IssuePlaces
<1>2. \A v \in Workers \ {w} : v \in Passing(limit, s)' <=> v \in Passing(limit, s)
  BY DEF Moves, Passing
<1>3. QED
  BY <1>1, <1>2

\* No step exceeds a limit by more than the workers that passed it together.
LEMMA MoveLimits ==
  ASSUME RowsInv, TypeInv', LimitsInv, NEW w \in Workers, Moves(w)
  PROVE  LimitsInv'
<1> SUFFICES ASSUME NEW limit \in Limits, NEW s \in Emails \cup Keys
             PROVE  Cardinality(Charged(limit, s)') + Cardinality(Passing(limit, s)')
                      <= Allowance(limit) + Cardinality(Workers)
  BY DEF LimitsInv
<1> DEFINE C == Charged(limit, s)
           P == Passing(limit, s)
           C2 == Charged(limit, s)'
           P2 == Passing(limit, s)'
<1>1. /\ C2 \subseteq C \cup (IF op[w].pc = "commit" /\ w \in P THEN {op[w].row} ELSE {})
      /\ \A v \in Workers \ {w} : v \in P2 <=> v \in P
  BY MoveCharges
<1>2. C \in SUBSET Ids /\ P \in SUBSET Workers /\ P2 \in SUBSET Workers
  BY DEF Charged, Passing
<1>3. /\ Cardinality(C) + Cardinality(P) <= Allowance(limit) + Cardinality(Workers)
      /\ Allowance(limit) \in Int
  BY LimitsPositive DEF LimitsInv, Allowance
<1>4. op[w].pc = "commit" => w \notin P2
  BY DEF Moves, Passing, IssuePlaces
<1>5. w \in P2 => w \in P \/ Cardinality(C) <= Allowance(limit)
  <2> SUFFICES ASSUME w \in P2, w \notin P PROVE Cardinality(C) <= Allowance(limit)
    OBVIOUS
  <2>1. op'[w].pc \in IssuePlaces /\ limit \in op'[w].checked /\ Subject(limit, op'[w].key) = s
    BY DEF Passing
  <2>2. \/ op[w].pc \in IssuePlaces /\ limit \in op[w].checked /\ op'[w].key = op[w].key
        \/ Passed(limit, op'[w].key)
    BY <2>1 DEF Moves
  <2>3. Passed(limit, op'[w].key)
    BY <2>1, <2>2 DEF Passing
  <2>4. QED
    BY <2>1, <2>3 DEF Passed
<1> HIDE DEF C, P, C2, P2
<1>6. /\ IsFiniteSet(C) /\ Cardinality(C) \in Nat
      /\ IsFiniteSet(P) /\ Cardinality(P) \in Nat
      /\ IsFiniteSet(P2) /\ Cardinality(P2) \in Nat /\ Cardinality(P2) <= Cardinality(Workers)
      /\ Cardinality(Workers) \in Nat
  BY <1>2, RowsFinite, WorkersFinite, FS_Subset, FS_CardinalityType DEF RowsInv
<1>7. CASE op[w].pc = "commit" /\ w \in P
  <2>1. P2 = P \ {w} /\ C2 \subseteq C \cup {op[w].row}
    BY <1>1, <1>2, <1>4, <1>7
  <2>2. Cardinality(P2) = Cardinality(P) - 1
    BY <1>6, <1>7, <2>1, FS_RemoveElement
  <2>3. /\ IsFiniteSet(C \cup {op[w].row})
        /\ Cardinality(C \cup {op[w].row}) <= Cardinality(C) + 1
        /\ Cardinality(C \cup {op[w].row}) \in Nat
    <3>1. IsFiniteSet(C \cup {op[w].row})
      BY <1>6, FS_AddElement
    <3>2. Cardinality(C \cup {op[w].row})
            = IF op[w].row \in C THEN Cardinality(C) ELSE Cardinality(C) + 1
      BY <1>6, FS_AddElement
    <3>3. Cardinality(C \cup {op[w].row}) <= Cardinality(C) + 1
      BY <1>6, <3>2
    <3>4. QED
      BY <3>1, <3>3, FS_CardinalityType
  <2>4. Cardinality(C2) <= Cardinality(C \cup {op[w].row}) /\ Cardinality(C2) \in Nat
    BY <2>1, <2>3, FS_Subset, FS_CardinalityType
  <2>5. QED
    BY <1>3, <1>6, <2>2, <2>3, <2>4 DEF C2, P2
<1>8. CASE ~(op[w].pc = "commit" /\ w \in P)
  <2>1. C2 \in SUBSET C
    BY <1>1, <1>8
  <2>2. Cardinality(C2) <= Cardinality(C) /\ Cardinality(C2) \in Nat
    BY <1>6, <2>1, FS_Subset, FS_CardinalityType
  <2>3. CASE w \in P2 /\ w \notin P
    BY <1>3, <1>5, <1>6, <2>2, <2>3 DEF C2, P2
  <2>4. CASE ~(w \in P2 /\ w \notin P)
    <3>1. P2 \in SUBSET P
      BY <1>1, <1>2, <2>4
    <3>2. Cardinality(P2) <= Cardinality(P)
      BY <1>6, <3>1, FS_Subset
    <3>3. QED
      BY <1>3, <1>6, <2>2, <3>2 DEF C2, P2
  <2>5. QED
    BY <2>3, <2>4
<1>9. QED
  BY <1>7, <1>8

\* Time passing only takes rows out of the window.
LEMMA TickLimits ==
  ASSUME RowsInv, LimitsInv, Tick
  PROVE  LimitsInv'
<1> SUFFICES ASSUME NEW limit \in Limits, NEW s \in Emails \cup Keys
             PROVE  Cardinality(Charged(limit, s)') + Cardinality(Passing(limit, s)')
                      <= Allowance(limit) + Cardinality(Workers)
  BY DEF LimitsInv
<1> DEFINE C == Charged(limit, s)
           P == Passing(limit, s)
           C2 == Charged(limit, s)'
<1>1. UNCHANGED <<otps, op, hist>> /\ clock' = clock + 1 /\ clock \in Nat
  BY DEF Tick, RowsInv, TypeInv, OtpTypeOK
<1>2. \A i \in Ids : otps[i].created \in Nat
  BY RowTyped DEF RowsInv, Row
<1>3. Window(limit) \in Nat /\ Allowance(limit) \in Int
  BY LimitsPositive DEF Window, Allowance
<1>4. C2 \in SUBSET C /\ C \in SUBSET Ids /\ P \in SUBSET Workers
  BY <1>1, <1>2, <1>3 DEF Charged, Passing, Ids
<1>5. Passing(limit, s)' = P
  BY <1>1 DEF Passing
<1>6. Cardinality(C) + Cardinality(P) <= Allowance(limit) + Cardinality(Workers)
  BY DEF LimitsInv
<1> HIDE DEF C, P, C2
<1>7. /\ IsFiniteSet(C) /\ Cardinality(C) \in Nat /\ Cardinality(P) \in Nat
      /\ Cardinality(Workers) \in Nat
  BY <1>4, RowsFinite, WorkersFinite, FS_Subset, FS_CardinalityType DEF RowsInv
<1>8. Cardinality(C2) <= Cardinality(C) /\ Cardinality(C2) \in Nat
  BY <1>4, <1>7, FS_Subset, FS_CardinalityType
<1>9. QED
  BY <1>3, <1>5, <1>6, <1>7, <1>8 DEF C2

\* The limits hold throughout, with the owners of the pending rows.
LEMMA LimitsAlways == OtpSpec => [](RowsInv /\ LimitsInv)
<1>1. OtpInit => RowsInv /\ LimitsInv
  <2> SUFFICES ASSUME OtpInit PROVE LimitsInv
    BY InitRows
  <2>1. Ids = {} /\ \A w \in Workers : op[w].pc = "idle"
    BY DEF OtpInit, Ids
  <2>2. \A limit \in Limits, s \in Emails \cup Keys :
          Charged(limit, s) = {} /\ Passing(limit, s) = {}
    BY <2>1 DEF Charged, Passing, IssuePlaces
  <2>3. Cardinality({}) = 0 /\ Cardinality(Workers) \in Nat
    BY FS_EmptySet, WorkersFinite, FS_CardinalityType
  <2>4. ASSUME NEW limit \in Limits, NEW s \in Emails \cup Keys
        PROVE  Cardinality(Charged(limit, s)) + Cardinality(Passing(limit, s))
                 <= Allowance(limit) + Cardinality(Workers)
    <3>1. Allowance(limit) \in Nat
      BY LimitsPositive DEF Allowance
    <3>2. Cardinality(Charged(limit, s)) = 0 /\ Cardinality(Passing(limit, s)) = 0
      BY <2>2, <2>3
    <3>3. QED
      BY <2>3, <3>1, <3>2
  <2>5. QED
    BY <2>4 DEF LimitsInv
<1>2. RowsInv /\ LimitsInv /\ [OtpNext]_otpVars => (RowsInv /\ LimitsInv)'
  <2> SUFFICES ASSUME RowsInv, LimitsInv, [OtpNext]_otpVars PROVE RowsInv' /\ LimitsInv'
    OBVIOUS
  <2>1. RowsInv' /\ TypeInv'
    BY NextRows DEF RowsInv
  <2>2. CASE UNCHANGED otpVars
    BY <2>1, <2>2 DEF otpVars, LimitsInv, Charged, Passing, Ids
  <2>3. QED
    BY <2>1, <2>2, NextMoves, MoveLimits, TickLimits
<1>3. QED
  BY <1>1, <1>2, PTL DEF OtpSpec

\* The rows a limit was checked for that are not charged yet are pending, and each has a
\* worker that passed: together they are no more than charged rows and passing workers.
LEMMA CheckedWithin ==
  ASSUME RowsInv, LimitsInv, NEW limit \in Limits, NEW s \in Emails \cup Keys,
         NEW rows, \A i \in rows : /\ i \in Checked(limit)
                                   /\ Subject(limit, otps[i].key) = s
                                   /\ otps[i].created > clock - Window(limit)
  PROVE  Cardinality(rows) <= Allowance(limit) + Cardinality(Workers)
<1> DEFINE C == Charged(limit, s)
           P == Passing(limit, s)
           owner == [i \in rows \ C |-> CHOOSE w \in P : op[w].row = i]
<1>1. rows \in SUBSET Ids /\ C \in SUBSET Ids /\ P \in SUBSET Workers
  BY DEF Checked, Charged, Passing
<1>2. ASSUME NEW i \in rows \ C PROVE \E w \in P : op[w].row = i
  <2>1. /\ i \in Ids /\ otps[i].status # "rolledback" /\ limit \in hist[i].checked
        /\ Subject(limit, otps[i].key) = s /\ otps[i].created > clock - Window(limit)
    BY <1>1, <1>2 DEF Checked
  <2>2. otps[i].status # "committed"
    BY <1>2, <2>1 DEF Charged
  <2>3. otps[i].status = "pending"
    BY <2>1, <2>2, RowTyped DEF RowsInv, Row
  <2>4. PICK w \in Workers : op[w].pc = "commit" /\ op[w].row = i
    BY <2>1, <2>3 DEF RowsInv, PendingOwned
  <2>5. op[w].checked = hist[i].checked /\ op[w].key = otps[i].key
    BY <2>4 DEF RowsInv, AllInPlace, InPlace
  <2>6. QED
    BY <2>1, <2>4, <2>5 DEF Passing, IssuePlaces
<1>3. Cardinality(C) + Cardinality(P) <= Allowance(limit) + Cardinality(Workers)
  BY DEF LimitsInv
<1>4. Allowance(limit) \in Int
  BY LimitsPositive DEF Allowance
<1> HIDE DEF C, P
<1>5. /\ IsFiniteSet(C) /\ Cardinality(C) \in Nat /\ IsFiniteSet(P) /\ Cardinality(P) \in Nat
      /\ Cardinality(Workers) \in Nat /\ IsFiniteSet(rows) /\ Cardinality(rows) \in Nat
  BY <1>1, RowsFinite, WorkersFinite, FS_Subset, FS_CardinalityType DEF RowsInv
<1>6. owner \in Injection(rows \ C, P)
  <2>1. \A i \in rows \ C : owner[i] \in P /\ op[owner[i]].row = i
    BY <1>2
  <2> HIDE DEF owner
  <2>2. owner \in [rows \ C -> P]
    BY <2>1 DEF owner
  <2>3. \A i, j \in rows \ C : owner[i] = owner[j] => i = j
    BY <2>1
  <2>4. QED
    BY <2>2, <2>3 DEF Injection, IsInjective
<1>7. IsFiniteSet(rows \ C) /\ Cardinality(rows \ C) <= Cardinality(P)
  BY <1>5, <1>6, FS_Injection
<1>8. rows \in SUBSET (C \cup (rows \ C))
  OBVIOUS
<1>9. /\ IsFiniteSet(C \cup (rows \ C))
      /\ Cardinality(C \cup (rows \ C)) = Cardinality(C) + Cardinality(rows \ C) - 0
  <2>1. C \cap (rows \ C) = {}
    OBVIOUS
  <2>2. Cardinality({}) = 0
    BY FS_EmptySet
  <2>3. QED
    BY <1>5, <1>7, <2>1, <2>2, FS_Union
<1>10. Cardinality(rows) <= Cardinality(C \cup (rows \ C))
  BY <1>8, <1>9, FS_Subset
<1>11. Cardinality(rows \ C) \in Nat
  BY <1>7, FS_CardinalityType
<1>12. QED
  BY <1>3, <1>4, <1>5, <1>7, <1>9, <1>10, <1>11

\* An address gets at most one code per extra worker more than the hourly limit within
\* any hour, however issue calls overlap (otp.go:66-70).
THEOREM HourlyLimit == OtpSpec => []HourlyBounded
<1>1. ASSUME RowsInv, LimitsInv, NEW e \in Emails
      PROVE  Cardinality({i \in Checked("hourly") : /\ otps[i].key[1] = e
                                                   /\ otps[i].created > clock - Hour})
               <= MaxPerHour - 1 + Cardinality(Workers)
  <2> DEFINE rows == {i \in Checked("hourly") : /\ otps[i].key[1] = e
                                               /\ otps[i].created > clock - Hour}
  <2>1. \A i \in rows : /\ i \in Checked("hourly")
                        /\ Subject("hourly", otps[i].key) = e
                        /\ otps[i].created > clock - Window("hourly")
    BY DEF Subject, Window
  <2>2. "hourly" \in Limits /\ Allowance("hourly") = MaxPerHour - 1
    BY DEF Limits, Allowance
  <2> HIDE DEF rows
  <2>3. Cardinality(rows) <= Allowance("hourly") + Cardinality(Workers)
    BY <1>1, <2>1, <2>2, CheckedWithin
  <2>4. QED
    BY <2>2, <2>3 DEF rows
<1>2. RowsInv /\ LimitsInv => HourlyBounded
  BY <1>1 DEF HourlyBounded
<1>3. QED
  BY <1>2, LimitsAlways, PTL

\* A key gets at most one code per worker within one cooldown (otp.go:60-64).
THEOREM CooldownLimit == OtpSpec => []CooldownBounded
<1>1. ASSUME RowsInv, LimitsInv, NEW k \in Keys
      PROVE  Cardinality({i \in Checked("cooldown") : /\ otps[i].key = k
                                                     /\ clock - otps[i].created < Cooldown})
               <= Cardinality(Workers)
  <2> DEFINE rows == {i \in Checked("cooldown") : /\ otps[i].key = k
                                                 /\ clock - otps[i].created < Cooldown}
  <2>1. clock \in Nat /\ Cooldown \in Nat /\ \A i \in Ids : otps[i].created \in Nat
    BY <1>1, RowTyped, LimitsPositive DEF RowsInv, TypeInv, OtpTypeOK, Row
  <2>2. \A i \in rows : /\ i \in Checked("cooldown")
                        /\ Subject("cooldown", otps[i].key) = k
                        /\ otps[i].created > clock - Window("cooldown")
    BY <2>1 DEF Subject, Window, Checked
  <2>3. "cooldown" \in Limits /\ Allowance("cooldown") = 0
    BY DEF Limits, Allowance
  <2> HIDE DEF rows
  <2>4. Cardinality(rows) <= Allowance("cooldown") + Cardinality(Workers)
    BY <1>1, <2>2, <2>3, CheckedWithin
  <2>5. Cardinality(Workers) \in Nat
    BY WorkersFinite, FS_CardinalityType
  <2>6. QED
    BY <2>3, <2>4, <2>5 DEF rows
<1>2. RowsInv /\ LimitsInv => CooldownBounded
  BY <1>1 DEF CooldownBounded
<1>3. QED
  BY <1>2, LimitsAlways, PTL

-----------------------------------------------------------------------------
(* Wrong guesses *)

\* The four things a step of worker w can do to the guesses at row i.
GuessesStay(i) ==
  /\ otps'[i].attempts = otps[i].attempts
  /\ hist'[i].tries = hist[i].tries /\ hist'[i].lost = hist[i].lost
  /\ Missing(i)' = Missing(i)

GuessTaken(w, i) ==
  /\ otps[i].attempts < MaxAttempts /\ otps'[i].attempts = otps[i].attempts
  /\ hist'[i].tries = hist[i].tries + 1 /\ hist'[i].lost = hist[i].lost
  /\ w \notin Missing(i) /\ Missing(i)' = Missing(i) \cup {w}

GuessCounted(w, i) ==
  /\ otps'[i].attempts = otps[i].attempts + 1
  /\ hist'[i].tries = hist[i].tries /\ hist'[i].lost = hist[i].lost
  /\ w \in Missing(i) /\ Missing(i)' = Missing(i) \ {w}

GuessLost(w, i) ==
  /\ otps'[i].attempts = otps[i].attempts
  /\ hist'[i].tries = hist[i].tries /\ hist'[i].lost = hist[i].lost + 1
  /\ w \in Missing(i) /\ Missing(i)' = Missing(i) \ {w}

GuessStep(w) ==
  /\ \A i \in Ids : GuessesStay(i) \/ GuessTaken(w, i) \/ GuessCounted(w, i) \/ GuessLost(w, i)
  /\ \A i \in Ids' \ Ids : /\ otps'[i].attempts = 0 /\ hist'[i].tries = 0 /\ hist'[i].lost = 0
                           /\ Missing(i)' = {}

\* Every guess is counted, on its way or lost; those that are not lost stay in bounds.
GuessInv ==
  \A i \in Ids :
    /\ hist[i].tries = otps[i].attempts + hist[i].lost + Cardinality(Missing(i))
    /\ otps[i].attempts + Cardinality(Missing(i)) <= MaxAttempts - 1 + Cardinality(Workers)

\* A worker's move changes who is missing at a row only by that worker.
LEMMA MissingMoves ==
  ASSUME TypeInv, NEW w \in Workers, NEW r, Goto(w, r), NEW i
  PROVE  Missing(i)' = IF r.pc = "miss" /\ r.row = i THEN Missing(i) \cup {w}
                                                    ELSE Missing(i) \ {w}
<1>1. op'[w] = r /\ \A v \in Workers : v # w => op'[v] = op[v]
  BY DEF Goto, TypeInv, OtpTypeOK
<1>2. QED
  BY <1>1 DEF Missing

\* A worker that is not and will not be missing changes nobody's guesses.
LEMMA MissingStays ==
  ASSUME TypeInv, NEW w \in Workers, NEW r, Goto(w, r), op[w].pc # "miss", r.pc # "miss"
  PROVE  \A i : Missing(i)' = Missing(i)
<1>1. op'[w] = r /\ \A v \in Workers : v # w => op'[v] = op[v]
  BY DEF Goto, TypeInv, OtpTypeOK
<1>2. QED
  BY <1>1 DEF Missing

\* A step that keeps the columns of every row, and moves nobody into or out of missing.
LEMMA StayStep ==
  ASSUME TypeInv, NEW w \in Workers, NEW r, Goto(w, r), op[w].pc # "miss", r.pc # "miss",
         Len(otps') = Len(otps),
         \A i \in Ids : /\ otps'[i].attempts = otps[i].attempts
                        /\ hist'[i].tries = hist[i].tries /\ hist'[i].lost = hist[i].lost
  PROVE  GuessStep(w)
<1>1. \A i : Missing(i)' = Missing(i)
  BY MissingStays
<1>2. Ids' = Ids
  BY DEF Ids
<1>3. QED
  BY <1>1, <1>2 DEF GuessStep, GuessesStay

\* A call of issue takes no guess.
LEMMA IssueGuesses ==
  ASSUME TypeInv, NEW w \in Workers,
         \/ \E k \in Keys : IssueStart(w, k)
         \/ IssueCount(w) \/ IssueUpdate(w) \/ IssueLock(w)
  PROVE  GuessStep(w)
<1>1. UNCHANGED <<otps, hist>> /\ op[w].pc # "miss"
  BY DEF IssueStart, IssueCount, IssueUpdate, IssueLock
<1>2. \E r : Goto(w, r) /\ r.pc # "miss"
  <2>1. CASE \E k \in Keys : IssueStart(w, k)
    BY <2>1 DEF IssueStart, Return
  <2>2. CASE IssueCount(w) \/ IssueUpdate(w) \/ IssueLock(w)
    <3>1. op[w] \in IssueOp
      BY <2>2, WhichOp DEF IssueCount, IssueUpdate, IssueLock, TypeInv
    <3>2. CASE IssueCount(w)
      <4>1. CASE Return(w, "hourly_limit", 0)
        BY <4>1 DEF Return
      <4>2. ASSUME NEW c, Goto(w, [op[w] EXCEPT !.pc = "update", !.checked = @ \cup c])
            PROVE  \E r : Goto(w, r) /\ r.pc # "miss"
        <5>1. [op[w] EXCEPT !.pc = "update", !.checked = @ \cup c].pc = "update"
          BY <3>1 DEF IssueOp
        <5>2. QED
          BY <4>2, <5>1
      <4>3. QED
        BY <3>2, <4>1, <4>2 DEF IssueCount
    <3>3. CASE IssueUpdate(w) \/ IssueLock(w)
      BY <3>3, IssueUpdateLocals, IssueLockLocals
    <3>4. QED
      BY <2>2, <3>2, <3>3
  <2>3. QED
    BY <2>1, <2>2
<1>3. QED
  BY <1>1, <1>2, StayStep DEF Ids

\* A new row has had no guess.
LEMMA InsertGuesses ==
  ASSUME TypeInv, NEW w \in Workers, IssueInsert(w)
  PROVE  GuessStep(w)
<1> DEFINE n == Len(otps) + 1
           h == [accepted |-> 0, tries |-> 0, lost |-> 0,
                 saw |-> op[w].rows, checked |-> op[w].checked]
           r == [op[w] EXCEPT !.pc = "commit", !.row = n]
<1>1. /\ op[w] \in IssueOp /\ op[w].rows \subseteq Ids /\ op[w].pc = "lock"
      /\ otps \in Seq(Row) /\ hist \in Seq(History) /\ Len(hist) = Len(otps)
      /\ clock \in Nat /\ Len(otps) \in Nat
  BY WhichOp DEF IssueInsert, TypeInv, OtpTypeOK, LocalsOK
<1>2. NewRow(w) \in Row /\ h \in History
  BY <1>1, NewRowTyped
<1>3. /\ Len(otps') = n
      /\ otps'[n] = NewRow(w) /\ hist'[n] = h
      /\ \A j \in 1..Len(otps) : otps'[j] = otps[j] /\ hist'[j] = hist[j]
  BY <1>1, <1>2, AppendRow DEF IssueInsert
<1>4. \A i \in Ids' \ Ids : i = n
  BY <1>1, <1>3 DEF Ids
<1>5. Goto(w, r) /\ r.pc = "commit"
  BY <1>1 DEF IssueInsert, IssueOp
<1>6. otps'[n].attempts = 0 /\ hist'[n].tries = 0 /\ hist'[n].lost = 0
  BY <1>3 DEF NewRow
<1> HIDE DEF r, h
<1>7. \A i : Missing(i)' = Missing(i)
  BY <1>1, <1>5, MissingStays
<1>8. Missing(n) = {}
  <2>1. \A v \in Workers : op[v].pc = "miss" => op[v].row \in 1..Len(otps)
    BY WhichOp DEF TypeInv, LocalsOK, Ids
  <2>2. n \notin 1..Len(otps)
    BY <1>1
  <2> HIDE DEF n
  <2>3. QED
    BY <2>1, <2>2 DEF Missing
<1>9. \A i \in Ids : GuessesStay(i)
  BY <1>3, <1>7 DEF GuessesStay, Ids
<1>10. QED
  BY <1>4, <1>6, <1>7, <1>8, <1>9 DEF GuessStep

\* Ending a transaction, or consuming a code, changes no count of guesses.
LEMMA EndGuesses ==
  ASSUME TypeInv, NEW w \in Workers,
         IssueCommit(w) \/ IssueFail(w) \/ VerifyConsume(w) \/ VerifyConsumeFails(w)
  PROVE  GuessStep(w)
<1> DEFINE j == op[w].row
<1>1. /\ op[w].pc # "miss"
      /\ \E result, code : Return(w, result, code)
  BY DEF IssueCommit, IssueFail, VerifyConsume, VerifyConsumeFails
<1>2. \E r : Goto(w, r) /\ r.pc # "miss"
  BY <1>1 DEF Return
<1>3. /\ \A i \in Ids : otps[i] \in Row /\ hist[i] \in History
      /\ otps \in Seq(Row) /\ hist \in Seq(History) /\ Len(hist) = Len(otps)
  BY RowTyped DEF TypeInv, OtpTypeOK
<1>4. CASE IssueCommit(w)
  <2>1. \A i \in Ids : otps'[i] = IF i = j THEN [otps[i] EXCEPT !.status = "committed"]
                                 ELSE IF i \in op[w].rows THEN [otps[i] EXCEPT !.consumed = TRUE]
                                 ELSE otps[i]
    BY <1>4 DEF IssueCommit, Committed
  <2>2. \A i \in Ids : otps'[i].attempts = otps[i].attempts
    BY <1>3, <2>1 DEF Row
  <2>3. Len(otps') = Len(otps) /\ hist' = hist
    BY <1>4, CommittedTable DEF IssueCommit
  <2>4. QED
    BY <1>1, <1>2, <2>2, <2>3, StayStep
<1>5. ASSUME j \in Ids, NEW o \in Row, o.attempts = otps[j].attempts,
             otps' = [otps EXCEPT ![j] = o],
             \A i \in Ids : hist'[i].tries = hist[i].tries /\ hist'[i].lost = hist[i].lost
      PROVE  GuessStep(w)
  <2> HIDE DEF j
  <2>1. Len(otps') = Len(otps) /\ otps'[j] = o /\ \A i \in 1..Len(otps) : i # j => otps'[i] = otps[i]
    BY <1>3, <1>5, UpdateRow DEF Ids
  <2>2. \A i \in Ids : otps'[i].attempts = otps[i].attempts
    BY <1>5, <2>1 DEF Ids
  <2>3. QED
    BY <1>1, <1>2, <1>5, <2>1, <2>2, StayStep
<1>6. CASE UNCHANGED <<otps, hist>>
  BY <1>1, <1>2, <1>6, StayStep
<1>7. CASE IssueFail(w) /\ op[w].pc = "commit"
  <2> DEFINE o == [otps[j] EXCEPT !.status = "rolledback"]
  <2>1. j \in Ids
    BY <1>7 DEF TypeInv, LocalsOK
  <2>2. o \in Row /\ o.attempts = otps[j].attempts
    BY <1>3, <2>1 DEF Row
  <2>3. otps' = [otps EXCEPT ![j] = o] /\ hist' = hist
    BY <1>7 DEF IssueFail
  <2> HIDE DEF o, j
  <2>4. QED
    BY <1>5, <2>1, <2>2, <2>3
<1>8. ASSUME j \in Ids, otps' = [otps EXCEPT ![j].consumed = TRUE],
             hist' = hist \/ hist' = [hist EXCEPT ![j].accepted = @ + 1]
      PROVE  GuessStep(w)
  <2> DEFINE o == [otps[j] EXCEPT !.consumed = TRUE]
             h == [hist[j] EXCEPT !.accepted = @ + 1]
  <2>1. o \in Row /\ o.attempts = otps[j].attempts
    BY <1>3, <1>8 DEF Row
  <2>2. h \in History /\ h.tries = hist[j].tries /\ h.lost = hist[j].lost
    <3>1. hist[j] \in History
      BY <1>3, <1>8
    <3>2. QED
      BY <3>1 DEF History
  <2>3. otps' = [otps EXCEPT ![j] = o] /\ (hist' = hist \/ hist' = [hist EXCEPT ![j] = h])
    BY <1>8
  <2> HIDE DEF o, h, j
  <2>4. \A i \in Ids : hist'[i].tries = hist[i].tries /\ hist'[i].lost = hist[i].lost
    <3>1. CASE hist' = hist
      BY <3>1
    <3>2. CASE hist' = [hist EXCEPT ![j] = h]
      <4>1. hist'[j] = h /\ \A i \in 1..Len(hist) : i # j => hist'[i] = hist[i]
        BY <1>3, <1>8, <2>2, <3>2, UpdateRow DEF Ids
      <4>2. QED
        BY <1>3, <2>2, <4>1 DEF Ids
    <3>3. QED
      BY <2>3, <3>1, <3>2
  <2>5. QED
    BY <1>5, <1>8, <2>1, <2>3, <2>4
<1>9. CASE VerifyConsume(w) \/ VerifyConsumeFails(w)
  <2>1. j \in Ids
    BY <1>9, WhichOp DEF VerifyConsume, VerifyConsumeFails, TypeInv, LocalsOK
  <2>2. \/ UNCHANGED <<otps, hist>>
        \/ /\ otps' = [otps EXCEPT ![j].consumed = TRUE]
           /\ hist' = hist \/ hist' = [hist EXCEPT ![j].accepted = @ + 1]
    BY <1>9 DEF VerifyConsume, VerifyConsumeFails
  <2>3. QED
    BY <1>6, <1>8, <2>1, <2>2
<1>10. CASE IssueFail(w) /\ op[w].pc # "commit"
  BY <1>6, <1>10 DEF IssueFail
<1>11. QED
  BY <1>4, <1>7, <1>9, <1>10

\* A wrong guess is taken only while the attempts read are below the limit.
LEMMA ReadGuesses ==
  ASSUME TypeInv, NEW w \in Workers, NEW k \in Keys, NEW guess \in Guesses,
         VerifyRead(w, k, guess)
  PROVE  GuessStep(w)
<1>1. op[w].pc = "idle" /\ op[w].pc # "miss" /\ otps' = otps
  BY DEF VerifyRead
<1>2. CASE UNCHANGED hist /\ \E r : Goto(w, r) /\ r.pc # "miss"
  BY <1>1, <1>2, StayStep
<1>3. ASSUME NEW i \in Latest(Usable(k)), ~LockedOut(otps[i].attempts), NEW res,
             Goto(w, [pc |-> "miss", row |-> i, result |-> res]),
             hist' = [hist EXCEPT ![i].tries = @ + 1]
      PROVE  GuessStep(w)
  <2> DEFINE h == [hist[i] EXCEPT !.tries = @ + 1]
             r == [pc |-> "miss", row |-> i, result |-> res]
  <2>1. i \in Ids
    BY DEF Latest, Usable, Unconsumed, Stored
  <2>2. otps[i] \in Row /\ hist[i] \in History
    BY <2>1, RowTyped
  <2>3. h \in History /\ h.tries = hist[i].tries + 1 /\ h.lost = hist[i].lost
    BY <2>2 DEF History
  <2>4. hist' = [hist EXCEPT ![i] = h] /\ Goto(w, r) /\ r.pc = "miss" /\ r.row = i
    BY <1>3
  <2> HIDE DEF h, r
  <2>5. hist'[i] = h /\ \A j \in 1..Len(hist) : j # i => hist'[j] = hist[j]
    BY <2>1, <2>3, <2>4, UpdateRow DEF TypeInv, OtpTypeOK, Ids
  <2>6. \A j : w \notin Missing(j)
    BY <1>1 DEF Missing
  <2>7. Missing(i)' = Missing(i) \cup {w} /\ \A j : j # i => Missing(j)' = Missing(j)
    <3>1. \A j : Missing(j)' = IF r.pc = "miss" /\ r.row = j THEN Missing(j) \cup {w}
                                                            ELSE Missing(j) \ {w}
      BY <2>4, MissingMoves
    <3>2. QED
      BY <2>4, <2>6, <3>1
  <2>8. otps[i].attempts < MaxAttempts
    BY <1>3, <2>2, LimitsPositive DEF LockedOut, Row
  <2>9. GuessTaken(w, i)
    BY <1>1, <2>3, <2>5, <2>6, <2>7, <2>8 DEF GuessTaken
  <2>10. \A j \in Ids : j # i => GuessesStay(j)
    BY <1>1, <2>5, <2>7 DEF GuessesStay, Ids, TypeInv, OtpTypeOK
  <2>11. Ids' = Ids
    BY <1>1 DEF Ids
  <2>12. QED
    BY <2>9, <2>10, <2>11 DEF GuessStep
<1>4. ASSUME NEW result, NEW code, Return(w, result, code)
      PROVE  \E r : Goto(w, r) /\ r.pc # "miss"
  BY <1>4 DEF Return
<1>5. ASSUME NEW i, Goto(w, [pc |-> "consume", row |-> i, result |-> "ok"])
      PROVE  \E r : Goto(w, r) /\ r.pc # "miss"
  BY <1>5
<1>6. \/ /\ UNCHANGED hist
         /\ \/ \E result, code : Return(w, result, code)
            \/ \E i : Goto(w, [pc |-> "consume", row |-> i, result |-> "ok"])
      \/ \E i \in Latest(Usable(k)) : \E res :
           /\ ~LockedOut(otps[i].attempts)
           /\ Goto(w, [pc |-> "miss", row |-> i, result |-> res])
           /\ hist' = [hist EXCEPT ![i].tries = @ + 1]
  BY DEF VerifyRead
<1>7. QED
  BY <1>2, <1>3, <1>4, <1>5, <1>6

\* A guess leaves missing by being counted or lost.
LEMMA MissGuesses ==
  ASSUME TypeInv, NEW w \in Workers, VerifyMiss(w) \/ VerifyMissFails(w)
  PROVE  GuessStep(w)
<1>1. PICK i \in Ids : /\ i = op[w].row /\ w \in Missing(i)
                      /\ \A j \in Ids : j # i => w \notin Missing(j)
  <2>1. op[w].row \in Ids /\ op[w].pc = "miss"
    BY WhichOp DEF VerifyMiss, VerifyMissFails, TypeInv, LocalsOK
  <2>2. QED
    BY <2>1 DEF Missing
<1>2. otps[i] \in Row /\ hist[i] \in History
  BY RowTyped
<1>3. otps \in Seq(Row) /\ hist \in Seq(History) /\ Len(hist) = Len(otps)
  BY DEF TypeInv, OtpTypeOK
<1>4. \A j \in Ids : Missing(j)' = Missing(j) \ {w}
  <2> DEFINE r == [pc |-> "idle", result |-> op[w].result, code |-> 0]
  <2>1. Goto(w, r) /\ r.pc # "miss"
    BY DEF VerifyMiss, VerifyMissFails, Return
  <2> HIDE DEF r
  <2>2. QED
    BY <2>1, MissingMoves
<1>5. CASE VerifyMiss(w)
  <2> DEFINE o == [otps[i] EXCEPT !.attempts = @ + 1]
  <2>1. o \in Row /\ o.attempts = otps[i].attempts + 1
    BY <1>2 DEF Row
  <2>2. otps' = [otps EXCEPT ![i] = o] /\ hist' = hist
    BY <1>1, <1>5 DEF VerifyMiss, CountMiss
  <2> HIDE DEF o
  <2>3. Len(otps') = Len(otps) /\ otps'[i] = o /\ \A j \in 1..Len(otps) : j # i => otps'[j] = otps[j]
    BY <1>1, <1>3, <2>1, <2>2, UpdateRow DEF Ids
  <2>4. GuessCounted(w, i)
    BY <1>1, <1>4, <2>1, <2>2, <2>3 DEF GuessCounted
  <2>5. ASSUME NEW j \in Ids, j # i PROVE GuessesStay(j)
    <3>1. otps'[j] = otps[j] /\ hist'[j] = hist[j]
      BY <2>2, <2>3, <2>5 DEF Ids
    <3>2. Missing(j)' = Missing(j)
      BY <1>1, <1>4, <2>5
    <3>3. QED
      BY <3>1, <3>2 DEF GuessesStay
  <2>6. QED
    BY <2>3, <2>4, <2>5 DEF GuessStep, Ids
<1>6. CASE VerifyMissFails(w)
  <2> DEFINE h == [hist[i] EXCEPT !.lost = @ + 1]
  <2>1. h \in History /\ h.tries = hist[i].tries /\ h.lost = hist[i].lost + 1
    BY <1>2 DEF History
  <2>2. hist' = [hist EXCEPT ![i] = h] /\ otps' = otps
    BY <1>1, <1>6 DEF VerifyMissFails
  <2> HIDE DEF h
  <2>3. hist'[i] = h /\ \A j \in 1..Len(hist) : j # i => hist'[j] = hist[j]
    BY <1>1, <1>3, <2>1, <2>2, UpdateRow DEF Ids
  <2>4. GuessLost(w, i)
    BY <1>1, <1>4, <2>1, <2>2, <2>3 DEF GuessLost
  <2>5. ASSUME NEW j \in Ids, j # i PROVE GuessesStay(j)
    <3>1. otps'[j] = otps[j] /\ hist'[j] = hist[j]
      BY <1>3, <2>2, <2>3, <2>5 DEF Ids
    <3>2. Missing(j)' = Missing(j)
      BY <1>1, <1>4, <2>5
    <3>3. QED
      BY <3>1, <3>2 DEF GuessesStay
  <2>6. QED
    BY <2>2, <2>4, <2>5 DEF GuessStep, Ids
<1>7. QED
  BY <1>5, <1>6

\* Each of the four changes keeps the count and the bound.
LEMMA GuessStepKeeps ==
  ASSUME TypeInv, GuessInv, NEW w \in Workers, GuessStep(w)
  PROVE  GuessInv'
<1>1. /\ IsFiniteSet(Workers) /\ Cardinality(Workers) \in Nat /\ MaxAttempts \in Nat \ {0}
      /\ Cardinality(Workers) # 0
  BY WorkersFinite, LimitsPositive, FS_CardinalityType, FS_EmptySet
<1>2. ASSUME NEW i \in Ids
      PROVE  /\ hist'[i].tries = otps'[i].attempts + hist'[i].lost + Cardinality(Missing(i)')
             /\ otps'[i].attempts + Cardinality(Missing(i)')
                  <= MaxAttempts - 1 + Cardinality(Workers)
  <2> DEFINE M == Missing(i)
             M2 == Missing(i)'
  <2>1. /\ hist[i].tries = otps[i].attempts + hist[i].lost + Cardinality(M)
        /\ otps[i].attempts + Cardinality(M) <= MaxAttempts - 1 + Cardinality(Workers)
    BY DEF GuessInv
  <2>2. otps[i].attempts \in Nat /\ hist[i].tries \in Nat /\ hist[i].lost \in Nat
    BY RowTyped DEF Row, History
  <2>3. M \in SUBSET Workers /\ M2 \in SUBSET Workers
    BY DEF Missing
  <2>4. GuessesStay(i) \/ GuessTaken(w, i) \/ GuessCounted(w, i) \/ GuessLost(w, i)
    BY DEF GuessStep
  <2>5. /\ GuessesStay(i) => M2 = M
        /\ GuessTaken(w, i) => w \notin M /\ M2 = M \cup {w}
        /\ GuessCounted(w, i) \/ GuessLost(w, i) => w \in M /\ M2 = M \ {w}
    BY DEF GuessesStay, GuessTaken, GuessCounted, GuessLost
  <2> HIDE DEF M, M2
  <2>6. /\ IsFiniteSet(M) /\ Cardinality(M) \in Nat
        /\ Cardinality(M2) \in Nat /\ Cardinality(M2) <= Cardinality(Workers)
    BY <1>1, <2>3, FS_Subset, FS_CardinalityType
  <2>7. GuessTaken(w, i) => Cardinality(M2) = Cardinality(M) + 1
    BY <2>5, <2>6, FS_AddElement
  <2>8. GuessCounted(w, i) \/ GuessLost(w, i) => Cardinality(M2) = Cardinality(M) - 1
    BY <2>5, <2>6, FS_RemoveElement
  <2>9. CASE GuessesStay(i)
    BY <2>1, <2>5, <2>9 DEF GuessesStay, M2
  <2>10. CASE GuessTaken(w, i)
    BY <1>1, <2>1, <2>2, <2>6, <2>7, <2>10 DEF GuessTaken, M2
  <2>11. CASE GuessCounted(w, i)
    BY <1>1, <2>1, <2>2, <2>6, <2>8, <2>11 DEF GuessCounted, M2
  <2>12. CASE GuessLost(w, i)
    BY <1>1, <2>1, <2>2, <2>6, <2>8, <2>12 DEF GuessLost, M2
  <2>13. QED
    BY <2>4, <2>9, <2>10, <2>11, <2>12
<1>3. ASSUME NEW i \in Ids' \ Ids
      PROVE  /\ hist'[i].tries = otps'[i].attempts + hist'[i].lost + Cardinality(Missing(i)')
             /\ otps'[i].attempts + Cardinality(Missing(i)')
                  <= MaxAttempts - 1 + Cardinality(Workers)
  <2>1. /\ otps'[i].attempts = 0 /\ hist'[i].tries = 0 /\ hist'[i].lost = 0
        /\ Missing(i)' = {}
    BY DEF GuessStep
  <2>2. Cardinality({}) = 0
    BY FS_EmptySet
  <2>3. QED
    BY <1>1, <2>1, <2>2
<1>4. QED
  BY <1>2, <1>3 DEF GuessInv

\* Every step of the store keeps the count of the guesses.
LEMMA NextGuesses == ASSUME TypeInv, GuessInv, [OtpNext]_otpVars PROVE GuessInv'
<1>1. ASSUME NEW w \in Workers, Call(w) PROVE GuessStep(w)
  BY <1>1, IssueGuesses, ReadGuesses DEF Call
<1>2. ASSUME NEW w \in Workers, IssueStep(w) \/ VerifyStep(w) \/ Fault(w) PROVE GuessStep(w)
  BY <1>2, IssueGuesses, InsertGuesses, EndGuesses, MissGuesses DEF IssueStep, VerifyStep, Fault
<1>3. CASE Tick \/ UNCHANGED otpVars
  <2>1. UNCHANGED <<otps, op, hist>>
    BY <1>3 DEF Tick, otpVars
  <2>2. QED
    BY <2>1 DEF GuessInv, Missing, Ids
<1>4. QED
  BY <1>1, <1>2, <1>3, GuessStepKeeps, NextKinds

\* The count holds from the start.
LEMMA GuessesAlways == OtpSpec => []GuessInv
<1>1. OtpInit => GuessInv
  BY DEF OtpInit, GuessInv, Ids
<1>2. QED
  BY <1>1, InitTyped, NextTyped, NextGuesses, PTL DEF OtpSpec

\* No wrong guess is forgotten (otp.go:109-110).
THEOREM GuessCountKept == OtpSpec => []GuessesCounted
<1>1. GuessInv => GuessesCounted
  BY DEF GuessInv, GuessesCounted
<1>2. QED
  BY <1>1, GuessesAlways, PTL

\* A code takes at most one more wrong guess per extra worker than otpMaxAttempts, plus
\* those whose increment failed, whatever the interleaving (otp.go:105-110).
THEOREM GuessLimit == OtpSpec => []GuessesBounded
<1>1. ASSUME TypeInv, GuessInv, NEW i \in Ids
      PROVE  hist[i].tries <= MaxAttempts - 1 + Cardinality(Workers) + hist[i].lost
  <2>1. /\ hist[i].tries = otps[i].attempts + hist[i].lost + Cardinality(Missing(i))
        /\ otps[i].attempts + Cardinality(Missing(i)) <= MaxAttempts - 1 + Cardinality(Workers)
    BY <1>1 DEF GuessInv
  <2>2. otps[i].attempts \in Nat /\ hist[i].lost \in Nat
    BY <1>1, RowTyped DEF Row, History
  <2>3. Missing(i) \in SUBSET Workers
    BY DEF Missing
  <2>4. Cardinality(Workers) \in Nat /\ Cardinality(Missing(i)) \in Nat /\ MaxAttempts \in Nat
    BY <2>3, WorkersFinite, LimitsPositive, FS_Subset, FS_CardinalityType
  <2>5. QED
    BY <2>1, <2>2, <2>4
<1>2. TypeInv /\ GuessInv => GuessesBounded
  BY <1>1 DEF GuessesBounded
<1>3. QED
  BY <1>2, GuessesAlways, InitTyped, NextTyped, PTL DEF OtpSpec

-----------------------------------------------------------------------------
(* The store implements the code book *)

\* Rows there are and rows on their way fit the book.
FitsBook == Len(otps) + Cardinality({v \in Workers : op[v].pc \in RoomPlaces}) <= MaxCodes

\* The counts that bound the table are numbers.
LEMMA RoomFinite ==
  ASSUME NEW S \in SUBSET Workers
  PROVE  IsFiniteSet(S) /\ Cardinality(S) \in Nat
BY WorkersFinite, FS_Subset, FS_CardinalityType

\* A call starts only when there is room, and inserts at most one row.
LEMMA MoveFits ==
  ASSUME RowsInv, TypeInv', FitsBook, NEW w \in Workers, Moves(w)
  PROVE  FitsBook'
<1> DEFINE R == {v \in Workers : op[v].pc \in RoomPlaces}
           R2 == {v \in Workers : op'[v].pc \in RoomPlaces}
           I == {v \in Workers : Issuing(v)}
<1>1. /\ \A v \in Workers : v # w => op'[v] = op[v]
      /\ \/ Len(otps') = Len(otps)
         \/ op[w].pc = "lock" /\ op'[w].pc = "commit" /\ Len(otps') = Len(otps) + 1
      /\ op'[w].pc \in RoomPlaces => op[w].pc \in RoomPlaces \/ Room
  BY DEF Moves
<1>2. Len(otps) \in Nat /\ MaxCodes \in Nat
  BY BoundsNat DEF RowsInv, TypeInv, OtpTypeOK
<1>3. Len(otps) + Cardinality(R) <= MaxCodes
  BY DEF FitsBook
<1>4. R \in SUBSET I /\ I \in SUBSET Workers /\ R2 \in SUBSET (R \cup {w})
  BY <1>1 DEF RoomPlaces, Issuing
<1>5. Room => Len(otps) + Cardinality(I) < MaxCodes
  BY DEF Room
<1>6. w \in R <=> op[w].pc \in RoomPlaces
  OBVIOUS
<1>7. w \in R2 <=> op'[w].pc \in RoomPlaces
  OBVIOUS
<1> HIDE DEF R, R2, I
<1>8. /\ IsFiniteSet(R) /\ Cardinality(R) \in Nat /\ IsFiniteSet(I) /\ Cardinality(I) \in Nat
      /\ Cardinality(R) <= Cardinality(I)
      /\ IsFiniteSet(R \cup {w}) /\ Cardinality(R \cup {w}) \in Nat
      /\ Cardinality(R2) \in Nat
  BY <1>4, RoomFinite, FS_Subset, FS_AddElement, FS_CardinalityType
<1>9. Cardinality(R \cup {w}) = IF w \in R THEN Cardinality(R) ELSE Cardinality(R) + 1
  BY <1>8, FS_AddElement
<1>10. Cardinality(R2) <= Cardinality(R \cup {w})
  BY <1>4, <1>8, FS_Subset
<1>11. Len(otps') + Cardinality(R2) <= MaxCodes
  <2>1. CASE op[w].pc = "lock" /\ op'[w].pc = "commit" /\ Len(otps') = Len(otps) + 1
    <3>1. w \in R /\ w \notin R2
      BY <1>6, <1>7, <2>1 DEF RoomPlaces
    <3>2. R2 \in SUBSET (R \ {w})
      BY <1>4, <3>1
    <3>3. IsFiniteSet(R \ {w}) /\ Cardinality(R \ {w}) = Cardinality(R) - 1
      BY <1>8, <3>1, FS_RemoveElement
    <3>4. Cardinality(R2) <= Cardinality(R \ {w})
      BY <3>2, <3>3, FS_Subset
    <3>5. QED
      BY <1>2, <1>3, <1>8, <2>1, <3>3, <3>4
  <2>2. CASE Len(otps') = Len(otps) /\ w \in R2 /\ w \notin R
    <3>1. Room
      BY <1>1, <1>6, <1>7, <2>2
    <3>2. QED
      BY <1>2, <1>5, <1>8, <1>9, <1>10, <2>2, <3>1
  <2>3. CASE Len(otps') = Len(otps) /\ ~(w \in R2 /\ w \notin R)
    <3>1. R2 \in SUBSET R
      BY <1>4, <2>3
    <3>2. Cardinality(R2) <= Cardinality(R)
      BY <1>8, <3>1, FS_Subset
    <3>3. QED
      BY <1>2, <1>3, <1>8, <2>3, <3>2
  <2>4. QED
    BY <1>1, <2>1, <2>2, <2>3
<1>12. QED
  BY <1>11 DEF FitsBook, R2

\* What the refinement rests on.
BookInv == CodesInv /\ RowsInv /\ FitsBook

\* It holds in every behaviour.
LEMMA BookAlways == OtpSpec => []BookInv
<1>1. OtpInit => FitsBook
  <2> SUFFICES ASSUME OtpInit PROVE FitsBook
    OBVIOUS
  <2>1. {v \in Workers : op[v].pc \in RoomPlaces} = {} /\ Len(otps) = 0
    BY EmptySeq DEF OtpInit, RoomPlaces
  <2>2. Cardinality({}) = 0 /\ MaxCodes \in Nat
    BY FS_EmptySet, BoundsNat
  <2>3. Cardinality({v \in Workers : op[v].pc \in RoomPlaces}) = 0
    BY <2>1, <2>2, Zenon
  <2> DEFINE c == Cardinality({v \in Workers : op[v].pc \in RoomPlaces})
  <2>4. FitsBook <=> Len(otps) + c <= MaxCodes
    BY Zenon DEF FitsBook
  <2> HIDE DEF c
  <2>5. QED
    BY <2>1, <2>2, <2>3, <2>4 DEF c
<1>2. RowsInv /\ FitsBook /\ [OtpNext]_otpVars => FitsBook'
  <2> SUFFICES ASSUME RowsInv, FitsBook, [OtpNext]_otpVars PROVE FitsBook'
    OBVIOUS
  <2>1. TypeInv'
    BY NextTyped DEF RowsInv
  <2>2. CASE Tick \/ UNCHANGED otpVars
    BY <2>2 DEF Tick, otpVars, FitsBook
  <2>3. QED
    BY <2>1, <2>2, NextMoves, MoveFits
<1>3. RowsInv /\ [OtpNext]_otpVars => RowsInv'
  BY NextRows
<1>4. QED
  BY <1>1, <1>2, <1>3, InitRows, CodesAlways, PTL DEF OtpSpec, BookInv

\* The page of the book that row i, its history and its table make.
Page(i, o, h) ==
  IF i \notin 1..Len(o) \/ o[i].status # "committed" THEN "unissued"
  ELSE IF h[i].accepted > 0 THEN "accepted"
  ELSE IF o[i].consumed THEN "dead" ELSE "live"

\* The book of the store, as ImplementsCodeBook has it.
StoreBook(o, h) == [i \in 1..MaxCodes |-> Page(i, o, h)]

\* What every step does to committed rows that neither commits nor consumes one.
Discreet ==
  /\ Len(otps) <= Len(otps') /\ Len(otps') \in Nat
  /\ \A i \in Ids : /\ otps[i].status = "committed" <=> otps'[i].status = "committed"
                    /\ otps[i].status = "committed" =>
                         /\ otps'[i].consumed = otps[i].consumed
                         /\ hist'[i].accepted = hist[i].accepted
  /\ \A i \in Ids' \ Ids : otps'[i].status # "committed"

\* Such a step stutters in the book.
LEMMA BookStutters ==
  ASSUME TypeInv, Discreet
  PROVE  StoreBook(otps', hist') = StoreBook(otps, hist)
<1>1. Len(otps) \in Nat /\ Len(otps) <= Len(otps') /\ Len(otps') \in Nat
  BY DEF TypeInv, OtpTypeOK, Discreet
<1>2. ASSUME NEW i \in 1..MaxCodes PROVE Page(i, otps', hist') = Page(i, otps, hist)
  <2>1. CASE i \in Ids
    <3>1. i \in 1..Len(otps) /\ i \in 1..Len(otps')
      BY <1>1, <2>1 DEF Ids
    <3>2. /\ otps[i].status = "committed" <=> otps'[i].status = "committed"
          /\ otps[i].status = "committed" => /\ otps'[i].consumed = otps[i].consumed
                                            /\ hist'[i].accepted = hist[i].accepted
      BY <2>1 DEF Discreet
    <3>3. QED
      BY <3>1, <3>2, Zenon DEF Page
  <2>2. CASE i \in Ids' \ Ids
    <3>1. i \notin 1..Len(otps) /\ otps'[i].status # "committed"
      BY <2>2 DEF Ids, Discreet
    <3>2. QED
      BY <3>1, Zenon DEF Page
  <2>3. CASE i \notin Ids /\ i \notin Ids'
    <3>1. i \notin 1..Len(otps) /\ i \notin 1..Len(otps')
      BY <2>3 DEF Ids
    <3>2. QED
      BY <3>1, Zenon DEF Page
  <2>4. QED
    BY <2>1, <2>2, <2>3
<1>3. QED
  BY <1>2 DEF StoreBook

\* A row that keeps its status and consumption, and whose history keeps its count.
LEMMA ReplaceDiscreet ==
  ASSUME TypeInv, NEW i \in Ids, NEW o \in Row, NEW h \in History,
         o.status = otps[i].status \/ {o.status, otps[i].status} = {"pending", "rolledback"},
         o.consumed = otps[i].consumed, h.accepted = hist[i].accepted,
         otps' = otps \/ otps' = [otps EXCEPT ![i] = o],
         hist' = hist \/ hist' = [hist EXCEPT ![i] = h]
  PROVE  Discreet
<1>1. i \in 1..Len(otps) /\ i \in 1..Len(hist) /\ Len(otps) \in Nat
  BY DEF TypeInv, OtpTypeOK, Ids
<1>2. Len(otps') = Len(otps) /\ (otps'[i] = otps[i] \/ otps'[i] = o)
      /\ \A j \in Ids : j # i => otps'[j] = otps[j]
  BY <1>1, UpdateRow DEF TypeInv, OtpTypeOK, Ids
<1>3. (hist'[i] = hist[i] \/ hist'[i] = h) /\ \A j \in Ids : j # i => hist'[j] = hist[j]
  BY <1>1, UpdateRow DEF TypeInv, OtpTypeOK, Ids
<1>4. Ids' = Ids
  BY <1>2 DEF Ids
<1>5. o.status = "committed" <=> otps[i].status = "committed"
  OBVIOUS
<1>6. QED
  BY <1>1, <1>2, <1>3, <1>4, <1>5 DEF Discreet

\* Rows inserted stay pending, and the others stay as they are.
LEMMA InsertDiscreet ==
  ASSUME TypeInv, NEW w \in Workers, IssueInsert(w)
  PROVE  Discreet
<1> DEFINE h == [accepted |-> 0, tries |-> 0, lost |-> 0,
                 saw |-> op[w].rows, checked |-> op[w].checked]
<1>1. /\ otps \in Seq(Row) /\ hist \in Seq(History) /\ Len(hist) = Len(otps)
      /\ op[w] \in IssueOp /\ clock \in Nat /\ Len(otps) \in Nat
  BY WhichOp DEF IssueInsert, TypeInv, OtpTypeOK
<1>2. NewRow(w) \in Row /\ h \in History
  BY <1>1, NewRowTyped
<1>3. /\ Len(otps') = Len(otps) + 1
      /\ otps'[Len(otps) + 1] = NewRow(w)
      /\ \A j \in 1..Len(otps) : otps'[j] = otps[j] /\ hist'[j] = hist[j]
  BY <1>1, <1>2, AppendRow DEF IssueInsert
<1>4. \A i \in Ids' \ Ids : i = Len(otps) + 1
  BY <1>1, <1>3 DEF Ids
<1>5. NewRow(w).status = "pending"
  BY DEF NewRow
<1>6. QED
  BY <1>1, <1>3, <1>4, <1>5 DEF Discreet, Ids

\* A rolled back row was never committed.
LEMMA FailDiscreet ==
  ASSUME RowsInv, NEW w \in Workers, IssueFail(w)
  PROVE  Discreet
<1>1. CASE op[w].pc # "commit"
  BY <1>1 DEF IssueFail, Discreet, RowsInv, TypeInv, OtpTypeOK, Ids
<1>2. CASE op[w].pc = "commit"
  <2>1. PICK i \in Ids : i = op[w].row
    BY <1>2 DEF RowsInv, TypeInv, LocalsOK
  <2>2. otps[i] \in Row /\ hist[i] \in History /\ otps[i].status = "pending"
    BY <1>2, <2>1, RowTyped DEF RowsInv, AllInPlace, InPlace
  <2> DEFINE o == [otps[i] EXCEPT !.status = "rolledback"]
  <2>3. o \in Row /\ o.status = "rolledback" /\ o.consumed = otps[i].consumed
    BY <2>2 DEF Row
  <2>4. otps' = [otps EXCEPT ![i] = o] /\ hist' = hist
    BY <1>2, <2>1 DEF IssueFail
  <2>5. TypeInv /\ {o.status, otps[i].status} = {"pending", "rolledback"}
    BY <2>2, <2>3 DEF RowsInv
  <2> HIDE DEF o
  <2>6. QED
    BY <2>1, <2>2, <2>3, <2>4, <2>5, ReplaceDiscreet
<1>3. QED
  BY <1>1, <1>2

\* Reading a row, and counting a guess against it or failing to, decide no row's fate.
LEMMA GuessDiscreet ==
  ASSUME TypeInv, NEW w \in Workers,
         \/ \E k \in Keys, guess \in Guesses : VerifyRead(w, k, guess)
         \/ VerifyMiss(w) \/ VerifyMissFails(w)
  PROVE  Discreet
<1>1. \/ UNCHANGED <<otps, hist>>
      \/ \E i \in Ids : \/ otps' = otps /\ hist' = [hist EXCEPT ![i].tries = @ + 1]
                        \/ otps' = otps /\ hist' = [hist EXCEPT ![i].lost = @ + 1]
                        \/ otps' = [otps EXCEPT ![i].attempts = @ + 1] /\ hist' = hist
  <2>1. CASE \E k \in Keys, guess \in Guesses : VerifyRead(w, k, guess)
    BY <2>1 DEF VerifyRead, Latest, Usable, Unconsumed, Stored
  <2>2. CASE VerifyMiss(w) \/ VerifyMissFails(w)
    <3>1. op[w].row \in Ids
      BY <2>2, WhichOp DEF VerifyMiss, VerifyMissFails, TypeInv, LocalsOK
    <3>2. QED
      BY <2>2, <3>1 DEF VerifyMiss, VerifyMissFails, CountMiss
  <2>3. QED
    BY <2>1, <2>2
<1>2. CASE UNCHANGED <<otps, hist>>
  BY <1>2 DEF Discreet, TypeInv, OtpTypeOK, Ids
<1>3. ASSUME NEW i \in Ids,
             \/ otps' = otps /\ hist' = [hist EXCEPT ![i].tries = @ + 1]
             \/ otps' = otps /\ hist' = [hist EXCEPT ![i].lost = @ + 1]
             \/ otps' = [otps EXCEPT ![i].attempts = @ + 1] /\ hist' = hist
      PROVE  Discreet
  <2> DEFINE o == [otps[i] EXCEPT !.attempts = @ + 1]
             g == [hist[i] EXCEPT !.tries = @ + 1]
             h == [hist[i] EXCEPT !.lost = @ + 1]
  <2>1. otps[i] \in Row /\ hist[i] \in History
    BY RowTyped
  <2>2. o \in Row /\ o.status = otps[i].status /\ o.consumed = otps[i].consumed
    BY <2>1 DEF Row
  <2>3. /\ g \in History /\ g.accepted = hist[i].accepted
        /\ h \in History /\ h.accepted = hist[i].accepted
    BY <2>1 DEF History
  <2>4. /\ otps' = otps \/ otps' = [otps EXCEPT ![i] = o]
        /\ \/ hist' = hist \/ hist' = [hist EXCEPT ![i] = g]
           \/ hist' = [hist EXCEPT ![i] = h]
    BY <1>3
  <2> HIDE DEF o, g, h
  <2>5. CASE hist' = hist \/ hist' = [hist EXCEPT ![i] = g]
    BY <2>2, <2>3, <2>4, <2>5, ReplaceDiscreet
  <2>6. CASE hist' = [hist EXCEPT ![i] = h]
    BY <2>2, <2>3, <2>4, <2>6, ReplaceDiscreet
  <2>7. QED
    BY <2>4, <2>5, <2>6
<1>4. QED
  BY <1>1, <1>2, <1>3

\* The codes that can still be accepted.
LivePages == {i \in 1..MaxCodes : Page(i, otps, hist) = "live"}

\* A commit issues the worker's row, and kills the live ones among those it superseded.
LEMMA CommitIssues ==
  ASSUME BookInv, NEW w \in Workers, IssueCommit(w)
  PROVE  \E j \in 1..MaxCodes, killed \in SUBSET LivePages :
           /\ Page(j, otps, hist) = "unissued"
           /\ \A i \in 1..MaxCodes :
                Page(i, otps', hist') = IF i = j THEN "live"
                                        ELSE IF i \in killed THEN "dead"
                                        ELSE Page(i, otps, hist)
<1>1. Len(otps) \in Nat /\ MaxCodes \in Nat /\ Len(otps) <= MaxCodes
  <2>1. Cardinality({v \in Workers : op[v].pc \in RoomPlaces}) \in Nat
    BY RoomFinite
  <2>2. QED
    BY <2>1, BoundsNat DEF BookInv, FitsBook, RowsInv, TypeInv, OtpTypeOK
<1>2. PICK j \in Ids : j = op[w].row
  BY DEF IssueCommit, BookInv, RowsInv, TypeInv, LocalsOK
<1>3. /\ otps[j].status = "pending" /\ ~otps[j].consumed /\ hist[j].accepted = 0
      /\ op[w] \in IssueOp /\ op[w].rows \subseteq Ids
      /\ \A i \in op[w].rows : otps[i].status = "committed"
  BY <1>2, WhichOp
     DEF IssueCommit, BookInv, RowsInv, AllInPlace, InPlace, PendingOwned, IssuePlaces,
         TypeInv, LocalsOK
<1> DEFINE killed == op[w].rows \cap LivePages
<1>4. j \in 1..MaxCodes /\ j \in 1..Len(otps) /\ Page(j, otps, hist) = "unissued"
  BY <1>1, <1>2, <1>3 DEF Ids, Page
<1>5. hist' = hist /\ Len(otps') = Len(otps)
      /\ \A i \in Ids : otps'[i] = IF i = j THEN [otps[i] EXCEPT !.status = "committed"]
                                    ELSE IF i \in op[w].rows
                                         THEN [otps[i] EXCEPT !.consumed = TRUE]
                                         ELSE otps[i]
  BY <1>2, CommittedTable DEF IssueCommit, Committed, BookInv, RowsInv
<1>6. ASSUME NEW i \in 1..MaxCodes
      PROVE  Page(i, otps', hist') = IF i = j THEN "live"
                                     ELSE IF i \in killed THEN "dead"
                                     ELSE Page(i, otps, hist)
  <2>1. CASE i = j
    <3>1. otps[i] \in Row /\ i \in 1..Len(otps')
      BY <1>4, <1>5, <2>1, RowTyped DEF Ids, BookInv, RowsInv
    <3>2. otps'[i].status = "committed" /\ ~otps'[i].consumed
      <4>1. otps'[i] = [otps[i] EXCEPT !.status = "committed"]
        BY <1>5, <2>1
      <4>2. ~otps[i].consumed
        BY <1>3, <2>1
      <4>3. QED
        BY <3>1, <4>1, <4>2 DEF Row
    <3>3. ~(hist'[i].accepted > 0)
      BY <1>3, <1>5, <2>1
    <3>4. QED
      BY <2>1, <3>1, <3>2, <3>3 DEF Page
  <2>2. CASE i # j /\ i \in op[w].rows
    <3>1. otps[i] \in Row /\ i \in 1..Len(otps) /\ i \in 1..Len(otps') /\ i \in Ids
      BY <1>3, <1>5, <2>2, RowTyped DEF Ids, BookInv, RowsInv
    <3>2. otps[i].status = "committed" /\ otps'[i].status = "committed" /\ otps'[i].consumed
      BY <1>3, <1>5, <2>2, <3>1 DEF Row
    <3>3. hist'[i] = hist[i]
      BY <1>5
    <3>4. Page(i, otps', hist') = IF hist[i].accepted > 0 THEN "accepted" ELSE "dead"
      BY <3>1, <3>2, <3>3 DEF Page
    <3>5. Page(i, otps, hist) = IF hist[i].accepted > 0 THEN "accepted"
                                ELSE IF otps[i].consumed THEN "dead" ELSE "live"
      BY <3>1, <3>2 DEF Page
    <3>6. i \in killed <=> Page(i, otps, hist) = "live"
      BY <2>2 DEF LivePages
    <3>7. QED
      BY <2>2, <3>4, <3>5, <3>6
  <2>3. CASE i # j /\ i \notin op[w].rows
    <3>1. i \in Ids => otps'[i] = otps[i]
      BY <1>5, <2>3
    <3>2. i \in 1..Len(otps) <=> i \in 1..Len(otps')
      BY <1>5
    <3>3. Page(i, otps', hist') = Page(i, otps, hist)
      BY <1>5, <3>1, <3>2, Zenon DEF Page, Ids
    <3>4. QED
      BY <2>3, <3>3
  <2>4. QED
    BY <2>1, <2>2, <2>3
<1>7. killed \in SUBSET LivePages
  OBVIOUS
<1> HIDE DEF killed
<1>8. QED
  BY <1>4, <1>6, <1>7

\* Consuming a code that was not accepted before spends one live page, for "accepted" when
\* verify succeeds and for "dead" when its answer is an error; a code already consumed, or
\* an UPDATE that did nothing, leaves the book as it is.
LEMMA ConsumeSpends ==
  ASSUME BookInv, NEW w \in Workers, VerifyConsume(w) \/ VerifyConsumeFails(w)
  PROVE  \/ Discreet
         \/ \E i \in LivePages, page \in {"accepted", "dead"} :
              /\ Page(i, otps', hist') = page
              /\ \A j \in 1..MaxCodes : j # i => Page(j, otps', hist') = Page(j, otps, hist)
<1>1. TypeInv /\ Len(otps) \in Nat /\ MaxCodes \in Nat /\ Len(otps) <= MaxCodes
  <2>1. Cardinality({v \in Workers : op[v].pc \in RoomPlaces}) \in Nat
    BY RoomFinite
  <2>2. QED
    BY <2>1, BoundsNat DEF BookInv, FitsBook, RowsInv, TypeInv, OtpTypeOK
<1>2. PICK i \in Ids : i = op[w].row
  BY <1>1, WhichOp DEF VerifyConsume, VerifyConsumeFails, TypeInv, LocalsOK
<1>3. i \in 1..Len(otps) /\ i \in 1..Len(hist) /\ i \in 1..MaxCodes
  BY <1>1, <1>2 DEF Ids, TypeInv, OtpTypeOK
<1>4. otps[i] \in Row /\ hist[i] \in History /\ otps[i].status = "committed"
  BY <1>1, <1>2, RowTyped
     DEF VerifyConsume, VerifyConsumeFails, BookInv, RowsInv, AllInPlace, InPlace
<1> DEFINE o == [otps[i] EXCEPT !.consumed = TRUE]
           h == [hist[i] EXCEPT !.accepted = @ + 1]
<1>5. \/ UNCHANGED <<otps, hist>>
      \/ /\ ~otps[i].consumed /\ otps' = [otps EXCEPT ![i] = o]
         /\ hist' = hist \/ hist' = [hist EXCEPT ![i] = h]
  BY <1>2 DEF VerifyConsume, VerifyConsumeFails, Consumable
<1>6. o \in Row /\ o.status = "committed" /\ o.consumed
  BY <1>4 DEF Row
<1>7. h \in History /\ h.accepted = hist[i].accepted + 1
  BY <1>4 DEF History
<1> HIDE DEF o, h
<1>8. CASE UNCHANGED <<otps, hist>>
  BY <1>1, <1>8 DEF Discreet, Ids
<1>9. CASE /\ ~otps[i].consumed /\ otps' = [otps EXCEPT ![i] = o]
           /\ hist' = hist \/ hist' = [hist EXCEPT ![i] = h]
  <2>1. hist[i].accepted = 0
    BY <1>2, <1>4, <1>9 DEF BookInv, CodesInv, AcceptedOnce, History
  <2>2. i \in LivePages
    BY <1>3, <1>4, <1>9, <2>1 DEF LivePages, Page
  <2>3. Len(otps') = Len(otps) /\ otps'[i] = o /\ \A j \in Ids : j # i => otps'[j] = otps[j]
    BY <1>1, <1>3, <1>6, <1>9, UpdateRow DEF TypeInv, OtpTypeOK, Ids
  <2>4. /\ hist'[i] = hist[i] \/ hist'[i] = h
        /\ \A j \in Ids : j # i => hist'[j] = hist[j]
    BY <1>1, <1>3, <1>7, <1>9, UpdateRow DEF TypeInv, OtpTypeOK, Ids
  <2>5. Page(i, otps', hist') \in {"accepted", "dead"}
    BY <1>3, <1>6, <2>3 DEF Page
  <2>6. ASSUME NEW j \in 1..MaxCodes, j # i
        PROVE  Page(j, otps', hist') = Page(j, otps, hist)
    BY <2>3, <2>4, <2>6, Zenon DEF Page, Ids
  <2>7. QED
    BY <2>2, <2>5, <2>6
<1>10. QED
  BY <1>5, <1>8, <1>9

\* Every step of the store issues, accepts or wastes a code, or stutters in the book.
LEMMA NextImplements ==
  ASSUME BookInv, [OtpNext]_otpVars
  PROVE  \/ StoreBook(otps', hist') = StoreBook(otps, hist)
         \/ \E j \in 1..MaxCodes, killed \in SUBSET LivePages :
              /\ Page(j, otps, hist) = "unissued"
              /\ \A i \in 1..MaxCodes :
                   Page(i, otps', hist') = IF i = j THEN "live"
                                           ELSE IF i \in killed THEN "dead"
                                           ELSE Page(i, otps, hist)
         \/ \E i \in LivePages, page \in {"accepted", "dead"} :
              /\ Page(i, otps', hist') = page
              /\ \A j \in 1..MaxCodes : j # i => Page(j, otps', hist') = Page(j, otps, hist)
<1>1. TypeInv /\ RowsInv
  BY DEF BookInv, RowsInv
<1>2. CASE UNCHANGED <<otps, hist>>
  BY <1>2
<1>3. ASSUME NEW w \in Workers, Call(w) \/ IssueStep(w) \/ VerifyStep(w) \/ Fault(w)
      PROVE  \/ UNCHANGED <<otps, hist>> \/ Discreet
             \/ IssueCommit(w) \/ VerifyConsume(w) \/ VerifyConsumeFails(w)
  <2>1. CASE Call(w)
    BY <1>1, <2>1, GuessDiscreet DEF Call, IssueStart
  <2>2. CASE IssueStep(w)
    BY <1>1, <2>2, InsertDiscreet DEF IssueStep, IssueCount, IssueUpdate, IssueLock
  <2>3. CASE VerifyStep(w)
    BY <1>1, <2>3, GuessDiscreet DEF VerifyStep
  <2>4. CASE Fault(w)
    BY <1>1, <2>4, GuessDiscreet, FailDiscreet DEF Fault
  <2>5. QED
    BY <1>3, <2>1, <2>2, <2>3, <2>4
<1>4. \/ UNCHANGED <<otps, hist>> \/ Discreet
      \/ \E w \in Workers : IssueCommit(w) \/ VerifyConsume(w) \/ VerifyConsumeFails(w)
  BY <1>3, NextKinds DEF Tick, otpVars
<1>5. CASE Discreet
  BY <1>1, <1>5, BookStutters
<1>6. ASSUME NEW w \in Workers, IssueCommit(w)
      PROVE  \E j \in 1..MaxCodes, killed \in SUBSET LivePages :
              /\ Page(j, otps, hist) = "unissued"
              /\ \A i \in 1..MaxCodes :
                   Page(i, otps', hist') = IF i = j THEN "live"
                                           ELSE IF i \in killed THEN "dead"
                                           ELSE Page(i, otps, hist)
  BY <1>6, CommitIssues
<1>7. ASSUME NEW w \in Workers, VerifyConsume(w) \/ VerifyConsumeFails(w)
      PROVE  \/ Discreet
             \/ \E i \in LivePages, page \in {"accepted", "dead"} :
                  /\ Page(i, otps', hist') = page
                  /\ \A j \in 1..MaxCodes : j # i => Page(j, otps', hist') = Page(j, otps, hist)
  BY <1>7, ConsumeSpends
<1>8. QED
  BY <1>2, <1>4, <1>5, <1>6, <1>7

\* In every behaviour, the store is a code book: a committed row is a code that comes into
\* being live, kills only codes that were live, and is then accepted once or dies, for any
\* number of workers and faults (otp.go:55-123).
THEOREM StoreIsCodeBook == OtpSpec => ImplementsCodeBook
<1> DEFINE book == [i \in 1..MaxCodes |-> BookState(i)]
<1>1. OtpInit => Codes!BookInit
  <2> SUFFICES ASSUME OtpInit PROVE Codes!BookInit
    OBVIOUS
  <2>1. Ids = {}
    BY DEF OtpInit, Ids
  <2>2. QED
    BY <2>1 DEF Codes!BookInit, BookState
<1>2. BookInv /\ [OtpNext]_otpVars => [Codes!BookNext]_book
  <2> SUFFICES ASSUME BookInv, [OtpNext]_otpVars PROVE [Codes!BookNext]_book
    OBVIOUS
  <2>1. book = [i \in 1..MaxCodes |-> Page(i, otps, hist)]
    BY DEF BookState, Page, Ids
  <2>2. book' = [i \in 1..MaxCodes |-> Page(i, otps', hist')]
    BY DEF BookState, Page, Ids
  <2>3. Codes!LiveCodes = LivePages
    BY <2>1 DEF Codes!LiveCodes, LivePages
  <2>4. CASE StoreBook(otps', hist') = StoreBook(otps, hist)
    BY <2>1, <2>2, <2>4 DEF StoreBook
  <2>5. ASSUME NEW j \in 1..MaxCodes, NEW killed \in SUBSET LivePages,
               Page(j, otps, hist) = "unissued",
               \A i \in 1..MaxCodes :
                 Page(i, otps', hist') = IF i = j THEN "live"
                                         ELSE IF i \in killed THEN "dead"
                                         ELSE Page(i, otps, hist)
        PROVE  Codes!BookNext
    <3>1. Codes!Issue(j, killed)
      BY <2>1, <2>2, <2>5 DEF Codes!Issue
    <3>2. QED
      BY <2>3, <3>1 DEF Codes!BookNext
  <2>6. ASSUME NEW i \in LivePages, NEW page \in {"accepted", "dead"},
               Page(i, otps', hist') = page,
               \A j \in 1..MaxCodes : j # i => Page(j, otps', hist') = Page(j, otps, hist)
        PROVE  Codes!BookNext
    <3>1. i \in 1..MaxCodes /\ book[i] = "live"
      BY <2>1 DEF LivePages
    <3>2. book' = [book EXCEPT ![i] = page]
      <4>1. ASSUME NEW j \in 1..MaxCodes
            PROVE  Page(j, otps', hist') = IF j = i THEN page ELSE Page(j, otps, hist)
        BY <2>6
      <4>2. QED
        BY <2>1, <2>2, <3>1, <4>1
    <3>3. Codes!Accept(i) \/ Codes!Waste(i)
      BY <3>1, <3>2 DEF Codes!Accept, Codes!Waste
    <3>4. QED
      BY <3>1, <3>3 DEF Codes!BookNext
  <2>7. QED
    BY <2>4, <2>5, <2>6, NextImplements
<1>3. QED
  BY <1>1, <1>2, BookAlways, PTL DEF OtpSpec, ImplementsCodeBook, Codes!BookSpec
=============================================================================
