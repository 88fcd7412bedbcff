-------------------------- MODULE EmbedKeysProofs --------------------------
(***************************************************************************)
(* What holds of the embed keys for every number of workers, tours and     *)
(* keys: types, the bound on active keys, and that revocation is final.    *)
(***************************************************************************)
EXTENDS EmbedKeys, SequenceTheorems, FiniteSetTheorems, TLAPS

Calls == {Idle} \cup CreateReq \cup RevokeReq \cup ResolveReq \cup TouchReq

\* A key that is changed in one column is still a key, and the table as long as before.
LEMMA ChangedKey ==
  ASSUME NEW table \in Seq(KeyRow), NEW k \in DOMAIN table, NEW row \in KeyRow
  PROVE  /\ [table EXCEPT ![k] = row] \in Seq(KeyRow)
         /\ Len([table EXCEPT ![k] = row]) = Len(table)
         /\ DOMAIN [table EXCEPT ![k] = row] = DOMAIN table
  BY ExceptSeq

\* The row that TouchKey and RevokeKey write.
LEMMA ChangedRow ==
  ASSUME NEW row \in KeyRow
  PROVE  /\ [row EXCEPT !.used = TRUE] \in KeyRow
         /\ [row EXCEPT !.revoked = TRUE] \in KeyRow
  BY DEF KeyRow

\* Keys are numbered from 1.
LEMMA TableDomain ==
  ASSUME NEW table \in Seq(KeyRow)
  PROVE  DOMAIN table = 1..Len(table) /\ Len(table) \in Nat
  BY LenProperties

\* A new key lengthens the table and leaves every other row as it was.
LEMMA NewRow ==
  ASSUME NEW table \in Seq(KeyRow), NEW row \in KeyRow
  PROVE  /\ Append(table, row) \in Seq(KeyRow)
         /\ Len(Append(table, row)) = Len(table) + 1
         /\ DOMAIN Append(table, row) = DOMAIN table \cup {Len(table) + 1}
         /\ Append(table, row)[Len(table) + 1] = row
         /\ \A k \in DOMAIN table : Append(table, row)[k] = table[k]
  <1>1. Len(Append(table, row)) = Len(table) + 1 /\ Append(table, row) \in Seq(KeyRow)
    BY AppendProperties
  <1>2. DOMAIN Append(table, row) = 1..(Len(table) + 1)
    BY <1>1, TableDomain
  <1>3. QED BY <1>1, <1>2, AppendProperties, TableDomain

\* The locals of a creation that is under way, and where it may go next.
LEMMA CreateLocals ==
  ASSUME NEW c \in Calls, c.pc \in {"count", "insert", "insert blind"}
  PROVE  /\ c \in CreateReq /\ c.t \in Tours
         /\ \A next \in {"insert", "insert blind"} :
              [c EXCEPT !.pc = next] \in Calls /\ [c EXCEPT !.pc = next].pc = next
                /\ [c EXCEPT !.pc = next].t = c.t
  <1>i. Idle.pc = "idle"
    BY DEF Idle
  <1>r. \A r \in RevokeReq : r.pc = "revoke"
    BY DEF RevokeReq
  <1>o. \A r \in ResolveReq : r.pc = "open"
    BY DEF ResolveReq
  <1>t. \A r \in TouchReq : r.pc = "touch"
    BY DEF TouchReq
  <1>1. c # Idle /\ c \notin RevokeReq /\ c \notin ResolveReq /\ c \notin TouchReq
    BY <1>i, <1>r, <1>o, <1>t
  <1>2. c \in CreateReq
    BY <1>1 DEF Calls
  <1>3. QED BY <1>2 DEF Calls, CreateReq

-----------------------------------------------------------------------------
(* Types *)

\* There is no key yet.
LEMMA InitTyped == KeysInit => KeysTypeOK
  <1> SUFFICES ASSUME KeysInit PROVE KeysTypeOK
    OBVIOUS
  <1>1. shown \in UNION {[T -> BOOLEAN] : T \in SUBSET Tours}
    BY DEF KeysInit
  <1>2. keys \in Seq(KeyRow) /\ Len(keys) = 0 /\ DOMAIN keys = {}
    BY EmptySeq DEF KeysInit
  <1>3. QED BY <1>1, <1>2, MaxKeysNat DEF KeysInit, KeysTypeOK, Idle

\* The table of tours is a function from tours after every statement.
LEMMA ShownTyped ==
  ASSUME KeysTypeOK, NEW t \in Tours
  PROVE  /\ \A b \in BOOLEAN : Saved(shown, t, b) \in UNION {[T -> BOOLEAN] : T \in SUBSET Tours}
         /\ Without(shown, {t}) \in UNION {[T -> BOOLEAN] : T \in SUBSET Tours}
  <1> PICK T \in SUBSET Tours : shown \in [T -> BOOLEAN]
    BY DEF KeysTypeOK
  <1>1. \A b \in BOOLEAN : Saved(shown, t, b) \in [T \cup {t} -> BOOLEAN]
    BY DEF Saved
  <1>2. Without(shown, {t}) \in [T \ {t} -> BOOLEAN]
    BY DEF Without
  <1>3. T \cup {t} \in SUBSET Tours /\ T \ {t} \in SUBSET Tours
    OBVIOUS
  <1>4. ASSUME NEW S \in SUBSET Tours, NEW f \in [S -> BOOLEAN]
        PROVE  f \in UNION {[D -> BOOLEAN] : D \in SUBSET Tours}
    OBVIOUS
  <1>5. ASSUME NEW b \in BOOLEAN
        PROVE  Saved(shown, t, b) \in UNION {[D -> BOOLEAN] : D \in SUBSET Tours}
    BY <1>1, <1>3, <1>4
  <1>6. Without(shown, {t}) \in UNION {[D -> BOOLEAN] : D \in SUBSET Tours}
    BY <1>2, <1>3, <1>4
  <1>7. QED
    BY <1>5, <1>6

\* A handler of worker w goes on with locals that fit its place.
LEMMA CallTyped ==
  ASSUME KeysTypeOK, NEW w \in Workers, NEW c \in Calls, Step(w, c),
         c.pc \in {"revoke", "open", "touch"} => c.k \in DOMAIN keys,
         DOMAIN keys \subseteq DOMAIN keys'
  PROVE  /\ call' \in [Workers -> Calls]
         /\ \A v \in Workers : call'[v].pc \in {"revoke", "open", "touch"} =>
              call'[v].k \in DOMAIN keys'
  BY DEF KeysTypeOK, Calls, Step

\* A request for a tour the user may manage goes on with its locals.
LEMMA AuthorizedTyped ==
  ASSUME KeysTypeOK, NEW w \in Workers, NEW t \in Tours, NEW c \in Calls,
         c.pc \in {"revoke", "open", "touch"} => c.k \in DOMAIN keys,
         Authorized(w, t, c)
  PROVE  KeysTypeOK'
  BY CallTyped DEF Authorized, KeysTypeOK, Calls

\* The first step of each request.
LEMMA RequestTyped ==
  ASSUME KeysTypeOK, NEW w \in Workers, KeyRequest(w)
  PROVE  KeysTypeOK'
  <1>k. \A k \in DOMAIN keys : k \in KeyIds /\ keys[k] \in KeyRow
    BY TableDomain, MaxKeysNat DEF KeysTypeOK, KeyIds
  <1>1. ASSUME NEW t \in Tours, CreateToken(w, t) PROVE KeysTypeOK'
    <2>1. [pc |-> "count", t |-> t] \in Calls
      BY DEF Calls, CreateReq
    <2>2. QED BY <1>1, <2>1, AuthorizedTyped DEF CreateToken
  <1>2. ASSUME NEW t \in Tours, NEW k \in DOMAIN keys, RevokeToken(w, t, k) PROVE KeysTypeOK'
    <2>1. [pc |-> "revoke", t |-> t, k |-> k] \in Calls
      BY <1>k DEF Calls, RevokeReq
    <2>2. QED BY <1>2, <2>1, AuthorizedTyped DEF RevokeToken
  <1>3. ASSUME NEW k \in DOMAIN keys, ResolveToken(w, k) PROVE KeysTypeOK'
    <2>1. [pc |-> "open", k |-> k, used |-> keys[k].used] \in Calls
      BY <1>k DEF Calls, ResolveReq, KeyRow
    <2>2. QED BY <1>3, <2>1, CallTyped DEF ResolveToken, KeysTypeOK, Calls
  <1>4. QED BY <1>1, <1>2, <1>3 DEF KeyRequest

\* Every later statement of a handler.
LEMMA StatementTyped ==
  ASSUME KeysTypeOK, NEW w \in Workers, KeyStatement(w)
  PROVE  KeysTypeOK'
  <1>i. Idle \in Calls /\ Idle.pc = "idle"
    BY DEF Calls, Idle
  <1>c. call[w] \in Calls
    BY DEF KeysTypeOK, Calls
  <1>d. keys \in Seq(KeyRow) /\ DOMAIN keys = 1..Len(keys) /\ Len(keys) \in Nat
    BY TableDomain DEF KeysTypeOK
  <1>k. call[w].pc \in {"revoke", "open", "touch"} => call[w].k \in DOMAIN keys
    BY DEF KeysTypeOK
  <1>1. CASE CountKeys(w)
    <2>1. \A next \in {"insert", "insert blind"} :
            [call[w] EXCEPT !.pc = next] \in Calls /\ [call[w] EXCEPT !.pc = next].pc = next
      BY <1>1, <1>c, CreateLocals DEF CountKeys
    <2>2. PICK c \in Calls : Step(w, c) /\ c.pc \notin {"revoke", "open", "touch"}
      BY <1>1, <1>i, <2>1 DEF CountKeys
    <2>3. QED BY <1>1, <2>2, CallTyped DEF CountKeys, KeysTypeOK, Calls
  <1>2. CASE InsertKey(w)
    <2>1. call[w].t \in Tours
      BY <1>2, <1>c, CreateLocals DEF InsertKey
    <2>2. NewKey(call[w].t) \in KeyRow
      BY <2>1 DEF NewKey, KeyRow
    <2>3. keys' \in Seq(KeyRow) /\ Len(keys') <= MaxKeys /\ DOMAIN keys' = DOMAIN keys \cup {Len(keys) + 1}
      <3> DEFINE row == NewKey(call[w].t)
      <3>1. keys' = Append(keys, row) /\ Len(keys) < MaxKeys
        BY <1>2 DEF InsertKey
      <3>2. row \in KeyRow
        BY <2>2
      <3> HIDE DEF row
      <3>3. /\ Append(keys, row) \in Seq(KeyRow) /\ Len(Append(keys, row)) = Len(keys) + 1
            /\ DOMAIN Append(keys, row) = DOMAIN keys \cup {Len(keys) + 1}
        BY <3>2, <1>d, NewRow
      <3>4. QED BY <3>1, <3>3, <1>d, MaxKeysNat
    <2>4. blind' \subseteq DOMAIN keys' /\ shown' = shown
      BY <1>2, <2>3 DEF InsertKey, KeysTypeOK
    <2>5. Step(w, Idle)
      BY <1>2 DEF InsertKey
    <2>6. QED BY <2>3, <2>4, <2>5, <1>i, CallTyped DEF KeysTypeOK, Calls
  <1>3. CASE RevokeKey(w)
    <2>1. keys' \in Seq(KeyRow) /\ Len(keys') = Len(keys) /\ DOMAIN keys' = DOMAIN keys
      <3> DEFINE k == call[w].k
      <3>1. keys[k] \in KeyRow /\ k \in DOMAIN keys
        BY <1>3, <1>k, <1>d DEF RevokeKey
      <3>2. keys' = keys \/ keys' = [keys EXCEPT ![k] = [keys[k] EXCEPT !.revoked = TRUE]]
        BY <1>3 DEF RevokeKey
      <3>3. [keys[k] EXCEPT !.revoked = TRUE] \in KeyRow
        BY <3>1, ChangedRow
      <3> DEFINE row == [keys[k] EXCEPT !.revoked = TRUE]
      <3>4. row \in KeyRow /\ (keys' = keys \/ keys' = [keys EXCEPT ![k] = row])
        BY <3>2, <3>3
      <3> HIDE DEF row, k
      <3>5. CASE keys' = keys
        BY <3>5, <1>d
      <3>6. CASE keys' = [keys EXCEPT ![k] = row]
        BY <3>1, <3>4, <3>6, <1>d, ChangedKey
      <3>7. QED BY <3>4, <3>5, <3>6
    <2>2. Step(w, Idle) /\ shown' = shown /\ blind' = blind
      BY <1>3 DEF RevokeKey
    <2>3. QED BY <2>1, <2>2, <1>i, CallTyped DEF KeysTypeOK, Calls
  <1>4. CASE OpenTour(w)
    <2>1. [pc |-> "touch", k |-> call[w].k] \in Calls /\ call[w].k \in DOMAIN keys
      BY <1>4, <1>k, <1>d, MaxKeysNat DEF OpenTour, Calls, TouchReq, KeyIds, KeysTypeOK
    <2>2. PICK c \in Calls : Step(w, c) /\ (c.pc \in {"revoke", "open", "touch"} => c.k \in DOMAIN keys)
      BY <1>4, <2>1, <1>i DEF OpenTour
    <2>3. QED BY <1>4, <2>2, CallTyped DEF OpenTour, KeysTypeOK, Calls
  <1>5. CASE TouchKey(w)
    <2>1. keys' \in Seq(KeyRow) /\ Len(keys') = Len(keys) /\ DOMAIN keys' = DOMAIN keys
      <3> DEFINE k == call[w].k
      <3>1. keys[k] \in KeyRow /\ k \in DOMAIN keys
        BY <1>5, <1>k, <1>d DEF TouchKey
      <3>2. keys' = [keys EXCEPT ![k] = [keys[k] EXCEPT !.used = TRUE]]
        BY <1>5 DEF TouchKey, Touched
      <3>3. [keys[k] EXCEPT !.used = TRUE] \in KeyRow
        BY <3>1, ChangedRow
      <3> HIDE DEF k
      <3>4. QED BY <3>1, <3>2, <3>3, <1>d, ChangedKey
    <2>2. Step(w, Idle) /\ shown' = shown /\ blind' = blind
      BY <1>5 DEF TouchKey
    <2>3. QED BY <2>1, <2>2, <1>i, CallTyped DEF KeysTypeOK, Calls
  <1>6. QED BY <1>1, <1>2, <1>3, <1>4, <1>5 DEF KeyStatement

\* The types are inductive.
LEMMA NextTyped == KeysTypeOK /\ [KeysNext]_keyVars => KeysTypeOK'
  <1> SUFFICES ASSUME KeysTypeOK, [KeysNext]_keyVars PROVE KeysTypeOK'
    OBVIOUS
  <1>1. ASSUME NEW t \in Tours, PublicationIsSaved(t) \/ TourIsGone(t) PROVE KeysTypeOK'
    BY <1>1, ShownTyped DEF PublicationIsSaved, TourIsGone, KeysTypeOK
  <1>2. ASSUME NEW w \in Workers, KeyRequest(w) PROVE KeysTypeOK'
    BY <1>2, RequestTyped
  <1>3. ASSUME NEW w \in Workers, KeyStatement(w) PROVE KeysTypeOK'
    BY <1>3, StatementTyped
  <1>4. ASSUME NEW w \in Workers, GiveUp(w) PROVE KeysTypeOK'
    <2>1. Idle \in Calls /\ Idle.pc = "idle"
      BY DEF Calls, Idle
    <2>2. QED BY <1>4, <2>1, CallTyped DEF GiveUp, KeysTypeOK, Calls
  <1>5. CASE UNCHANGED keyVars
    BY <1>5 DEF keyVars, KeysTypeOK
  <1>6. QED BY <1>1, <1>2, <1>3, <1>4, <1>5 DEF KeysNext, OnlyReads

\* The tables and the locals of every handler keep their types, and a handler never holds a
\* key that is not there.
THEOREM KeysTyped == KeysSpec => []KeysTypeOK
  BY InitTyped, NextTyped, PTL DEF KeysSpec

-----------------------------------------------------------------------------
(* Revocation *)

\* What a revocation or a touch leaves of every row.
LEMMA RowsKept ==
  ASSUME KeysTypeOK, NEW w \in Workers, RevokeKey(w) \/ TouchKey(w)
  PROVE  /\ DOMAIN keys' = DOMAIN keys
         /\ \A k \in DOMAIN keys :
              keys'[k].tour = keys[k].tour /\ (keys[k].revoked => keys'[k].revoked)
  <1>1. \A k \in DOMAIN keys : keys[k] \in KeyRow
    BY TableDomain DEF KeysTypeOK
  <1>2. CASE RevokeKey(w)
    <2>1. \/ keys' = keys
          \/ keys' = [keys EXCEPT ![call[w].k] = [keys[call[w].k] EXCEPT !.revoked = TRUE]]
      BY <1>2 DEF RevokeKey
    <2>2. QED BY <1>1, <2>1 DEF KeyRow
  <1>3. CASE TouchKey(w)
    <2>1. keys' = [keys EXCEPT ![call[w].k] = [keys[call[w].k] EXCEPT !.used = TRUE]]
      BY <1>3 DEF TouchKey, Touched
    <2>2. QED BY <1>1, <2>1 DEF KeyRow
  <1>4. QED BY <1>2, <1>3

\* What an insertion adds.
LEMMA RowAdded ==
  ASSUME KeysTypeOK, NEW w \in Workers, InsertKey(w)
  PROVE  /\ DOMAIN keys' = DOMAIN keys \cup {Len(keys) + 1}
         /\ Len(keys) + 1 \notin DOMAIN keys
         /\ keys'[Len(keys) + 1].tour = call[w].t
         /\ \A k \in DOMAIN keys : keys'[k] = keys[k]
  <1>1. call[w].t \in Tours
    BY CreateLocals DEF InsertKey, KeysTypeOK, Calls
  <1>2. NewKey(call[w].t) \in KeyRow /\ NewKey(call[w].t).tour = call[w].t
    BY <1>1 DEF NewKey, KeyRow
  <1>3. keys \in Seq(KeyRow) /\ DOMAIN keys = 1..Len(keys) /\ Len(keys) \in Nat
    BY TableDomain DEF KeysTypeOK
  <1> DEFINE row == NewKey(call[w].t)
  <1>4. row \in KeyRow /\ row.tour = call[w].t /\ keys' = Append(keys, row)
    BY <1>2 DEF InsertKey
  <1> HIDE DEF row
  <1>5. QED BY <1>3, <1>4, NewRow

\* No step of any handler gives a revoked key back or moves one.
LEMMA StepKeepsRows ==
  ASSUME KeysTypeOK, [KeysNext]_keyVars
  PROVE  \A k \in DOMAIN keys :
           /\ k \in DOMAIN keys' /\ keys'[k].tour = keys[k].tour
           /\ keys[k].revoked => keys'[k].revoked
  <1>1. ASSUME NEW w \in Workers, RevokeKey(w) \/ TouchKey(w) \/ InsertKey(w)
        PROVE  \A k \in DOMAIN keys :
                 /\ k \in DOMAIN keys' /\ keys'[k].tour = keys[k].tour
                 /\ keys[k].revoked => keys'[k].revoked
    BY <1>1, RowsKept, RowAdded
  <1>2. CASE keys' = keys
    BY <1>2
  <1>3. \/ keys' = keys
        \/ \E w \in Workers : RevokeKey(w) \/ TouchKey(w) \/ InsertKey(w)
    BY DEF KeysNext, keyVars, KeyRequest, KeyStatement, PublicationIsSaved, TourIsGone,
           CreateToken, RevokeToken, Authorized, ResolveToken, CountKeys, OpenTour, GiveUp, OnlyReads
  <1>4. QED BY <1>1, <1>2, <1>3

\* Whatever handlers are under way, revocation is final and a key is one tour's for good.
THEOREM RevocationIsFinal == KeysSpec => RevokedForGood
  <1>1. KeysTypeOK /\ [KeysNext]_keyVars =>
          [\A k \in DOMAIN keys :
             /\ k \in DOMAIN keys' /\ keys'[k].tour = keys[k].tour
             /\ keys[k].revoked => keys'[k].revoked]_keys
    BY StepKeepsRows
  <1>2. QED BY <1>1, KeysTyped, PTL DEF KeysSpec, RevokedForGood

-----------------------------------------------------------------------------
(* The bound.  A creation that passed the check is as good as a key: the   *)
(* keys that count and the creations about to insert are bounded together. *)

Counted(t) == ActiveKeys(t) \ blind

Inserting(t) == {w \in Workers : call[w].pc = "insert" /\ call[w].t = t}

WithinBound(t) ==
  Cardinality(Counted(t)) + Cardinality(Inserting(t)) <= KeyLimit + Cardinality(Workers) - 1

KeysInv == KeysTypeOK /\ \A t \in Tours : WithinBound(t)

\* There is at least one worker.
LEMMA WorkersCounted == Cardinality(Workers) \in Nat /\ Cardinality(Workers) >= 1
  <1>1. Cardinality(Workers) \in Nat /\ Cardinality(Workers) # 0
    BY TableWorkersFinite, FS_CardinalityType, FS_EmptySet
  <1>2. QED BY <1>1

\* What is counted is finite.
LEMMA SetsFinite ==
  ASSUME KeysTypeOK, NEW t \in Tours
  PROVE  /\ IsFiniteSet(ActiveKeys(t)) /\ IsFiniteSet(Counted(t)) /\ IsFiniteSet(Inserting(t))
         /\ Cardinality(Counted(t)) \in Nat /\ Cardinality(Inserting(t)) \in Nat
         /\ Cardinality(Counted(t)) <= Cardinality(ActiveKeys(t))
         /\ Cardinality(Inserting(t)) <= Cardinality(Workers)
  <1>1. IsFiniteSet(DOMAIN keys)
    <2>1. DOMAIN keys = 1..Len(keys) /\ Len(keys) \in Nat
      BY TableDomain DEF KeysTypeOK
    <2>2. QED BY <2>1, FS_Interval
  <1>2. ActiveKeys(t) \in SUBSET DOMAIN keys
    BY DEF ActiveKeys
  <1>3. Counted(t) \in SUBSET ActiveKeys(t)
    BY DEF Counted
  <1>4. Inserting(t) \in SUBSET Workers
    BY DEF Inserting
  <1>5. IsFiniteSet(ActiveKeys(t))
    BY <1>1, <1>2, FS_Subset
  <1>6. IsFiniteSet(Counted(t)) /\ Cardinality(Counted(t)) <= Cardinality(ActiveKeys(t))
    BY <1>5, <1>3, FS_Subset
  <1>7. IsFiniteSet(Inserting(t)) /\ Cardinality(Inserting(t)) <= Cardinality(Workers)
    BY <1>4, TableWorkersFinite, FS_Subset
  <1>8. QED BY <1>5, <1>6, <1>7, FS_CardinalityType

\* A step that adds neither a key nor a creation about to insert keeps the bound.
LEMMA FewerKeepBound ==
  ASSUME KeysTypeOK, KeysTypeOK', NEW t \in Tours, WithinBound(t),
         Counted(t)' \subseteq Counted(t), Inserting(t)' \subseteq Inserting(t)
  PROVE  WithinBound(t)'
  <1>1. Cardinality(Counted(t)') <= Cardinality(Counted(t))
    <2>1. Counted(t)' \in SUBSET Counted(t)
      OBVIOUS
    <2>2. QED BY <2>1, SetsFinite, FS_Subset
  <1>2. Cardinality(Inserting(t)') <= Cardinality(Inserting(t))
    <2>1. Inserting(t)' \in SUBSET Inserting(t)
      OBVIOUS
    <2>2. QED BY <2>1, SetsFinite, FS_Subset
  <1>3. /\ Cardinality(Counted(t)) \in Nat /\ Cardinality(Inserting(t)) \in Nat
        /\ Cardinality(Counted(t)') \in Nat /\ Cardinality(Inserting(t)') \in Nat
    <2>1. IsFiniteSet(Counted(t)') /\ IsFiniteSet(Inserting(t)')
      <3>1. Counted(t)' \in SUBSET Counted(t) /\ Inserting(t)' \in SUBSET Inserting(t)
        OBVIOUS
      <3>2. QED BY <3>1, SetsFinite, FS_Subset
    <2>2. QED BY <2>1, SetsFinite, FS_CardinalityType
  <1>4. Cardinality(Counted(t)') + Cardinality(Inserting(t)')
          <= KeyLimit + Cardinality(Workers) - 1
    BY <1>1, <1>2, <1>3, WorkersCounted, KeyLimitNat DEF WithinBound
  <1>5. QED BY <1>4 DEF WithinBound

\* Worker w goes on to a place other than "insert".
LEMMA NoNewInserter ==
  ASSUME KeysTypeOK, NEW w \in Workers, NEW c, Step(w, c), c.pc # "insert", NEW t \in Tours
  PROVE  Inserting(t)' \subseteq Inserting(t) \ {w}
  BY DEF Inserting, Step, KeysTypeOK

\* Rows that are neither added nor come alive.
LEMMA NoNewKey ==
  ASSUME KeysTypeOK, DOMAIN keys' = DOMAIN keys, blind' = blind, NEW t \in Tours,
         \A k \in DOMAIN keys :
           keys'[k].tour = keys[k].tour /\ (keys[k].revoked => keys'[k].revoked)
  PROVE  Counted(t)' \subseteq Counted(t)
  BY DEF Counted, ActiveKeys

\* A creation passes the check only below the limit.
LEMMA CountKeepsBound ==
  ASSUME KeysTypeOK, KeysTypeOK', NEW w \in Workers, CountKeys(w),
         NEW t \in Tours, WithinBound(t)
  PROVE  WithinBound(t)'
  <1>1. Counted(t)' = Counted(t) /\ ActiveKeys(t)' = ActiveKeys(t)
    BY DEF CountKeys, Counted, ActiveKeys
  <1>2. CASE Step(w, Idle)
    <2>1. Idle.pc # "insert"
      BY DEF Idle
    <2>2. QED BY <1>1, <1>2, <2>1, NoNewInserter, FewerKeepBound
  <1>3. CASE Step(w, [call[w] EXCEPT !.pc = "insert blind"])
    <2>1. [call[w] EXCEPT !.pc = "insert blind"].pc # "insert"
      BY CreateLocals DEF CountKeys, KeysTypeOK, Calls
    <2>2. QED BY <1>1, <1>3, <2>1, NoNewInserter, FewerKeepBound
  <1>4. CASE ~TooMany(call[w].t) /\ Step(w, [call[w] EXCEPT !.pc = "insert"])
    <2>1. CASE t = call[w].t
      <3>1. Cardinality(ActiveKeys(t)) \in Nat /\ Cardinality(ActiveKeys(t)) < KeyLimit
        BY <1>4, <2>1, SetsFinite, FS_CardinalityType, KeyLimitNat DEF TooMany
      <3>2. /\ Cardinality(Counted(t)') <= Cardinality(ActiveKeys(t))
            /\ Cardinality(Counted(t)') \in Nat
        BY <1>1, SetsFinite
      <3>3. /\ Cardinality(Inserting(t)') <= Cardinality(Workers)
            /\ Cardinality(Inserting(t)') \in Nat
        <4>1. Inserting(t)' \in SUBSET Workers
          BY DEF Inserting
        <4>2. QED BY <4>1, TableWorkersFinite, FS_Subset, FS_CardinalityType
      <3>4. QED BY <3>1, <3>2, <3>3, WorkersCounted, KeyLimitNat DEF WithinBound
    <2>2. CASE t # call[w].t
      <3>1. [call[w] EXCEPT !.pc = "insert"].t = call[w].t
        BY CreateLocals DEF CountKeys, KeysTypeOK, Calls
      <3>2. Inserting(t)' \subseteq Inserting(t)
        BY <1>4, <2>2, <3>1 DEF Inserting, Step, KeysTypeOK
      <3>3. QED BY <1>1, <3>2, FewerKeepBound
    <2>3. QED BY <2>1, <2>2
  <1>5. QED BY <1>2, <1>3, <1>4 DEF CountKeys

\* An insertion turns a creation under way into a key.
LEMMA InsertKeepsBound ==
  ASSUME KeysTypeOK, KeysTypeOK', NEW w \in Workers, InsertKey(w),
         NEW t \in Tours, WithinBound(t)
  PROVE  WithinBound(t)'
  <1> DEFINE new == Len(keys) + 1
  <1>1. Inserting(t)' \subseteq Inserting(t) \ {w}
    <2>1. Step(w, Idle) /\ Idle.pc # "insert"
      BY DEF InsertKey, Idle
    <2>2. QED BY <2>1, NoNewInserter
  <1>2. Counted(t)' \subseteq Counted(t) \cup {new}
    BY RowAdded DEF Counted, ActiveKeys, InsertKey
  <1>3. CASE call[w].pc = "insert" /\ call[w].t = t
    <2>1. w \in Inserting(t)
      BY <1>3 DEF Inserting
    <2>2. /\ Cardinality(Inserting(t)') <= Cardinality(Inserting(t)) - 1
          /\ Cardinality(Inserting(t)') \in Nat
      <3>1. /\ IsFiniteSet(Inserting(t) \ {w})
            /\ Cardinality(Inserting(t) \ {w}) = Cardinality(Inserting(t)) - 1
        BY <2>1, SetsFinite, FS_RemoveElement
      <3>2. Inserting(t)' \in SUBSET (Inserting(t) \ {w})
        BY <1>1
      <3>3. QED BY <3>1, <3>2, FS_Subset, FS_CardinalityType
    <2>3. /\ Cardinality(Counted(t)') <= Cardinality(Counted(t)) + 1
          /\ Cardinality(Counted(t)') \in Nat
      <3>0. IsFiniteSet(Counted(t)) /\ Cardinality(Counted(t)) \in Nat
        BY SetsFinite
      <3> HIDE DEF new
      <3>a. /\ IsFiniteSet(Counted(t) \cup {new})
            /\ Cardinality(Counted(t) \cup {new}) =
                 IF new \in Counted(t) THEN Cardinality(Counted(t)) ELSE Cardinality(Counted(t)) + 1
        BY <3>0, FS_AddElement
      <3>1. /\ IsFiniteSet(Counted(t) \cup {new})
            /\ Cardinality(Counted(t) \cup {new}) <= Cardinality(Counted(t)) + 1
        BY <3>0, <3>a
      <3>2. Counted(t)' \in SUBSET (Counted(t) \cup {new})
        BY <1>2
      <3>3. IsFiniteSet(Counted(t)') /\ Cardinality(Counted(t)') \in Nat
              /\ Cardinality(Counted(t)') <= Cardinality(Counted(t) \cup {new})
        BY <3>1, <3>2, FS_Subset, FS_CardinalityType
      <3>4. QED BY <3>1, <3>3, SetsFinite, FS_CardinalityType
    <2>4. QED BY <2>2, <2>3, SetsFinite, WorkersCounted, KeyLimitNat DEF WithinBound
  <1>4. CASE call[w].pc # "insert" \/ call[w].t # t
    <2>1. new \notin Counted(t)'
      <3>1. CASE call[w].t # t
        BY <3>1, RowAdded DEF Counted, ActiveKeys
      <3>2. CASE call[w].pc # "insert"
        BY <3>2 DEF InsertKey, Counted
      <3>3. QED BY <1>4, <3>1, <3>2
    <2>2. QED BY <1>1, <1>2, <2>1, FewerKeepBound
  <1>5. QED BY <1>3, <1>4

\* The other statements add no key and no creation past the check.
LEMMA StatementKeepsBound ==
  ASSUME KeysTypeOK, KeysTypeOK', NEW w \in Workers, KeyStatement(w),
         NEW t \in Tours, WithinBound(t)
  PROVE  WithinBound(t)'
  <1>i. Idle.pc # "insert"
    BY DEF Idle
  <1>1. CASE CountKeys(w)
    BY <1>1, CountKeepsBound
  <1>2. CASE InsertKey(w)
    BY <1>2, InsertKeepsBound
  <1>3. CASE RevokeKey(w) \/ TouchKey(w)
    <2>1. Step(w, Idle) /\ blind' = blind
      BY <1>3 DEF RevokeKey, TouchKey
    <2>2. Counted(t)' \subseteq Counted(t)
      BY <1>3, <2>1, RowsKept, NoNewKey
    <2>3. QED BY <1>i, <2>1, <2>2, NoNewInserter, FewerKeepBound
  <1>4. CASE OpenTour(w)
    <2>1. Counted(t)' = Counted(t)
      BY <1>4 DEF OpenTour, Counted, ActiveKeys
    <2>2. PICK c : Step(w, c) /\ c.pc # "insert"
      BY <1>4, <1>i DEF OpenTour
    <2>3. QED BY <2>1, <2>2, NoNewInserter, FewerKeepBound
  <1>5. QED BY <1>1, <1>2, <1>3, <1>4 DEF KeyStatement

\* A request begins before the check, or ends.
LEMMA RequestKeepsBound ==
  ASSUME KeysTypeOK, KeysTypeOK', NEW w \in Workers, KeyRequest(w) \/ GiveUp(w),
         NEW t \in Tours, WithinBound(t)
  PROVE  WithinBound(t)'
  <1>1. Counted(t)' = Counted(t)
    BY DEF KeyRequest, CreateToken, RevokeToken, Authorized, ResolveToken, GiveUp,
           Counted, ActiveKeys
  <1>2. PICK c : Step(w, c) /\ c.pc # "insert"
    <2>1. ASSUME NEW u \in Tours, CreateToken(w, u) PROVE \E c : Step(w, c) /\ c.pc # "insert"
      BY <2>1 DEF CreateToken, Authorized
    <2>2. ASSUME NEW u \in Tours, NEW k \in DOMAIN keys, RevokeToken(w, u, k)
          PROVE  \E c : Step(w, c) /\ c.pc # "insert"
      BY <2>2 DEF RevokeToken, Authorized
    <2>3. ASSUME NEW k \in DOMAIN keys, ResolveToken(w, k)
          PROVE  \E c : Step(w, c) /\ c.pc # "insert"
      BY <2>3 DEF ResolveToken
    <2>4. CASE GiveUp(w)
      BY <2>4 DEF GiveUp, Idle
    <2>5. QED BY <2>1, <2>2, <2>3, <2>4 DEF KeyRequest
  <1>3. QED BY <1>1, <1>2, NoNewInserter, FewerKeepBound

\* There is no key and no creation.
LEMMA InitWithinBound ==
  ASSUME KeysInit, NEW t \in Tours
  PROVE  WithinBound(t)
  <1>1. Counted(t) = {}
    BY DEF KeysInit, Counted, ActiveKeys
  <1>2. Inserting(t) = {}
    BY DEF KeysInit, Inserting, Idle
  <1>3. QED BY <1>1, <1>2, FS_EmptySet, WorkersCounted, KeyLimitNat DEF WithinBound

\* The bound is inductive.
LEMMA NextKeepsBound == KeysInv /\ [KeysNext]_keyVars => KeysInv'
  <1> SUFFICES ASSUME KeysInv, [KeysNext]_keyVars PROVE KeysInv'
    OBVIOUS
  <1>1. KeysTypeOK /\ KeysTypeOK'
    BY NextTyped DEF KeysInv
  <1>2. ASSUME NEW t \in Tours PROVE WithinBound(t)'
    <2>1. WithinBound(t)
      BY DEF KeysInv
    <2>2. ASSUME NEW w \in Workers, KeyStatement(w) PROVE WithinBound(t)'
      BY <1>1, <2>1, <2>2, StatementKeepsBound
    <2>3. ASSUME NEW w \in Workers, KeyRequest(w) \/ GiveUp(w) PROVE WithinBound(t)'
      BY <1>1, <2>1, <2>3, RequestKeepsBound
    <2>4. CASE UNCHANGED <<keys, call, blind>>
      BY <2>1, <2>4 DEF WithinBound, Counted, ActiveKeys, Inserting
    <2>5. QED BY <2>2, <2>3, <2>4
           DEF KeysNext, keyVars, PublicationIsSaved, TourIsGone, OnlyReads
  <1>3. QED BY <1>1, <1>2 DEF KeysInv

\* A creation past the check is one of the workers, so the bound of keys follows.
LEMMA InvariantBounds == KeysInv => KeysBounded
  <1> SUFFICES ASSUME KeysInv, NEW t \in Tours
               PROVE  Cardinality(Counted(t)) <= KeyLimit + Cardinality(Workers) - 1
    BY DEF KeysBounded, Counted
  <1>1. WithinBound(t) /\ KeysTypeOK
    BY DEF KeysInv
  <1>2. QED BY <1>1, SetsFinite, WorkersCounted, KeyLimitNat DEF WithinBound

\* However many requests overlap, the limit on active keys is overrun by one key per further
\* worker at most, keys created after a count that failed left out.
THEOREM KeysStayBounded == KeysSpec => []KeysBounded
  <1>1. KeysInit => KeysInv
    BY InitTyped, InitWithinBound DEF KeysInv
  <1>2. QED BY <1>1, NextKeepsBound, InvariantBounds, PTL DEF KeysSpec
=============================================================================
