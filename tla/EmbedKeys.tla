----------------------------- MODULE EmbedKeys -----------------------------
(***************************************************************************)
(* The keys that other websites embed a tour with: the handlers of         *)
(* internal/embed/handlers.go.                                             *)
(*                                                                         *)
(* Keys are rows that nothing holds to their tour.  A handler first reads  *)
(* the tour, or the key, and goes on in statements of its own, so tours    *)
(* are published and deleted, and keys revoked, in between.  Requests that *)
(* the user may not make change nothing and are left out.  Of last_used_at *)
(* only whether it is set is kept.                                         *)
(***************************************************************************)
EXTENDS TourTables

CONSTANTS
  KeyLimit,    \* maxKeysPerTour
  MaxKeys      \* bound: keys ever created

ASSUME KeyLimitNat == KeyLimit \in Nat \ {0}
ASSUME MaxKeysNat == MaxKeys \in Nat

VARIABLES
  shown,    \* the tours: shown[t] is is_published, and tours that are deleted are not there
  keys,     \* the table, in the order of creation
  call,     \* call[w]: where worker w's handler is, and its locals
  blind     \* history, never read: keys created after a count that failed

keyVars == <<shown, keys, call, blind>>

KeyIds == 1..MaxKeys

KeyRow == [tour : Tours, revoked : BOOLEAN, used : BOOLEAN]

CreateReq  == [pc : {"count", "insert", "insert blind"}, t : Tours]
RevokeReq  == [pc : {"revoke"}, t : Tours, k : KeyIds]
ResolveReq == [pc : {"open"}, k : KeyIds, used : BOOLEAN]
TouchReq   == [pc : {"touch"}, k : KeyIds]

ActiveKeys(t) == {k \in DOMAIN keys : keys[k].tour = t /\ ~keys[k].revoked}

Step(w, c) == call' = [call EXCEPT ![w] = c]

-----------------------------------------------------------------------------
(* Creating and revoking: who may manage the tour is decided first *)

Authorized(w, t, next) ==
  /\ call[w].pc = "idle" /\ t \in DOMAIN shown
  /\ Step(w, next)
  /\ UNCHANGED <<shown, keys, blind>>

CreateToken(w, t) == Authorized(w, t, [pc |-> "count", t |-> t])

\* Mutant of TooMany: one key more than the limit.
TooMany_OffByOne(t) == Cardinality(ActiveKeys(t)) > KeyLimit

TooMany(t) == Cardinality(ActiveKeys(t)) >= KeyLimit

\* A count that fails leaves zero, and nobody looks.
CountKeys(w) ==
  /\ call[w].pc = "count"
  /\ \/ TooMany(call[w].t) /\ Step(w, Idle)
     \/ ~TooMany(call[w].t) /\ Step(w, [call[w] EXCEPT !.pc = "insert"])
     \/ Step(w, [call[w] EXCEPT !.pc = "insert blind"])
  /\ UNCHANGED <<shown, keys, blind>>

\* Mutant of NewKey: the key is not tied to the tour.
NewKey_NoTour(t) == [tour |-> Elsewhere, revoked |-> FALSE, used |-> FALSE]

NewKey(t) == [tour |-> t, revoked |-> FALSE, used |-> FALSE]

InsertKey(w) ==
  /\ call[w].pc \in {"insert", "insert blind"} /\ Len(keys) < MaxKeys
  /\ keys' = Append(keys, NewKey(call[w].t))
  /\ blind' = IF call[w].pc = "insert" THEN blind ELSE blind \cup {Len(keys) + 1}
  /\ Step(w, Idle)
  /\ UNCHANGED shown

RevokeToken(w, t, k) == Authorized(w, t, [pc |-> "revoke", t |-> t, k |-> k])

\* UPDATE of an active key of this tour; else 404.
RevokeKey(w) ==
  /\ call[w].pc = "revoke"
  /\ keys' = IF call[w].k \in ActiveKeys(call[w].t)
             THEN [keys EXCEPT ![call[w].k].revoked = TRUE] ELSE keys
  /\ Step(w, Idle)
  /\ UNCHANGED <<shown, blind>>

-----------------------------------------------------------------------------
(* Resolving: the key is found while it is active, then the tour *)

ResolveToken(w, k) ==
  /\ call[w].pc = "idle"
  /\ ~keys[k].revoked
  /\ Step(w, [pc |-> "open", k |-> k, used |-> keys[k].used])
  /\ UNCHANGED <<shown, keys, blind>>

Published(t) == t \in DOMAIN shown /\ shown[t]

\* A key that was used is written again once lastUsedInterval has passed.
OpenTour(w) ==
  /\ call[w].pc = "open"
  /\ \/ Published(keys[call[w].k].tour) /\ Step(w, [pc |-> "touch", k |-> call[w].k])
     \/ (Published(keys[call[w].k].tour) => call[w].used) /\ Step(w, Idle)
  /\ UNCHANGED <<shown, keys, blind>>

\* Mutant of Touched: the key as it was found is saved whole.
Touched_Whole(k) == [keys EXCEPT ![k].used = TRUE, ![k].revoked = FALSE]

\* UPDATE of last_used_at alone.
Touched(k) == [keys EXCEPT ![k].used = TRUE]

TouchKey(w) ==
  /\ call[w].pc = "touch"
  /\ keys' = Touched(call[w].k)
  /\ Step(w, Idle)
  /\ UNCHANGED <<shown, blind>>

-----------------------------------------------------------------------------
\* The handlers of tours, each as the one statement that shows here; TourEdits has them.
PublicationIsSaved(t) ==
  /\ \E published \in BOOLEAN : shown' = Saved(shown, t, published)
  /\ UNCHANGED <<keys, call, blind>>

TourIsGone(t) ==
  /\ t \in DOMAIN shown
  /\ shown' = Without(shown, {t})
  /\ UNCHANGED <<keys, call, blind>>

\* A statement failed, the touch of a key among them, or the connection is lost.
GiveUp(w) ==
  /\ call[w].pc # "idle"
  /\ Step(w, Idle)
  /\ UNCHANGED <<shown, keys, blind>>

\* Refusals, and ListTokens.
OnlyReads(w) == call[w].pc = "idle" /\ UNCHANGED keyVars

KeysInit ==
  /\ shown = [t \in Tours |-> FALSE]
  /\ keys = <<>>
  /\ call = [w \in Workers |-> Idle]
  /\ blind = {}

KeyRequest(w) ==
  \/ \E t \in Tours : CreateToken(w, t) \/ \E k \in DOMAIN keys : RevokeToken(w, t, k)
  \/ \E k \in DOMAIN keys : ResolveToken(w, k)

KeyStatement(w) ==
  CountKeys(w) \/ InsertKey(w) \/ RevokeKey(w) \/ OpenTour(w) \/ TouchKey(w)

KeysNext ==
  \/ \E t \in Tours : PublicationIsSaved(t) \/ TourIsGone(t)
  \/ \E w \in Workers : KeyRequest(w) \/ KeyStatement(w) \/ GiveUp(w) \/ OnlyReads(w)

KeysSpec == KeysInit /\ [][KeysNext]_keyVars

-----------------------------------------------------------------------------
(* Properties *)

\* The tables hold well-formed rows and every handler the locals of its place, of keys that
\* are there (models/embed.go, embed/handlers.go:108-213).
KeysTypeOK ==
  /\ shown \in UNION {[T -> BOOLEAN] : T \in SUBSET Tours}
  /\ keys \in Seq(KeyRow) /\ Len(keys) <= MaxKeys
  /\ blind \subseteq DOMAIN keys
  /\ call \in [Workers -> {Idle} \cup CreateReq \cup RevokeReq \cup ResolveReq \cup TouchReq]
  /\ \A w \in Workers : call[w].pc \in {"revoke", "open", "touch"} => call[w].k \in DOMAIN keys

\* Creations that overlap each count the keys before any of them inserts its own: the
\* limit is overrun by one key per further worker at most, leaving out those created after
\* a count that failed (embed/handlers.go:121-126).
KeysBounded ==
  \A t \in Tours :
    Cardinality(ActiveKeys(t) \ blind) <= KeyLimit + Cardinality(Workers) - 1

\* A revoked key stays revoked, though requests that found it active are still under way
\* and write to its row, and a key never changes its tour (embed/handlers.go:157, 197-200).
RevokedForGood ==
  [][\A k \in DOMAIN keys :
       /\ k \in DOMAIN keys' /\ keys'[k].tour = keys[k].tour
       /\ keys[k].revoked => keys'[k].revoked]_keys
=============================================================================
