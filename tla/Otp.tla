-------------------------------- MODULE Otp --------------------------------
(***************************************************************************)
(* The one-time-code store of internal/accounts/otp.go.                    *)
(*                                                                         *)
(* Every request is served by its own goroutine, so issue and verify run   *)
(* concurrently; each of their SQL statements commits on its own, except   *)
(* the UPDATE and INSERT of issue, which share one READ COMMITTED          *)
(* transaction.  A step of this module is one statement.                   *)
(*                                                                         *)
(* A code is identified with the row that stores its hash: presenting row  *)
(* i's code is presenting i, and 0 is a guess that matches no row.  Rows   *)
(* are numbered in the order of their created_at.                          *)
(***************************************************************************)
EXTENDS Integers, Sequences, FiniteSets, SequencesExt

CONSTANTS
  Workers,        \* the goroutines that may be inside the store at once
  Emails, Purposes,
  Cooldown,       \* otpCooldown
  Lifetime,       \* otpLifetime
  Hour,           \* the window of otpMaxPerHour
  MaxPerHour,     \* otpMaxPerHour
  MaxAttempts,    \* otpMaxAttempts
  MaxCodes,       \* bound: rows ever inserted
  MaxTime,        \* bound: clock
  MaxLost         \* bound: failed increments of one row

ASSUME WorkersFinite == IsFiniteSet(Workers) /\ Workers # {}
ASSUME LimitsPositive ==
  /\ {Cooldown, Lifetime, Hour, MaxPerHour, MaxAttempts} \subseteq Nat \ {0}
  /\ Cooldown < Hour
ASSUME BoundsNat == {MaxCodes, MaxTime, MaxLost} \subseteq Nat

VARIABLES
  otps,   \* the table email_otps
  clock,  \* time.Now()
  op,     \* op[w]: where worker w is inside issue or verify, and its locals
  hist    \* history, never read by the program: hist[i] is about row i

otpVars == <<otps, clock, op, hist>>

Keys == Emails \X Purposes

Results == {"none", "ok", "error", "cooldown", "hourly_limit", "invalid", "too_many"}

Limits == {"cooldown", "hourly"}

\* status is the fate of the inserting transaction, consumed is consumed_at IS NOT NULL.
Row == [key : Keys, created : Nat, expires : Nat, attempts : Nat,
        consumed : BOOLEAN, status : {"pending", "committed", "rolledback"}]

IdleOp   == [pc : {"idle"}, result : Results, code : Nat]
\* rows: those the UPDATE is about; queue: those of them it has still to lock.
IssueOp  == [pc : {"count", "update", "lock", "commit"}, key : Keys,
             now : Nat, rows : SUBSET Nat, queue : Seq(Nat), row : Nat,
             checked : SUBSET Limits]
VerifyOp == [pc : {"miss", "consume"}, row : Nat, result : Results]

\* accepted: times verify returned success for the row; tries: wrong codes compared
\* with it; lost: increments that failed; saw: the rows issue's UPDATE had before it;
\* checked: the limits that were really evaluated before it was issued.
History == [accepted : Nat, tries : Nat, lost : Nat, saw : SUBSET Nat,
            checked : SUBSET Limits]

-----------------------------------------------------------------------------
(* Rows and locks *)

Ids == 1..Len(otps)

Stored(k) == {i \in Ids : otps[i].status = "committed" /\ otps[i].key = k}

Unconsumed(k) == {i \in Stored(k) : ~otps[i].consumed}

Usable(k) == {i \in Unconsumed(k) : otps[i].expires > clock}

\* Committed rows of any purpose that the hourly limit counts at time now.
RecentFor(email, now) ==
  {i \in Ids : /\ otps[i].status = "committed"
               /\ otps[i].key[1] = email
               /\ otps[i].created > now - Hour}

\* ORDER BY created_at DESC LIMIT 1
Latest(rows) == {i \in rows : \A j \in rows : j <= i}

Issuing(v) == op[v].pc \in {"count", "update", "lock", "commit"}

\* Rows an open transaction has updated so far: any other UPDATE of them waits.
Locked(v) == IF op[v].pc \in {"lock", "commit"}
             THEN {i \in op[v].rows \ ToSet(op[v].queue) : ~otps[i].consumed}
             ELSE {}

Free(w, rows) == \A v \in Workers \ {w} : Locked(v) \cap rows = {}

Goto(w, r) == op' = [op EXCEPT ![w] = r]

Return(w, result, code) == Goto(w, [pc |-> "idle", result |-> result, code |-> code])

-----------------------------------------------------------------------------
(* issue *)

\* Mutant of CoolingDown: the comparison of the cooldown is turned round.
CoolingDown_Swapped(k) == \E i \in Latest(Stored(k)) : clock - otps[i].created > Cooldown

CoolingDown(k) == \E i \in Latest(Stored(k)) : clock - otps[i].created < Cooldown

\* The latest code of this address and purpose, if it can be read, starts the cooldown.
IssueStart(w, k) ==
  /\ op[w].pc = "idle"
  /\ Len(otps) + Cardinality({v \in Workers : Issuing(v)}) < MaxCodes
  /\ \E readOk \in BOOLEAN :
       IF readOk /\ CoolingDown(k)
       THEN Return(w, "cooldown", 0)
       ELSE Goto(w, [pc |-> "count", key |-> k, now |-> clock, rows |-> {},
                     queue |-> <<>>, row |-> 0,
                     checked |-> IF readOk THEN {"cooldown"} ELSE {}])
  /\ UNCHANGED <<otps, clock, hist>>

\* Mutant of OverHourlyLimit: one code too many before the limit bites.
OverHourlyLimit_OffByOne(k, now) == Cardinality(RecentFor(k[1], now)) > MaxPerHour

OverHourlyLimit(k, now) == Cardinality(RecentFor(k[1], now)) >= MaxPerHour

\* A count that fails leaves recent at 0: the code is issued all the same.
IssueCount(w) ==
  /\ op[w].pc = "count"
  /\ \E countOk \in BOOLEAN :
       IF countOk /\ OverHourlyLimit(op[w].key, op[w].now)
       THEN Return(w, "hourly_limit", 0)
       ELSE Goto(w, [op[w] EXCEPT !.pc = "update", 
                                  !.checked = @ \cup IF countOk THEN {"hourly"} ELSE {}])
  /\ UNCHANGED <<otps, clock, hist>>

\* The transaction opens and its UPDATE starts: it will touch the rows committed by now, in
\* the order in which the database comes upon them.
IssueUpdate(w) ==
  /\ op[w].pc = "update"
  /\ \E queue \in SetToSeqs(Unconsumed(op[w].key)) :
       Goto(w, [op[w] EXCEPT !.pc = "lock", !.rows = Unconsumed(op[w].key),
                             !.queue = queue])
  /\ UNCHANGED <<otps, clock, hist>>

\* The UPDATE gets the lock of its next row and keeps those it has; a row that another
\* transaction consumed meanwhile drops out.
IssueLock(w) ==
  /\ op[w].pc = "lock" /\ op[w].queue # <<>>
  /\ Free(w, {Head(op[w].queue)})
  /\ Goto(w, [op[w] EXCEPT !.queue = Tail(@)])
  /\ UNCHANGED <<otps, clock, hist>>

\* Mutant of NewRow: the lifetime is subtracted.
NewRow_BornExpired(w) ==
  [key |-> op[w].key, created |-> clock, expires |-> op[w].now - Lifetime,
   attempts |-> 0, consumed |-> FALSE, status |-> "pending"]

NewRow(w) == [key |-> op[w].key, created |-> clock, expires |-> op[w].now + Lifetime,
              attempts |-> 0, consumed |-> FALSE, status |-> "pending"]

IssueInsert(w) ==
  /\ op[w].pc = "lock" /\ op[w].queue = <<>>
  /\ otps' = Append(otps, NewRow(w))
  /\ hist' = Append(hist, [accepted |-> 0, tries |-> 0, lost |-> 0,
                           saw |-> op[w].rows, checked |-> op[w].checked])
  /\ Goto(w, [op[w] EXCEPT !.pc = "commit", !.row = Len(otps) + 1])
  /\ UNCHANGED clock

\* Mutant of Committed: consumed_at is written on every row, not on those to consume only.
Committed_Overwrites(w) ==
  [i \in Ids |->
     IF i = op[w].row THEN [otps[i] EXCEPT !.status = "committed"]
     ELSE [otps[i] EXCEPT !.consumed = i \in op[w].rows]]

\* Everything the transaction wrote becomes visible at once.
Committed(w) ==
  [i \in Ids |->
     IF i = op[w].row THEN [otps[i] EXCEPT !.status = "committed"]
     ELSE IF i \in op[w].rows THEN [otps[i] EXCEPT !.consumed = TRUE] ELSE otps[i]]

\* The acknowledgement of a commit can be lost: the caller then sees an error.
IssueCommit(w) ==
  /\ op[w].pc = "commit"
  /\ otps' = Committed(w)
  /\ \/ Return(w, "ok", op[w].row)
     \/ Return(w, "error", 0)
  /\ UNCHANGED <<clock, hist>>

\* A statement fails, the connection is lost or the process dies: rollback.
IssueFail(w) ==
  /\ op[w].pc \in {"update", "lock", "commit"}
  /\ otps' = IF op[w].pc = "commit"
             THEN [otps EXCEPT ![op[w].row].status = "rolledback"]
             ELSE otps
  /\ Return(w, "error", 0)
  /\ UNCHANGED <<clock, hist>>

\* Those who hold the row that w is to lock next.
WaitsFor(w) ==
  {v \in Workers \ {w} : /\ op[w].pc = "lock" /\ op[w].queue # <<>>
                         /\ Head(op[w].queue) \in Locked(v)}

\* Transactions that wait for each other's rows, w among them.
Deadlocked(w) ==
  \E ring \in SUBSET Workers :
    w \in ring /\ \A v \in ring : \E u \in ring : u \in WaitsFor(v)

\* Mutant of DeadlockDetected: nothing rolls the transaction back, which was begun by hand.
DeadlockDetected_NoRollback(w) == Deadlocked(w) /\ UNCHANGED otpVars

\* The database ends one of the transactions that wait for each other.
DeadlockDetected(w) == Deadlocked(w) /\ IssueFail(w)

-----------------------------------------------------------------------------
(* verify *)

\* Mutant of LockedOut: one attempt more than otpMaxAttempts.
LockedOut_OffByOne(attempts) == attempts > MaxAttempts

LockedOut(attempts) == attempts >= MaxAttempts

\* The latest usable code is read and the guess is compared with it.  The answer to a
\* wrong guess is decided by the attempts read here, not by those the UPDATE leaves.
VerifyRead(w, k, guess) ==
  /\ op[w].pc = "idle"
  /\ \/ /\ Return(w, "invalid", 0)   \* no usable row, or the read failed
        /\ UNCHANGED hist
     \/ \E i \in Latest(Usable(k)) :
          \/ /\ LockedOut(otps[i].attempts)
             /\ Return(w, "too_many", 0)
             /\ UNCHANGED hist
          \/ /\ ~LockedOut(otps[i].attempts)
             /\ guess = i
             /\ Goto(w, [pc |-> "consume", row |-> i, result |-> "ok"])
             /\ UNCHANGED hist
          \/ /\ ~LockedOut(otps[i].attempts)
             /\ guess # i
             /\ Goto(w, [pc |-> "miss", row |-> i,
                         result |-> IF LockedOut(otps[i].attempts + 1)
                                    THEN "too_many" ELSE "invalid"])
             /\ hist' = [hist EXCEPT ![i].tries = @ + 1]
  /\ UNCHANGED <<otps, clock>>

\* Mutant of CountMiss: the guess that locks the code out is not counted.
CountMiss_NotTheLast(i) ==
  IF LockedOut(otps[i].attempts + 1) THEN otps ELSE [otps EXCEPT ![i].attempts = @ + 1]

\* attempts = attempts + 1, evaluated by the database.
CountMiss(i) == [otps EXCEPT ![i].attempts = @ + 1]

VerifyMiss(w) ==
  /\ op[w].pc = "miss"
  /\ Free(w, {op[w].row})
  /\ otps' = CountMiss(op[w].row)
  /\ Return(w, op[w].result, 0)
  /\ UNCHANGED <<clock, hist>>

\* The error of that UPDATE is not looked at.
VerifyMissFails(w) ==
  /\ op[w].pc = "miss"
  /\ hist[op[w].row].lost < MaxLost
  /\ hist' = [hist EXCEPT ![op[w].row].lost = @ + 1]
  /\ Return(w, op[w].result, 0)
  /\ UNCHANGED <<otps, clock>>

\* Mutant of Consumable: WHERE id = ?
Consumable_Any(i) == TRUE

\* Mutant of Consumable: the expiry is checked again instead of consumed_at.
Consumable_Unexpired(i) == otps[i].expires > clock

\* WHERE id = ? AND consumed_at IS NULL
Consumable(i) == ~otps[i].consumed

VerifyConsume(w) ==
  /\ op[w].pc = "consume"
  /\ Free(w, {op[w].row})
  /\ LET i == op[w].row IN
       IF Consumable(i)
       THEN /\ otps' = [otps EXCEPT ![i].consumed = TRUE]
            /\ hist' = [hist EXCEPT ![i].accepted = @ + 1]
            /\ Return(w, "ok", 0)
       ELSE /\ Return(w, "invalid", 0)
            /\ UNCHANGED <<otps, hist>>
  /\ UNCHANGED clock

\* An error answers "invalid", whether or not the row was consumed behind it.
VerifyConsumeFails(w) ==
  /\ op[w].pc = "consume"
  /\ \/ UNCHANGED otps
     \/ /\ Free(w, {op[w].row})
        /\ Consumable(op[w].row)
        /\ otps' = [otps EXCEPT ![op[w].row].consumed = TRUE]
  /\ Return(w, "invalid", 0)
  /\ UNCHANGED <<clock, hist>>

-----------------------------------------------------------------------------

Tick ==
  /\ clock < MaxTime
  /\ clock' = clock + 1
  /\ UNCHANGED <<otps, op, hist>>

OtpInit ==
  /\ otps = <<>>
  /\ clock = 0
  /\ op = [w \in Workers |-> [pc |-> "idle", result |-> "none", code |-> 0]]
  /\ hist = <<>>

Guesses == 0..Len(otps)

IssueStep(w) ==
  \/ IssueCount(w) \/ IssueUpdate(w) \/ IssueLock(w) \/ IssueInsert(w) \/ IssueCommit(w)

VerifyStep(w) == VerifyMiss(w) \/ VerifyConsume(w)

Fault(w) == IssueFail(w) \/ VerifyMissFails(w) \/ VerifyConsumeFails(w)

Call(w) ==
  \E k \in Keys : \/ IssueStart(w, k)
                  \/ \E guess \in Guesses : VerifyRead(w, k, guess)

OtpNext ==
  \/ \E w \in Workers : \/ Call(w) \/ IssueStep(w) \/ VerifyStep(w)
                        \/ Fault(w) \/ DeadlockDetected(w)
  \/ Tick

OtpSpec == OtpInit /\ [][OtpNext]_otpVars

\* A goroutine that can run its next statement does so; Postgres grants a row lock in the
\* order it was asked for, so one that keeps becoming free is obtained, and looks for deadlocks.
OtpFairness ==
  \A w \in Workers : SF_otpVars(IssueStep(w) \/ DeadlockDetected(w)) /\ SF_otpVars(VerifyStep(w))

FairOtpSpec == OtpSpec /\ OtpFairness

-----------------------------------------------------------------------------
(* Properties *)

\* The rows of the table and of the history, and every local, keep their types.
OtpTypeOK ==
  /\ otps \in Seq(Row)
  /\ clock \in Nat
  /\ op \in [Workers -> IdleOp \cup IssueOp \cup VerifyOp]
  /\ hist \in Seq(History)
  /\ Len(hist) = Len(otps)

\* A code signs in or resets at most once, however many requests present it together,
\* and one that did is consumed (the conditional UPDATE of verify, otp.go:117-121).
AcceptedOnce ==
  \A i \in Ids : /\ hist[i].accepted <= 1
                 /\ hist[i].accepted = 1 => otps[i].consumed

Missing(i) == {w \in Workers : op[w].pc = "miss" /\ op[w].row = i}

\* No wrong guess is forgotten: every one compared with a row is in its attempts column,
\* on its way there, or was lost to a failed statement (otp.go:109-110).
GuessesCounted ==
  \A i \in Ids : hist[i].tries = otps[i].attempts + hist[i].lost + Cardinality(Missing(i))

\* The check of attempts and the increment are two statements, so guesses that overlap
\* all pass the check: a code takes at most one more wrong guess per extra worker than
\* otpMaxAttempts, whatever the interleaving (otp.go:105-110).
GuessesBounded ==
  \A i \in Ids :
    hist[i].tries <= MaxAttempts - 1 + Cardinality(Workers) + hist[i].lost

\* Every code that issue found unconsumed is consumed once the new code exists, even
\* those another transaction held locked or rolled back (otp.go:77-90).
IssueInvalidatesWhatItSaw ==
  \A j \in Ids : otps[j].status = "committed" =>
                  \A i \in hist[j].saw : otps[i].consumed

\* Rows that exist or may still, issued after the limit was evaluated.
Checked(limit) ==
  {i \in Ids : otps[i].status # "rolledback" /\ limit \in hist[i].checked}

\* However issue calls overlap, an address gets at most one code per extra worker more
\* than otpMaxPerHour within any hour (otp.go:66-70).
HourlyBounded ==
  \A e \in Emails :
    Cardinality({i \in Checked("hourly") : /\ otps[i].key[1] = e
                                          /\ otps[i].created > clock - Hour})
      <= MaxPerHour - 1 + Cardinality(Workers)

\* Within one cooldown at most one code per worker is issued for a key: overlapping calls
\* may each pass the check once, never twice (otp.go:60-64).
CooldownBounded ==
  \A k \in Keys :
    Cardinality({i \in Checked("cooldown") : /\ otps[i].key = k
                                            /\ clock - otps[i].created < Cooldown})
      <= Cardinality(Workers)

\* A code that a newer committed code superseded is never accepted, although the
\* verify that accepts may have read it before the newer one existed (otp.go:118).
NoSupersededAccept ==
  [][\A i \in Ids : hist'[i].accepted > hist[i].accepted =>
       \A j \in Ids : otps[j].status = "committed" => i \notin hist[j].saw]_otpVars

\* The attempts of a row never go down and a consumed row stays consumed: no
\* statement writes back a value read earlier (otp.go:110, 118).
RowsOnlyAge ==
  [][\A i \in Ids : /\ otps'[i].attempts >= otps[i].attempts
                    /\ otps[i].consumed => otps'[i].consumed]_otpVars

\* Two issues of a key that has several live codes lock them one by one, in any order, and may
\* come to wait for each other: one is ended, and every call returns (otp.go:77-93, 110, 118).
EveryCallReturns == \A w \in Workers : op[w].pc # "idle" ~> op[w].pc = "idle"

\* The store implements the abstract code book: a row is in the book once committed.
BookState(i) ==
  IF i \notin Ids \/ otps[i].status # "committed" THEN "unissued"
  ELSE IF hist[i].accepted > 0 THEN "accepted"
  ELSE IF otps[i].consumed THEN "dead" ELSE "live"

Codes == INSTANCE CodeBook WITH book <- [i \in 1..MaxCodes |-> BookState(i)]

\* Every behaviour of the store is one of the abstract code book (otp.go:55-123).
ImplementsCodeBook == Codes!BookSpec
=============================================================================
