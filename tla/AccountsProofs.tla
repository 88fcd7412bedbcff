--------------------------- MODULE AccountsProofs ---------------------------
(***************************************************************************)
(* What TLAPS proves of the accounts, for any number of workers, addresses *)
(* and codes: the type invariant, that nobody gets in before the address   *)
(* was proved, that a token is good for a verified account, and what may   *)
(* change a verified account.                                              *)
(***************************************************************************)
EXTENDS Accounts, FiniteSetTheorems, TLAPS

Reqs == IdleReq \cup SignUpReq \cup SendReq \cup MailReq \cup CodeReq \cup WriteReq \cup TokenReq

TableOK(us) == DOMAIN us \subseteq Emails /\ \A e \in DOMAIN us : us[e] \in UserRow

AboutOK == about \in [1..MaxCodes -> (Emails \X Purposes) \cup {<<>>}]

\* Verified, of any table.
VerifiedIn(us, e) == e \in DOMAIN us /\ us[e].verified

\* The address is verified, or one of the two known ways of losing that has happened.
Assured(us, tr, e) == VerifiedIn(us, e) \/ e \in tr.unmarked \cup tr.undone

\* What a handler in its place relies on; us and tr are the table and the history.
Placed(r, us, tr) ==
  /\ r.pc \in {"promote", "token"} \/ (r.pc = "idle" /\ r.answer = "token") =>
       r.email \in tr.proved /\ Assured(us, tr, r.email)
  /\ r.pc \in {"save", "create", "mark"} => ~r.row.verified
  /\ r.pc \in {"mark", "reset"} => r.email \in tr.proved
  /\ r.pc \in Purposes \cup {"reset"} => (r.row.verified => Assured(us, tr, r.email))
  /\ r.pc \in Purposes \cup {"save", "mark", "reset", "promote"} => r.email \in DOMAIN us

\* Only proved addresses are verified, and every handler is well placed.
AccountsInv ==
  /\ AccountsTypeOK
  /\ \A e \in Emails : VerifiedIn(users, e) => e \in trace.proved
  /\ \A w \in Workers : Placed(req[w], users, trace)

\* What every step does to the table and the history: accounts and proofs stay, and
\* what was assured stays assured.
Grows(us, tr, us2, tr2) ==
  /\ DOMAIN us \subseteq DOMAIN us2
  /\ tr.proved \subseteq tr2.proved
  /\ \A e \in Emails : Assured(us, tr, e) => Assured(us2, tr2, e)

\* The program counter of a handler tells which locals it has.
LEMMA WhichReq ==
  ASSUME NEW r \in Reqs
  PROVE  /\ r.email \in Emails
         /\ r.pc \in {"idle", "save", "create", "send", "mail", "verify_email",
                      "reset_password", "mark", "reset", "promote", "token"}
         /\ r.pc = "idle" => r \in IdleReq
         /\ r.pc \in {"save", "create"} => r \in SignUpReq
         /\ r.pc = "send" => r \in SendReq
         /\ r.pc \in Purposes => r \in CodeReq
         /\ r.pc \in {"mark", "reset"} => r \in WriteReq
BY DEF Reqs, IdleReq, SignUpReq, SendReq, MailReq, CodeReq, WriteReq, TokenReq, Purposes

\* A handler stays well placed while others add accounts, proofs and assurances.
LEMMA StaysPlaced ==
  ASSUME NEW r \in Reqs, NEW us, NEW tr, NEW us2, NEW tr2,
         Placed(r, us, tr), Grows(us, tr, us2, tr2)
  PROVE  Placed(r, us2, tr2)
BY WhichReq DEF Placed, Grows

\* A step that keeps table and history sound and puts worker w in a good place keeps
\* the invariant.
LEMMA MoveKeepsInv ==
  ASSUME AccountsInv, NEW w \in Workers, NEW r \in Reqs, Goto(w, r),
         BookType', TableOK(users'), AboutOK', trace' \in Trace,
         Grows(users, trace, users', trace'), Placed(r, users', trace'),
         \A e \in Emails : VerifiedIn(users', e) => e \in trace'.proved
  PROVE  AccountsInv'
<1>1. req \in [Workers -> Reqs]
  BY DEF AccountsInv, AccountsTypeOK, Reqs
<1>2. req' \in [Workers -> Reqs]
  BY <1>1 DEF Goto
<1>3. AccountsTypeOK'
  BY <1>2 DEF AccountsTypeOK, TableOK, AboutOK, Reqs
<1>4. ASSUME NEW v \in Workers PROVE Placed(req'[v], users', trace')
  <2>1. CASE v = w
    <3>1. req'[v] = r
      BY <1>1, <2>1 DEF Goto
    <3>2. QED
      BY <3>1
  <2>2. CASE v # w
    <3>1. req'[v] = req[v]
      BY <1>1, <2>2 DEF Goto
    <3>2. Placed(req[v], users, trace)
      BY DEF AccountsInv
    <3>3. req[v] \in Reqs
      BY <1>1
    <3>4. QED
      BY <3>1, <3>2, <3>3, StaysPlaced
  <2>3. QED
    BY <2>1, <2>2
<1>5. QED
  BY <1>3, <1>4 DEF AccountsInv

\* Nothing changes for the others when table and history stay as they are.
LEMMA Unchanging ==
  ASSUME NEW us, NEW tr
  PROVE  Grows(us, tr, us, tr)
BY DEF Grows

\* What the invariant says of one handler and of the tables, unfolded.
LEMMA Unfolded ==
  ASSUME AccountsInv
  PROVE  /\ BookType /\ TableOK(users) /\ AboutOK /\ trace \in Trace
         /\ req \in [Workers -> Reqs]
         /\ \A e \in Emails : VerifiedIn(users, e) => e \in trace.proved
         /\ \A w \in Workers : req[w] \in Reqs /\ Placed(req[w], users, trace)
BY DEF AccountsInv, AccountsTypeOK, TableOK, AboutOK, Reqs

\* A step of one handler that leaves codes, accounts and history alone only has to put
\* the handler in a good place.
LEMMA QuietMove ==
  ASSUME AccountsInv, NEW w \in Workers, NEW r \in Reqs, Goto(w, r),
         UNCHANGED <<book, users, about, trace>>, Placed(r, users, trace)
  PROVE  AccountsInv'
<1>1. /\ BookType /\ TableOK(users) /\ AboutOK /\ trace \in Trace
      /\ \A e \in Emails : VerifiedIn(users, e) => e \in trace.proved
  BY Unfolded
<1>2. BookType' /\ TableOK(users') /\ AboutOK' /\ trace' \in Trace
  BY <1>1 DEF BookType, AboutOK
<1>3. Grows(users, trace, users', trace')
  BY Unchanging
<1>4. Placed(r, users', trace')
  OBVIOUS
<1>5. \A e \in Emails : VerifiedIn(users', e) => e \in trace'.proved
  BY <1>1
<1>6. QED
  BY <1>2, <1>3, <1>4, <1>5, MoveKeepsInv

\* An answer other than a token is a good place.
LEMMA RefusedPlaced ==
  ASSUME NEW e \in Emails, NEW a \in {"none", "sent", "refused"}, NEW us, NEW tr
  PROVE  /\ [pc |-> "idle", email |-> e, answer |-> a] \in Reqs
         /\ Placed([pc |-> "idle", email |-> e, answer |-> a], us, tr)
BY DEF Reqs, IdleReq, Answers, Placed, Purposes

\* So is being about to send a code.
LEMMA SendPlaced ==
  ASSUME NEW e \in Emails, NEW p \in Purposes, NEW us, NEW tr
  PROVE  /\ [pc |-> "send", email |-> e, purpose |-> p] \in Reqs
         /\ Placed([pc |-> "send", email |-> e, purpose |-> p], us, tr)
BY DEF Reqs, SendReq, Placed, Purposes

\* And being about to hand out a token, once the address is proved and assured.
LEMMA TokenPlaced ==
  ASSUME NEW e \in Emails, NEW us, NEW tr, e \in tr.proved, Assured(us, tr, e)
  PROVE  /\ [pc |-> "token", email |-> e] \in Reqs
         /\ Placed([pc |-> "token", email |-> e], us, tr)
BY DEF Reqs, TokenReq, Placed, Purposes

\* Every handler may answer with an error, or with that something was sent.
LEMMA AnswerKeepsInv ==
  ASSUME AccountsInv, NEW w \in Workers, NEW e \in Emails,
         NEW a \in {"none", "sent", "refused"},
         Answer(w, e, a), UNCHANGED <<book, users, about, trace>>
  PROVE  AccountsInv'
BY RefusedPlaced, QuietMove DEF Answer

\* Every handler may go on to send a code.
LEMMA SendKeepsInv ==
  ASSUME AccountsInv, NEW w \in Workers, NEW e \in Emails, NEW p \in Purposes,
         Send(w, e, p), UNCHANGED <<book, users, about, trace>>
  PROVE  AccountsInv'
BY SendPlaced, QuietMove DEF Send

\* A handler may go on to the token of a verified account.
LEMMA RespondKeepsInv ==
  ASSUME AccountsInv, NEW w \in Workers, NEW e \in Emails,
         e \in trace.proved, Assured(users, trace, e),
         Respond(w, e), UNCHANGED <<book, users, about, trace>>
  PROVE  AccountsInv'
BY TokenPlaced, QuietMove DEF Respond

\* The row of a known account is a user row.
LEMMA KnownRow ==
  ASSUME AccountsInv, NEW e \in Emails, Known(e)
  PROVE  users[e] \in UserRow
BY DEF AccountsInv, AccountsTypeOK, Known

\* Signing up copies an unverified row, or prepares one.
LEMMA RegisterKeepsInv ==
  ASSUME AccountsInv, NEW w \in Workers, NEW e \in Emails, NEW p \in Passwords,
         Register(w, e, p)
  PROVE  AccountsInv'
<1>1. UNCHANGED <<book, users, about, trace>>
  BY DEF Register, Starts
<1>2. CASE Answer(w, e, "refused")
  BY <1>1, <1>2, AnswerKeepsInv
<1>3. ASSUME Known(e), ~SignUpRefused(users[e]),
             Goto(w, [pc |-> "save", email |-> e, row |-> [users[e] EXCEPT !.password = p]])
      PROVE  AccountsInv'
  <2> DEFINE row == [users[e] EXCEPT !.password = p]
             r == [pc |-> "save", email |-> e, row |-> row]
  <2>1. row \in UserRow /\ ~row.verified
    BY <1>3, KnownRow DEF UserRow, SignUpRefused
  <2> HIDE DEF row
  <2>2. r \in Reqs
    BY <2>1 DEF Reqs, SignUpReq
  <2>3. Placed(r, users, trace)
    BY <1>3, <2>1 DEF Placed, Purposes, Known
  <2>4. Goto(w, r)
    BY <1>3 DEF row
  <2> HIDE DEF r
  <2>5. QED
    BY <1>1, <2>2, <2>3, <2>4, QuietMove
<1>4. ASSUME Goto(w, [pc |-> "create", email |-> e,
                      row |-> [verified |-> FALSE, password |-> p, role |-> RoleFor(e)]])
      PROVE  AccountsInv'
  <2> DEFINE row == [verified |-> FALSE, password |-> p, role |-> RoleFor(e)]
             r == [pc |-> "create", email |-> e, row |-> row]
  <2>1. row \in UserRow /\ ~row.verified
    BY DEF UserRow, RoleFor, Roles
  <2>2. Goto(w, r)
    BY <1>4
  <2> HIDE DEF row
  <2>3. r \in Reqs /\ Placed(r, users, trace)
    BY <2>1 DEF Reqs, SignUpReq, Placed, Purposes
  <2> HIDE DEF r
  <2>4. QED
    BY <1>1, <2>2, <2>3, QuietMove
<1>5. QED
  BY <1>2, <1>3, <1>4 DEF Register

\* Asking for a code again, or for a reset, sends one or answers.
LEMMA ResendKeepsInv ==
  ASSUME AccountsInv, NEW w \in Workers, NEW e \in Emails,
         ForgotPassword(w, e) \/ \E p \in Purposes : ResendCode(w, e, p)
  PROVE  AccountsInv'
<1>1. UNCHANGED <<book, users, about, trace>>
  BY DEF ForgotPassword, ResendCode, Starts
<1>2. "reset_password" \in Purposes
  BY DEF Purposes
<1>3. Answer(w, e, "sent") \/ \E p \in Purposes : Send(w, e, p)
  BY <1>2 DEF ForgotPassword, ResendCode
<1>4. QED
  BY <1>1, <1>3, AnswerKeepsInv, SendKeepsInv

\* Presenting a code copies the account first.
LEMMA PresentKeepsInv ==
  ASSUME AccountsInv, NEW w \in Workers, NEW e \in Emails, NEW code \in 0..MaxCodes,
         VerifyEmail(w, e, code) \/ \E p \in Passwords : ResetPassword(w, e, code, p)
  PROVE  AccountsInv'
<1>1. UNCHANGED <<book, users, about, trace>>
  BY DEF VerifyEmail, ResetPassword, Starts
<1>2. CASE Answer(w, e, "refused")
  BY <1>1, <1>2, AnswerKeepsInv
<1>3. ASSUME Known(e), NEW pc \in Purposes, NEW p \in Passwords \cup {NoPassword},
             Goto(w, [pc |-> pc, email |-> e, row |-> users[e], code |-> code,
                      password |-> p])
      PROVE  AccountsInv'
  <2> DEFINE r == [pc |-> pc, email |-> e, row |-> users[e], code |-> code, password |-> p]
  <2>1. users[e] \in UserRow /\ code \in Nat
    BY <1>3, KnownRow, MaxCodesNat
  <2>2. r \in Reqs
    BY <2>1 DEF Reqs, CodeReq, Purposes
  <2>3. Placed(r, users, trace)
    BY <1>3 DEF Placed, Purposes, Known, Assured, VerifiedIn
  <2> HIDE DEF r
  <2>4. Goto(w, r)
    BY <1>3 DEF r
  <2>5. QED
    BY <1>1, <2>2, <2>3, <2>4, QuietMove
<1>4. "verify_email" \in Purposes /\ "reset_password" \in Purposes
  BY DEF Purposes
<1>5. CASE VerifyEmail(w, e, code)
  BY <1>2, <1>3, <1>4, <1>5 DEF VerifyEmail
<1>6. ASSUME NEW p \in Passwords, ResetPassword(w, e, code, p)
      PROVE  AccountsInv'
  BY <1>2, <1>3, <1>4, <1>6 DEF ResetPassword
<1>7. QED
  BY <1>5, <1>6

\* Signing in leads to a token only from a verified account.
LEMMA LoginKeepsInv ==
  ASSUME AccountsInv, NEW w \in Workers, NEW e \in Emails, NEW p \in Passwords,
         Login(w, e, p)
  PROVE  AccountsInv'
<1>1. UNCHANGED <<book, users, about, trace>>
  BY DEF Login, Starts
<1>2. "verify_email" \in Purposes
  BY DEF Purposes
<1>3. CASE Answer(w, e, "refused") \/ Send(w, e, "verify_email")
  BY <1>1, <1>2, <1>3, AnswerKeepsInv, SendKeepsInv
<1>4. CASE /\ Known(e) /\ MaySignIn(users[e])
           /\ Goto(w, [pc |-> "promote", email |-> e]) \/ Respond(w, e)
  <2>1. VerifiedIn(users, e)
    BY <1>4 DEF VerifiedIn, Known, MaySignIn
  <2>2. e \in trace.proved /\ Assured(users, trace, e)
    BY <2>1, Unfolded DEF Assured
  <2>3. CASE Respond(w, e)
    BY <1>1, <2>2, <2>3, RespondKeepsInv
  <2>4. CASE Goto(w, [pc |-> "promote", email |-> e])
    <3> DEFINE r == [pc |-> "promote", email |-> e]
    <3>1. r \in Reqs /\ Placed(r, users, trace)
      BY <2>1, <2>2 DEF Reqs, TokenReq, Placed, Purposes, VerifiedIn
    <3> HIDE DEF r
    <3>2. Goto(w, r)
      BY <2>4 DEF r
    <3>3. QED
      BY <1>1, <3>1, <3>2, QuietMove
  <2>5. QED
    BY <1>4, <2>3, <2>4
<1>5. QED
  BY <1>3, <1>4 DEF Login

\* Putting a user row into the table keeps it a table, and gives that address that row.
LEMMA PutRow ==
  ASSUME TableOK(users), NEW e \in Emails, NEW row \in UserRow
  PROVE  /\ TableOK(Put(e, row))
         /\ DOMAIN Put(e, row) = DOMAIN users \cup {e}
         /\ Put(e, row)[e] = row
         /\ \A a \in DOMAIN users : a # e => Put(e, row)[a] = users[a]
BY DEF Put, TableOK

\* Put leaves the verification of the other addresses alone.
LEMMA PutVerified ==
  ASSUME TableOK(users), NEW e \in Emails, NEW row \in UserRow, NEW a \in Emails
  PROVE  VerifiedIn(Put(e, row), a) <=> IF a = e THEN row.verified ELSE VerifiedIn(users, a)
<1>1. CASE a = e
  <2>1. e \in DOMAIN Put(e, row) /\ Put(e, row)[e] = row
    BY PutRow
  <2>2. QED
    BY <1>1, <2>1 DEF VerifiedIn
<1>2. CASE a # e
  <2>1. DOMAIN Put(e, row) = DOMAIN users \cup {e}
    BY PutRow
  <2>2. a \in DOMAIN Put(e, row) <=> a \in DOMAIN users
    BY <1>2, <2>1
  <2>3. a \in DOMAIN users => Put(e, row)[a] = users[a]
    BY <1>2, PutRow
  <2>4. QED
    BY <1>2, <2>2, <2>3 DEF VerifiedIn
<1>3. QED
  BY <1>1, <1>2

\* Saving the copy of a sign-up may undo a verification, and the history then says so.
LEMMA RegisterSaveKeepsInv ==
  ASSUME AccountsInv, NEW w \in Workers, RegisterSave(w)
  PROVE  AccountsInv'
<1> DEFINE e == req[w].email
           row == req[w].row
           r == [pc |-> "send", email |-> e, purpose |-> "verify_email"]
<1>1. /\ BookType /\ TableOK(users) /\ AboutOK /\ trace \in Trace
      /\ \A a \in Emails : VerifiedIn(users, a) => a \in trace.proved
      /\ req[w] \in Reqs /\ Placed(req[w], users, trace)
  BY Unfolded
<1>2. e \in Emails /\ row \in UserRow /\ ~row.verified
  BY <1>1, WhichReq DEF RegisterSave, At, SignUpReq, Placed
<1>3. /\ users' = Put(e, row) /\ UNCHANGED <<book, about>>
      /\ trace' = IF Verified(e) /\ ~row.verified
                  THEN [trace EXCEPT !.undone = @ \cup {e}] ELSE trace
      /\ Goto(w, r)
  BY DEF RegisterSave, Send
<1> HIDE DEF e, row
<1>4. /\ trace' \in Trace /\ trace'.proved = trace.proved
      /\ trace.unmarked \subseteq trace'.unmarked /\ trace.undone \subseteq trace'.undone
      /\ VerifiedIn(users, e) => e \in trace'.undone
  BY <1>1, <1>2, <1>3 DEF Trace, Verified, VerifiedIn, Known
<1>5. BookType' /\ AboutOK' /\ TableOK(users')
  BY <1>1, <1>2, <1>3, PutRow DEF BookType, AboutOK
<1>6. \A a \in Emails : VerifiedIn(users', a) => a # e /\ VerifiedIn(users, a)
  BY <1>1, <1>2, <1>3, PutVerified
<1>7. \A a \in Emails : a # e /\ VerifiedIn(users, a) => VerifiedIn(users', a)
  BY <1>1, <1>2, <1>3, PutVerified
<1>8. Grows(users, trace, users', trace')
  <2>1. DOMAIN Put(e, row) = DOMAIN users \cup {e}
    BY <1>1, <1>2, PutRow
  <2>2. DOMAIN users \subseteq DOMAIN users'
    BY <1>3, <2>1
  <2>3. QED
    BY <2>2, <1>4, <1>7 DEF Grows, Assured
<1>9. r \in Reqs /\ Placed(r, users', trace')
  BY <1>2, SendPlaced DEF Purposes
<1> HIDE DEF r
<1>10. QED
  BY <1>1, <1>3, <1>4, <1>5, <1>6, <1>8, <1>9, MoveKeepsInv

\* Adding an unverified row for an address that has none is no proof and loses none.
LEMMA NewAccountGrows ==
  ASSUME TableOK(users), NEW e \in Emails, ~Known(e), NEW row \in UserRow, ~row.verified
  PROVE  /\ TableOK(Put(e, row))
         /\ Grows(users, trace, Put(e, row), trace)
         /\ \A a \in Emails : VerifiedIn(Put(e, row), a) => VerifiedIn(users, a)
<1> DEFINE new == Put(e, row)
<1>1. TableOK(new) /\ DOMAIN new = DOMAIN users \cup {e}
  BY PutRow
<1>2. ASSUME NEW a \in Emails PROVE VerifiedIn(new, a) <=> VerifiedIn(users, a)
  <2>1. VerifiedIn(new, a) <=> IF a = e THEN row.verified ELSE VerifiedIn(users, a)
    BY PutVerified
  <2>2. ~VerifiedIn(users, e)
    BY DEF Known, VerifiedIn
  <2> HIDE DEF new
  <2>3. QED
    BY <2>1, <2>2
<1> HIDE DEF new
<1>3. ASSUME NEW a \in Emails, Assured(users, trace, a) PROVE Assured(new, trace, a)
  BY <1>2, <1>3 DEF Assured
<1>4. Grows(users, trace, new, trace)
  BY <1>1, <1>3 DEF Grows
<1>5. TableOK(new) /\ Grows(users, trace, new, trace)
      /\ \A a \in Emails : VerifiedIn(new, a) => VerifiedIn(users, a)
  BY <1>1, <1>2, <1>4
<1>6. QED
  BY <1>5 DEF new

\* Creating the account of a sign-up adds an unverified row or refuses.
LEMMA RegisterCreateKeepsInv ==
  ASSUME AccountsInv, NEW w \in Workers, RegisterCreate(w)
  PROVE  AccountsInv'
<1> DEFINE e == req[w].email
           row == req[w].row
           r == [pc |-> "send", email |-> e, purpose |-> "verify_email"]
<1>1. /\ BookType /\ TableOK(users) /\ AboutOK /\ trace \in Trace
      /\ \A a \in Emails : VerifiedIn(users, a) => a \in trace.proved
      /\ req[w] \in Reqs /\ Placed(req[w], users, trace)
  BY Unfolded
<1>2. e \in Emails /\ row \in UserRow /\ ~row.verified
  BY <1>1, WhichReq DEF RegisterCreate, At, SignUpReq, Placed
<1>3. UNCHANGED <<book, about, trace>>
  BY DEF RegisterCreate
<1>4. CASE Known(e)
  BY <1>2, <1>3, <1>4, AnswerKeepsInv DEF RegisterCreate
<1>5. CASE ~Known(e)
  <2>1. users' = Put(e, row) /\ Goto(w, r)
    BY <1>5 DEF RegisterCreate, Send
  <2> HIDE DEF e, row
  <2>2. /\ TableOK(users') /\ Grows(users, trace, users', trace')
        /\ \A a \in Emails : VerifiedIn(users', a) => VerifiedIn(users, a)
    BY <1>1, <1>2, <1>3, <1>5, <2>1, NewAccountGrows
  <2>3. BookType' /\ AboutOK' /\ trace' \in Trace
    BY <1>1, <1>3 DEF BookType, AboutOK
  <2>4. r \in Reqs /\ Placed(r, users', trace')
    BY <1>2, SendPlaced DEF Purposes
  <2> HIDE DEF r
  <2>5. \A a \in Emails : VerifiedIn(users', a) => a \in trace'.proved
    BY <1>1, <1>3, <2>2
  <2>6. QED
    BY <2>1, <2>2, <2>3, <2>4, <2>5, MoveKeepsInv
<1>6. QED
  BY <1>4, <1>5

\* The number of the next code is a natural number.
LEMMA NextCodeNat == NextCode \in Nat \ {0}
<1> DEFINE issued == {i \in 1..MaxCodes : book[i] # "unissued"}
<1>1. IsFiniteSet(1..MaxCodes)
  BY MaxCodesNat, FS_Interval
<1>2. IsFiniteSet(issued)
  BY <1>1, FS_Subset
<1>3. Cardinality(issued) \in Nat
  BY <1>2, FS_CardinalityType
<1>4. QED
  BY <1>3 DEF NextCode

\* A step that only works on codes and history keeps the invariant, when it puts the
\* handler in a good place and adds to the history at most a proof.
LEMMA CodeKeepsInv ==
  ASSUME AccountsInv, NEW w \in Workers, NEW r \in Reqs, Goto(w, r), UNCHANGED users,
         BookType', AboutOK', Placed(r, users, trace'),
         NEW add \in SUBSET Emails, trace' = [trace EXCEPT !.proved = @ \cup add]
  PROVE  AccountsInv'
<1>1. /\ TableOK(users) /\ trace \in Trace
      /\ \A a \in Emails : VerifiedIn(users, a) => a \in trace.proved
  BY Unfolded
<1>2. /\ trace' \in Trace /\ trace.proved \subseteq trace'.proved
      /\ trace'.unmarked = trace.unmarked /\ trace'.undone = trace.undone
  BY <1>1 DEF Trace
<1>3. Grows(users, trace, users', trace')
  BY <1>2 DEF Grows, Assured
<1>4. /\ TableOK(users') /\ Placed(r, users', trace')
      /\ \A a \in Emails : VerifiedIn(users', a) => a \in trace'.proved
  BY <1>1, <1>2
<1>5. QED
  BY <1>2, <1>3, <1>4, MoveKeepsInv

\* Sending a code issues one, or answers.
LEMMA SendCodeKeepsInv ==
  ASSUME AccountsInv, NEW w \in Workers, SendCode(w)
  PROVE  AccountsInv'
<1> DEFINE e == req[w].email
           purpose == req[w].purpose
<1>1. /\ BookType /\ AboutOK /\ trace \in Trace /\ req[w] \in Reqs
  BY Unfolded
<1>2. e \in Emails /\ purpose \in Purposes
  BY <1>1, WhichReq DEF SendCode, At, SendReq
<1>3. UNCHANGED <<users, trace>>
  BY DEF SendCode
<1>4. CASE Answer(w, e, "refused") /\ UNCHANGED <<book, about>>
  BY <1>2, <1>3, <1>4, AnswerKeepsInv
<1>5. CASE /\ NextCode <= MaxCodes
           /\ \E killed \in SUBSET CodesFor(e, purpose) : Issue(NextCode, killed)
           /\ about' = [about EXCEPT ![NextCode] = <<e, purpose>>]
           /\ \/ Goto(w, [pc |-> "mail", email |-> e])
              \/ Answer(w, e, "refused")
  <2>1. BookType'
    BY <1>1, <1>5 DEF BookType, Issue, CodeState
  <2>2. AboutOK'
    BY <1>1, <1>2, <1>5, NextCodeNat DEF AboutOK
  <2>3. {} \in SUBSET Emails /\ trace' = [trace EXCEPT !.proved = @ \cup {}]
    BY <1>1, <1>3 DEF Trace
  <2>4. CASE Answer(w, e, "refused")
    <3>1. /\ [pc |-> "idle", email |-> e, answer |-> "refused"] \in Reqs
          /\ Placed([pc |-> "idle", email |-> e, answer |-> "refused"], users, trace')
      BY <1>2, RefusedPlaced
    <3>2. QED
      BY <1>3, <2>1, <2>2, <2>3, <2>4, <3>1, CodeKeepsInv DEF Answer
  <2>5. CASE Goto(w, [pc |-> "mail", email |-> e])
    <3>1. /\ [pc |-> "mail", email |-> e] \in Reqs
          /\ Placed([pc |-> "mail", email |-> e], users, trace')
      BY <1>2 DEF Reqs, MailReq, Placed, Purposes
    <3>2. QED
      BY <1>3, <2>1, <2>2, <2>3, <2>5, <3>1, CodeKeepsInv
  <2>6. QED
    BY <1>5, <2>4, <2>5
<1>6. QED
  BY <1>4, <1>5 DEF SendCode

\* An accepted code proves the address, and the copy tells whether it was verified.
LEMMA VerifyCodeKeepsInv ==
  ASSUME AccountsInv, NEW w \in Workers, VerifyCode(w)
  PROVE  AccountsInv'
<1> DEFINE e == req[w].email
           row == req[w].row
<1>1. /\ BookType /\ AboutOK /\ trace \in Trace /\ req[w] \in Reqs
      /\ Placed(req[w], users, trace)
  BY Unfolded
<1>2. /\ e \in Emails /\ row \in UserRow /\ req[w].password \in Passwords \cup {NoPassword}
      /\ row.verified => Assured(users, trace, e)
      /\ e \in DOMAIN users
  BY <1>1, WhichReq DEF VerifyCode, CodeReq, Placed
<1>3. UNCHANGED <<users, about>> /\ AboutOK'
  BY <1>1 DEF VerifyCode, AboutOK
<1>4. CASE /\ RightCode(w) /\ Accept(req[w].code)
           /\ trace' = [trace EXCEPT !.proved = @ \cup {e}]
           /\ IF AfterCode(w) = "token"
              THEN Respond(w, e)
              ELSE Goto(w, [pc |-> AfterCode(w), email |-> e, row |-> row,
                            password |-> req[w].password])
  <2>1. BookType'
    BY <1>1, <1>4 DEF BookType, Accept, CodeState
  <2>2. /\ e \in trace'.proved
        /\ Assured(users, trace, e) => Assured(users, trace', e)
    BY <1>1, <1>4 DEF Trace, Assured
  <2>3. /\ AfterCode(w) = "token" => row.verified
        /\ AfterCode(w) = "mark" => ~row.verified
        /\ AfterCode(w) \in {"token", "mark", "reset"}
    BY DEF AfterCode
  <2>4. {e} \in SUBSET Emails
    BY <1>2
  <2>5. CASE AfterCode(w) = "token"
    <3>1. /\ [pc |-> "token", email |-> e] \in Reqs
          /\ Placed([pc |-> "token", email |-> e], users, trace')
      BY <1>2, <2>2, <2>3, <2>5, TokenPlaced
    <3>2. QED
      BY <1>3, <1>4, <2>1, <2>4, <2>5, <3>1, CodeKeepsInv DEF Respond
  <2>6. CASE AfterCode(w) # "token"
    <3> DEFINE r == [pc |-> AfterCode(w), email |-> e, row |-> row,
                     password |-> req[w].password]
    <3>1. r \in WriteReq
      BY <1>2, <2>3, <2>6 DEF WriteReq
    <3>2. r \in Reqs
      BY <3>1 DEF Reqs
    <3>3. Placed(r, users, trace')
      BY <1>2, <2>2, <2>3, <2>6 DEF Placed, Purposes
    <3>4. Goto(w, r)
      BY <1>4, <2>6
    <3> HIDE DEF r
    <3>5. QED
      BY <1>3, <1>4, <2>1, <2>4, <3>2, <3>3, <3>4, CodeKeepsInv
  <2>7. QED
    BY <2>5, <2>6
<1>5. CASE /\ (RightCode(w) /\ Waste(req[w].code)) \/ UNCHANGED book
           /\ Answer(w, e, "refused") /\ UNCHANGED trace
  <2>1. BookType'
    BY <1>1, <1>5 DEF BookType, Waste, CodeState
  <2>2. {} \in SUBSET Emails /\ trace' = [trace EXCEPT !.proved = @ \cup {}]
    BY <1>1, <1>5 DEF Trace
  <2>3. /\ [pc |-> "idle", email |-> e, answer |-> "refused"] \in Reqs
        /\ Placed([pc |-> "idle", email |-> e, answer |-> "refused"], users, trace')
    BY <1>2, RefusedPlaced
  <2>4. QED
    BY <1>3, <1>5, <2>1, <2>2, <2>3, CodeKeepsInv DEF Answer
<1>6. QED
  BY <1>4, <1>5 DEF VerifyCode

\* A step that leaves the verification of every account as it was, or adds that of
\* proved addresses, and puts a handler in a good place, keeps the invariant.
LEMMA RowKeepsInv ==
  ASSUME AccountsInv, NEW w \in Workers, NEW e \in Emails, e \in DOMAIN users,
         e \in trace.proved, NEW row \in UserRow, users[e].verified => row.verified,
         users' = [users EXCEPT ![e] = row], UNCHANGED <<book, about, trace>>,
         row.verified \/ Assured(users, trace, e), Respond(w, e)
  PROVE  AccountsInv'
<1> DEFINE r == [pc |-> "token", email |-> e]
<1>1. /\ BookType /\ TableOK(users) /\ AboutOK /\ trace \in Trace
      /\ \A a \in Emails : VerifiedIn(users, a) => a \in trace.proved
  BY Unfolded
<1>2. trace' = trace
  OBVIOUS
<1>3. DOMAIN users' = DOMAIN users /\ users'[e] = row
      /\ \A a \in DOMAIN users : a # e => users'[a] = users[a]
  OBVIOUS
<1>4. TableOK(users') /\ BookType' /\ AboutOK' /\ trace' \in Trace
  BY <1>1, <1>2, <1>3 DEF TableOK, BookType, AboutOK
<1>5. \A a \in Emails : VerifiedIn(users, a) => VerifiedIn(users', a)
  BY <1>3 DEF VerifiedIn
<1>6. \A a \in Emails : VerifiedIn(users', a) => a \in trace'.proved
  BY <1>1, <1>2, <1>3 DEF VerifiedIn
<1>7. Grows(users, trace, users', trace')
  BY <1>2, <1>3, <1>5 DEF Grows, Assured
<1>8. Assured(users', trace', e)
  BY <1>2, <1>3, <1>5 DEF Assured, VerifiedIn
<1>9. r \in Reqs /\ Placed(r, users', trace')
  BY <1>2, <1>8, TokenPlaced
<1> HIDE DEF r
<1>10. Goto(w, r)
  BY DEF Respond, r
<1>11. QED
  BY <1>4, <1>6, <1>7, <1>9, <1>10, MoveKeepsInv

\* Marking an account verified does so, or the history tells that it failed.
LEMMA MarkVerifiedKeepsInv ==
  ASSUME AccountsInv, NEW w \in Workers, MarkVerified(w)
  PROVE  AccountsInv'
<1> DEFINE e == req[w].email
<1>1. /\ BookType /\ TableOK(users) /\ AboutOK /\ trace \in Trace
      /\ \A a \in Emails : VerifiedIn(users, a) => a \in trace.proved
      /\ req[w] \in Reqs /\ Placed(req[w], users, trace)
  BY Unfolded
<1>2. /\ e \in Emails /\ e \in DOMAIN users /\ e \in trace.proved
      /\ UNCHANGED <<book, about>> /\ Respond(w, e)
  BY <1>1, WhichReq DEF MarkVerified, At, Placed
<1>3. users[e] \in UserRow
  BY <1>1, <1>2 DEF TableOK
<1> HIDE DEF e
<1>4. CASE users' = [users EXCEPT ![e].verified = TRUE] /\ UNCHANGED trace
  <2> DEFINE row == [users[e] EXCEPT !.verified = TRUE]
  <2>1. row \in UserRow /\ row.verified
    BY <1>3 DEF UserRow
  <2>2. users' = [users EXCEPT ![e] = row]
    BY <1>4
  <2> HIDE DEF row
  <2>3. QED
    BY <1>2, <1>4, <2>1, <2>2, RowKeepsInv
<1>5. CASE trace' = [trace EXCEPT !.unmarked = @ \cup {e}] /\ UNCHANGED users
  <2> DEFINE r == [pc |-> "token", email |-> e]
  <2>1. /\ trace' \in Trace /\ trace'.proved = trace.proved
        /\ trace'.unmarked = trace.unmarked \cup {e} /\ trace'.undone = trace.undone
    BY <1>1, <1>2, <1>5 DEF Trace
  <2>2. Grows(users, trace, users', trace') /\ Assured(users', trace', e)
    BY <1>5, <2>1 DEF Grows, Assured
  <2>3. r \in Reqs /\ Placed(r, users', trace')
    BY <1>2, <2>1, <2>2, TokenPlaced
  <2>4. TableOK(users') /\ BookType' /\ AboutOK'
    BY <1>1, <1>2, <1>5 DEF BookType, AboutOK
  <2>5. \A a \in Emails : VerifiedIn(users', a) => a \in trace'.proved
    BY <1>1, <1>5, <2>1
  <2>6. Goto(w, r)
    BY <1>2 DEF Respond
  <2> HIDE DEF r
  <2>7. QED
    BY <2>1, <2>2, <2>3, <2>4, <2>5, <2>6, MoveKeepsInv
<1>6. QED
  BY <1>4, <1>5 DEF MarkVerified, e

\* A reset verifies the account unless the copy said it was verified already.
LEMMA WritePasswordKeepsInv ==
  ASSUME AccountsInv, NEW w \in Workers, WritePassword(w)
  PROVE  AccountsInv'
<1> DEFINE e == req[w].email
           old == req[w].row
           row == [users[e] EXCEPT !.password = req[w].password,
                                   !.verified = @ \/ ~old.verified]
<1>1. /\ TableOK(users) /\ trace \in Trace
      /\ req[w] \in Reqs /\ Placed(req[w], users, trace)
  BY Unfolded
<1>2. /\ e \in Emails /\ e \in DOMAIN users /\ e \in trace.proved
      /\ req[w].password \in Passwords \cup {NoPassword} /\ old \in UserRow
      /\ old.verified => Assured(users, trace, e)
  BY <1>1, WhichReq DEF WritePassword, At, Placed, WriteReq
<1>3. users[e] \in UserRow
  BY <1>1, <1>2 DEF TableOK
<1>4. old.verified \in BOOLEAN
  BY <1>2 DEF UserRow
<1>5. row \in UserRow /\ row.verified = (users[e].verified \/ ~old.verified)
  BY <1>2, <1>3, <1>4 DEF UserRow
<1>6. users' = [users EXCEPT ![e] = row]
  BY DEF WritePassword, Reset
<1>7. Respond(w, e) /\ UNCHANGED <<book, about, trace>>
  BY DEF WritePassword
<1> HIDE DEF e, row, old
<1>8. users[e].verified => row.verified
  BY <1>5
<1>9. row.verified \/ Assured(users, trace, e)
  BY <1>2, <1>5
<1>10. QED
  BY <1>2, <1>5, <1>6, <1>7, <1>8, <1>9, RowKeepsInv

\* Promoting an account to administrator leaves its verification alone.
LEMMA PromoteAdminKeepsInv ==
  ASSUME AccountsInv, NEW w \in Workers, PromoteAdmin(w)
  PROVE  AccountsInv'
<1> DEFINE e == req[w].email
           row == [users[e] EXCEPT !.role = "admin"]
<1>1. /\ TableOK(users) /\ trace \in Trace
      /\ req[w] \in Reqs /\ Placed(req[w], users, trace)
  BY Unfolded
<1>2. /\ e \in Emails /\ e \in DOMAIN users /\ e \in trace.proved
      /\ Assured(users, trace, e)
      /\ UNCHANGED <<book, about, trace>> /\ Respond(w, e)
  BY <1>1, WhichReq DEF PromoteAdmin, At, Placed
<1>3. users[e] \in UserRow
  BY <1>1, <1>2 DEF TableOK
<1>4. CASE UNCHANGED users
  BY <1>2, <1>4, RespondKeepsInv
<1>5. CASE users' = [users EXCEPT ![e].role = "admin"]
  <2>1. row \in UserRow /\ row.verified = users[e].verified
    BY <1>3 DEF UserRow, Roles
  <2>2. users' = [users EXCEPT ![e] = row]
    BY <1>5
  <2> HIDE DEF e, row
  <2>3. QED
    BY <1>2, <2>1, <2>2, RowKeepsInv
<1>6. QED
  BY <1>4, <1>5 DEF PromoteAdmin

\* The token is handed out, or the answer is an error.
LEMMA RespondWithTokenKeepsInv ==
  ASSUME AccountsInv, NEW w \in Workers, RespondWithToken(w)
  PROVE  AccountsInv'
<1> DEFINE e == req[w].email
           r == [pc |-> "idle", email |-> e, answer |-> "token"]
<1>1. req[w] \in Reqs /\ Placed(req[w], users, trace)
  BY Unfolded
<1>2. /\ e \in Emails /\ e \in trace.proved /\ Assured(users, trace, e)
      /\ UNCHANGED <<book, users, about, trace>>
  BY <1>1, WhichReq DEF RespondWithToken, At, Placed
<1>3. CASE Answer(w, e, "refused")
  BY <1>2, <1>3, AnswerKeepsInv
<1>4. CASE Answer(w, e, "token")
  <2>1. Goto(w, r)
    BY <1>4 DEF Answer
  <2> HIDE DEF e
  <2>2. r \in Reqs /\ Placed(r, users, trace)
    BY <1>2 DEF Reqs, IdleReq, Answers, Placed, Purposes
  <2> HIDE DEF r
  <2>3. QED
    BY <1>2, <2>1, <2>2, QuietMove
<1>5. QED
  BY <1>3, <1>4 DEF RespondWithToken

\* Mailing a code, or giving up anywhere, only answers.
LEMMA EndKeepsInv ==
  ASSUME AccountsInv, NEW w \in Workers,
         MailCode(w) \/ Fail(w) \/ \E e \in Emails : ReadFails(w, e)
  PROVE  AccountsInv'
<1>1. req[w].email \in Emails
  BY Unfolded, WhichReq
<1>2. UNCHANGED <<book, users, about, trace>>
  BY DEF MailCode, Fail, ReadFails, Starts
<1>3. \E e \in Emails : Answer(w, e, "sent") \/ Answer(w, e, "refused")
  BY <1>1 DEF MailCode, Fail, ReadFails
<1>4. QED
  BY <1>2, <1>3, AnswerKeepsInv

\* The commands only add accounts, or verify one and count that as a proof.
LEMMA CommandKeepsInv ==
  ASSUME AccountsInv, Command
  PROVE  AccountsInv'
<1>1. /\ BookType /\ TableOK(users) /\ AboutOK /\ trace \in Trace
      /\ \A a \in Emails : VerifiedIn(users, a) => a \in trace.proved
      /\ req \in [Workers -> Reqs]
      /\ \A w \in Workers : req[w] \in Reqs /\ Placed(req[w], users, trace)
  BY Unfolded
<1>2. UNCHANGED <<book, about, req>>
  BY DEF Command, CreateUser, ImportUser
<1>3. ASSUME TableOK(users'), trace' \in Trace, Grows(users, trace, users', trace'),
             \A a \in Emails : VerifiedIn(users', a) => a \in trace'.proved
      PROVE  AccountsInv'
  <2>1. AccountsTypeOK'
    BY <1>1, <1>2, <1>3 DEF AccountsTypeOK, TableOK, AboutOK, Reqs, BookType
  <2>2. \A w \in Workers : Placed(req'[w], users', trace')
    BY <1>1, <1>2, <1>3, StaysPlaced
  <2>3. QED
    BY <1>3, <2>1, <2>2 DEF AccountsInv
<1>4. ASSUME NEW e \in Emails, NEW p \in Passwords, NEW role \in Roles,
             CreateUser(e, p, role)
      PROVE  AccountsInv'
  <2> DEFINE row == [verified |-> TRUE, password |-> p, role |-> role]
  <2>1. row \in UserRow /\ row.verified
    BY DEF UserRow
  <2>2. users' = Put(e, row) /\ trace' = [trace EXCEPT !.proved = @ \cup {e}]
    BY <1>4 DEF CreateUser
  <2> HIDE DEF row
  <2>3. /\ trace' \in Trace /\ trace'.proved = trace.proved \cup {e}
        /\ trace'.unmarked = trace.unmarked /\ trace'.undone = trace.undone
    BY <1>1, <2>2 DEF Trace
  <2>4. DOMAIN Put(e, row) = DOMAIN users \cup {e} /\ TableOK(Put(e, row))
    BY <1>1, <2>1, PutRow
  <2>5. \A a \in Emails : VerifiedIn(users', a) => a = e \/ VerifiedIn(users, a)
    BY <1>1, <2>1, <2>2, PutVerified
  <2>6. \A a \in Emails : VerifiedIn(users, a) => VerifiedIn(users', a)
    BY <1>1, <2>1, <2>2, PutVerified
  <2>7. Grows(users, trace, users', trace')
    BY <2>2, <2>3, <2>4, <2>6 DEF Grows, Assured
  <2>8. \A a \in Emails : VerifiedIn(users', a) => a \in trace'.proved
    BY <1>1, <2>3, <2>5
  <2>9. QED
    BY <1>3, <2>2, <2>3, <2>4, <2>7, <2>8
<1>5. ASSUME NEW e \in Emails, NEW role \in Roles, ImportUser(e, role)
      PROVE  AccountsInv'
  <2> DEFINE row == [verified |-> FALSE, password |-> NoPassword,
                     role |-> IF e \in AdminEmails THEN "admin" ELSE role]
  <2>1. row \in UserRow /\ ~row.verified
    BY DEF UserRow, Roles
  <2>2. ~Known(e) /\ users' = Put(e, row) /\ trace' = trace
    BY <1>5 DEF ImportUser
  <2> HIDE DEF row
  <2>3. /\ TableOK(users') /\ Grows(users, trace, users', trace')
        /\ \A a \in Emails : VerifiedIn(users', a) => VerifiedIn(users, a)
    BY <1>1, <2>1, <2>2, NewAccountGrows
  <2>4. QED
    BY <1>1, <1>3, <2>2, <2>3
<1>6. QED
  BY <1>4, <1>5 DEF Command

\* No account, no code, and nobody signed in.
LEMMA InitInv == AccountsInit => AccountsInv
<1> SUFFICES ASSUME AccountsInit PROVE AccountsInv
  OBVIOUS
<1>1. BookType
  BY DEF AccountsInit, BookInit, BookType, CodeState
<1>2. DOMAIN users = {}
  BY DEF AccountsInit
<1>3. about \in [1..MaxCodes -> (Emails \X Purposes) \cup {<<>>}]
  BY DEF AccountsInit
<1>4. req \in [Workers -> IdleReq]
  BY DEF AccountsInit, IdleReq, Answers
<1>5. trace \in Trace
  BY DEF AccountsInit, Trace
<1>6. AccountsTypeOK
  BY <1>1, <1>2, <1>3, <1>4, <1>5 DEF AccountsTypeOK
<1>7. \A w \in Workers : req[w].pc = "idle" /\ req[w].answer = "none"
  BY DEF AccountsInit
<1>8. \A w \in Workers : Placed(req[w], users, trace)
  BY <1>7 DEF Placed, Purposes
<1>9. QED
  BY <1>2, <1>6, <1>8 DEF AccountsInv, VerifiedIn

\* Every step keeps the invariant.
LEMMA NextKeepsInv == AccountsInv /\ [AccountsNext]_accountVars => AccountsInv'
<1> SUFFICES ASSUME AccountsInv, [AccountsNext]_accountVars PROVE AccountsInv'
  OBVIOUS
<1>1. CASE UNCHANGED accountVars
  BY <1>1 DEF accountVars, AccountsInv, AccountsTypeOK, BookType
<1>2. ASSUME NEW w \in Workers, Request(w) PROVE AccountsInv'
  BY <1>2, RegisterKeepsInv, LoginKeepsInv, PresentKeepsInv, ResendKeepsInv, EndKeepsInv
  DEF Request
<1>3. ASSUME NEW w \in Workers, Step(w) PROVE AccountsInv'
  BY <1>3, RegisterSaveKeepsInv, RegisterCreateKeepsInv, SendCodeKeepsInv, EndKeepsInv,
     VerifyCodeKeepsInv, MarkVerifiedKeepsInv, WritePasswordKeepsInv, PromoteAdminKeepsInv,
     RespondWithTokenKeepsInv
  DEF Step
<1>4. ASSUME NEW w \in Workers, Fail(w) PROVE AccountsInv'
  BY <1>4, EndKeepsInv
<1>5. CASE Command
  BY <1>5, CommandKeepsInv
<1>6. QED
  BY <1>1, <1>2, <1>3, <1>4, <1>5 DEF AccountsNext

\* The inductive invariant holds throughout.
LEMMA AccountsInvAlways == AccountsSpec => []AccountsInv
BY InitInv, NextKeepsInv, PTL DEF AccountsSpec

\* Accounts, codes and the locals of every handler stay well formed.
THEOREM AccountsTyped == AccountsSpec => []AccountsTypeOK
<1>1. AccountsInv => AccountsTypeOK
  BY DEF AccountsInv
<1>2. QED
  BY <1>1, AccountsInvAlways, PTL

\* Nobody is verified or signed in whose address was not proved, whatever requests
\* overlap (handlers.go:155-235, 273-311, 336-375).
THEOREM ProofFirst == AccountsSpec => []ProofBeforeAccess
<1>1. AccountsInv => ProofBeforeAccess
  <2> SUFFICES ASSUME AccountsInv, NEW e \in Emails, Verified(e) \/ SignedIn(e)
               PROVE  e \in trace.proved
    BY DEF ProofBeforeAccess
  <2>1. CASE Verified(e)
    BY <2>1, Unfolded DEF Verified, Known, VerifiedIn
  <2>2. CASE SignedIn(e)
    BY <2>2, Unfolded DEF SignedIn, At, Placed
  <2>3. QED
    BY <2>1, <2>2
<1>2. QED
  BY <1>1, AccountsInvAlways, PTL

\* A token is good for a verified account, but for the two known ways of losing the
\* verification (handlers.go:229-234, 362-374).
THEOREM TokensGood == AccountsSpec => []TokenMeansVerified
<1>1. AccountsInv => TokenMeansVerified
  <2> SUFFICES ASSUME AccountsInv, NEW e \in Emails, SignedIn(e)
               PROVE  Verified(e) \/ e \in trace.unmarked \cup trace.undone
    BY DEF TokenMeansVerified
  <2>1. Assured(users, trace, e)
    BY Unfolded DEF SignedIn, At, Placed
  <2>2. QED
    BY <2>1 DEF Assured, VerifiedIn, Verified, Known
<1>2. QED
  BY <1>1, AccountsInvAlways, PTL

\* The verification and the password of e are what they were.
Kept(us, us2, e) ==
  us2[e].verified = us[e].verified /\ us2[e].password = us[e].password

\* A reset or a late sign-up of e, which moves the worker whose handler it is.
OwnStep(w, e) ==
  /\ At(w, "reset") \/ (At(w, "save") /\ ~req[w].row.verified)
  /\ req[w].email = e /\ req[w].pc # req'[w].pc

\* A step of a handler leaves a verified account as it is, or is a reset or a late
\* sign-up of that address.
LEMMA StepKeeps ==
  ASSUME AccountsInv, NEW w \in Workers, Step(w), NEW e \in Emails, Verified(e)
  PROVE  Kept(users, users', e) \/ OwnStep(w, e)
<1>1. /\ TableOK(users) /\ req \in [Workers -> Reqs]
      /\ req[w] \in Reqs /\ Placed(req[w], users, trace)
  BY Unfolded
<1>2. e \in DOMAIN users /\ users[e] \in UserRow
  BY KnownRow DEF Verified, Known
<1>3. CASE UNCHANGED users
  BY <1>3 DEF Kept
<1>4. CASE RegisterSave(w)
  <2>1. req[w].row \in UserRow /\ ~req[w].row.verified /\ req[w].email \in Emails
    BY <1>1, <1>4, WhichReq DEF RegisterSave, At, SignUpReq, Placed
  <2>2. req'[w].pc = "send"
    BY <1>1, <1>4 DEF RegisterSave, Send, Goto
  <2>3. CASE req[w].email = e
    BY <1>4, <2>1, <2>2, <2>3 DEF RegisterSave, OwnStep, At
  <2>4. CASE req[w].email # e
    <3>1. users' = Put(req[w].email, req[w].row)
      BY <1>4 DEF RegisterSave
    <3>2. users'[e] = users[e]
      BY <1>1, <1>2, <2>1, <2>4, <3>1, PutRow
    <3>3. QED
      BY <3>2 DEF Kept
  <2>5. QED
    BY <2>3, <2>4
<1>5. CASE RegisterCreate(w)
  <2>1. CASE Known(req[w].email)
    BY <1>3, <1>5, <2>1 DEF RegisterCreate
  <2>2. CASE ~Known(req[w].email)
    <3>1. /\ req[w].row \in UserRow /\ req[w].email \in Emails
          /\ users' = Put(req[w].email, req[w].row) /\ req[w].email # e
      BY <1>1, <1>2, <1>5, <2>2, WhichReq DEF RegisterCreate, At, SignUpReq, Known
    <3>2. users'[e] = users[e]
      BY <1>1, <1>2, <3>1, PutRow
    <3>3. QED
      BY <3>2 DEF Kept
  <2>3. QED
    BY <2>1, <2>2
<1>6. CASE MarkVerified(w)
  <2>1. users[e].verified = TRUE
    BY <1>2 DEF Verified, UserRow
  <2>2. CASE users' = [users EXCEPT ![req[w].email].verified = TRUE]
    <3>1. CASE req[w].email = e
      BY <1>2, <2>1, <2>2, <3>1 DEF Kept, UserRow
    <3>2. CASE req[w].email # e
      BY <1>2, <2>2, <3>2 DEF Kept
    <3>3. QED
      BY <3>1, <3>2
  <2>3. QED
    BY <1>3, <1>6, <2>2 DEF MarkVerified
<1>7. CASE WritePassword(w)
  <2>1. req'[w].pc = "token" /\ req[w].pc = "reset"
    BY <1>1, <1>7 DEF WritePassword, Respond, Goto, At
  <2>2. CASE req[w].email = e
    BY <2>1, <2>2 DEF OwnStep, At
  <2>3. CASE req[w].email # e
    BY <1>2, <1>7, <2>3 DEF WritePassword, Reset, Kept
  <2>4. QED
    BY <2>2, <2>3
<1>8. CASE PromoteAdmin(w)
  <2>1. CASE users' = [users EXCEPT ![req[w].email].role = "admin"]
    <3>1. CASE req[w].email = e
      BY <1>2, <2>1, <3>1 DEF Kept, UserRow
    <3>2. CASE req[w].email # e
      BY <1>2, <2>1, <3>2 DEF Kept
    <3>3. QED
      BY <3>1, <3>2
  <2>2. QED
    BY <1>3, <1>8, <2>1 DEF PromoteAdmin
<1>9. CASE SendCode(w) \/ MailCode(w) \/ VerifyCode(w) \/ RespondWithToken(w)
  BY <1>3, <1>9 DEF SendCode, MailCode, VerifyCode, RespondWithToken
<1>10. QED
  BY <1>4, <1>5, <1>6, <1>7, <1>8, <1>9 DEF Step

\* The account of a verified address is changed by nothing but a reset for it, the
\* command, or a sign-up that had read it before (handlers.go:167-181, 229-234, 358-375).
THEOREM ChangedByProof == AccountsSpec => VerifiedChangeOnlyByProof
<1> DEFINE A == \A e \in Emails :
                  Verified(e) =>
                    \/ <<users'[e].verified, users'[e].password>>
                         = <<TRUE, users[e].password>>
                    \/ UNCHANGED req
                    \/ \E w \in Workers :
                         /\ At(w, "reset") \/ (At(w, "save") /\ ~req[w].row.verified)
                         /\ req[w].email = e /\ req[w].pc # req'[w].pc
<1>1. ASSUME AccountsInv, AccountsNext, NEW e \in Emails, Verified(e)
      PROVE  \/ Kept(users, users', e) \/ UNCHANGED req
             \/ \E w \in Workers : OwnStep(w, e)
  <2>1. CASE Command
    BY <2>1 DEF Command, CreateUser, ImportUser
  <2>2. ASSUME NEW w \in Workers, Request(w) \/ Fail(w) PROVE Kept(users, users', e)
    <3>1. UNCHANGED users
      BY <2>2 DEF Request, Register, Login, ResetPassword, VerifyEmail, ResendCode,
                  ForgotPassword, ReadFails, Starts, Fail
    <3>2. QED
      BY <3>1 DEF Kept
  <2>3. ASSUME NEW w \in Workers, Step(w) PROVE Kept(users, users', e) \/ OwnStep(w, e)
    BY <1>1, <2>3, StepKeeps
  <2>4. QED
    BY <1>1, <2>1, <2>2, <2>3 DEF AccountsNext
<1>2. ASSUME AccountsInv, NEW e \in Emails, Verified(e) PROVE users[e].verified = TRUE
  BY <1>2, KnownRow DEF Verified, UserRow
<1>3. AccountsInv /\ [AccountsNext]_accountVars => [A]_accountVars
  <2> SUFFICES ASSUME AccountsInv, AccountsNext, NEW e \in Emails, Verified(e)
               PROVE  \/ <<users'[e].verified, users'[e].password>>
                           = <<TRUE, users[e].password>>
                      \/ UNCHANGED req
                      \/ \E w \in Workers :
                           /\ At(w, "reset") \/ (At(w, "save") /\ ~req[w].row.verified)
                           /\ req[w].email = e /\ req[w].pc # req'[w].pc
    OBVIOUS
  <2>1. users[e].verified = TRUE
    BY <1>2
  <2>2. QED
    BY <1>1, <2>1 DEF Kept, OwnStep
<1>4. QED
  BY <1>3, AccountsInvAlways, PTL DEF AccountsSpec, VerifiedChangeOnlyByProof
=============================================================================
