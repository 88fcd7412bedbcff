------------------------------ MODULE Accounts ------------------------------
(***************************************************************************)
(* The accounts of internal/accounts/handlers.go, with the two commands    *)
(* that also write the table users (cmd/create-user and                    *)
(* cmd/import-nimto-users).                                                *)
(*                                                                         *)
(* The one-time codes are those of CodeBook, which Otp implements: to a    *)
(* handler, issue and verify are one step of the book each, in between     *)
(* handler steps of other requests.  A step is one statement on users, one *)
(* call of the code store or one e-mail; requests overlap.                 *)
(***************************************************************************)
EXTENDS CodeBook, FiniteSets

CONSTANTS
  Workers,      \* the goroutines serving requests
  Emails,       \* addresses, after normalizeEmail
  AdminEmails,  \* ADMIN_EMAILS
  Passwords,    \* a hash is identified with its password
  NoPassword    \* the empty hash of an imported account

ASSUME AccountsWorkersFinite == IsFiniteSet(Workers) /\ Workers # {}
ASSUME AdminEmailsAreEmails == AdminEmails \subseteq Emails
ASSUME NoPasswordIsNone == NoPassword \notin Passwords

VARIABLES
  users,   \* the table, by its unique e-mail: a function whose domain is the accounts
  about,   \* about[i]: address and purpose of code i
  req,     \* req[w]: where worker w's handler is, and its locals
  trace    \* history, never read by the program

accountVars == <<book, users, about, req, trace>>

Purposes == {"verify_email", "reset_password"}
Roles == {"admin", "user"}
Answers == {"none", "token", "sent", "refused"}

UserRow == [verified : BOOLEAN, password : Passwords \cup {NoPassword}, role : Roles]

\* Every place of a handler but idle keeps the address; row is the copy it read.
IdleReq   == [pc : {"idle"}, email : Emails, answer : Answers]
SignUpReq == [pc : {"save", "create"}, email : Emails, row : UserRow]
SendReq   == [pc : {"send"}, email : Emails, purpose : Purposes]
MailReq   == [pc : {"mail"}, email : Emails]
CodeReq   == [pc : {"verify_email", "reset_password"}, email : Emails, row : UserRow,
              code : Nat, password : Passwords \cup {NoPassword}]
WriteReq  == [pc : {"mark", "reset"}, email : Emails, row : UserRow,
              password : Passwords \cup {NoPassword}]
TokenReq  == [pc : {"promote", "token"}, email : Emails]

\* proved: addresses someone proved to hold, by an accepted code or at the command line;
\* unmarked: addresses whose verification could not be stored, which was ignored;
\* undone: addresses whose verification a sign-up wrote over.
Trace == [proved : SUBSET Emails, unmarked : SUBSET Emails, undone : SUBSET Emails]

-----------------------------------------------------------------------------

Known(e) == e \in DOMAIN users

Put(e, row) == [a \in DOMAIN users \cup {e} |-> IF a = e THEN row ELSE users[a]]

Verified(e) == Known(e) /\ users[e].verified

\* Mutant of RoleFor: the role is written as TheNimto writes it.
RoleFor_Nimto(e) == IF e \in AdminEmails THEN "1" ELSE "user"

RoleFor(e) == IF e \in AdminEmails THEN "admin" ELSE "user"

Goto(w, r) == req' = [req EXCEPT ![w] = r]

Answer(w, e, a) == Goto(w, [pc |-> "idle", email |-> e, answer |-> a])

Send(w, e, purpose) == Goto(w, [pc |-> "send", email |-> e, purpose |-> purpose])

Respond(w, e) == Goto(w, [pc |-> "token", email |-> e])

\* The request is new, and reads its account first.
Starts(w) ==
  /\ req[w].pc = "idle"
  /\ UNCHANGED <<book, users, about, trace>>

At(w, pc) == req[w].pc = pc

-----------------------------------------------------------------------------
(* Signing up *)

\* Mutant of SignUpRefused: signing up is refused only for accounts that have a password.
SignUpRefused_NoPassword(row) == row.password # NoPassword

SignUpRefused(row) == row.verified

\* Register: an unverified account gets the new details, an unknown address an account.
Register(w, e, password) ==
  /\ Starts(w)
  /\ \/ Known(e) /\ SignUpRefused(users[e]) /\ Answer(w, e, "refused")
     \/ /\ Known(e)
        /\ ~SignUpRefused(users[e])
        /\ Goto(w, [pc |-> "save", email |-> e,
                    row |-> [users[e] EXCEPT !.password = password]])
     \/ /\ ~Known(e)
        /\ Goto(w, [pc |-> "create", email |-> e,
                    row |-> [verified |-> FALSE, password |-> password,
                             role |-> RoleFor(e)]])

\* Save writes every column of the copy, email_verified_at too.
RegisterSave(w) ==
  /\ At(w, "save")
  /\ LET e == req[w].email IN
       /\ users' = Put(e, req[w].row)
       /\ trace' = IF Verified(e) /\ ~req[w].row.verified
                   THEN [trace EXCEPT !.undone = @ \cup {e}] ELSE trace
       /\ Send(w, e, "verify_email")
  /\ UNCHANGED <<book, about>>

\* The e-mail is unique: an account created meanwhile makes this one fail.
RegisterCreate(w) ==
  /\ At(w, "create")
  /\ IF Known(req[w].email)
     THEN UNCHANGED users /\ Answer(w, req[w].email, "refused")
     ELSE users' = Put(req[w].email, req[w].row) /\ Send(w, req[w].email, "verify_email")
  /\ UNCHANGED <<book, about, trace>>

-----------------------------------------------------------------------------
(* Sending a code *)

NextCode == Cardinality({i \in 1..MaxCodes : book[i] # "unissued"}) + 1

CodesFor(e, purpose) == {i \in LiveCodes : about[i] = <<e, purpose>>}

\* otpStore.issue, as the code book has it; its error may still have issued the code.
SendCode(w) ==
  /\ At(w, "send")
  /\ LET e == req[w].email
         purpose == req[w].purpose IN
       \/ /\ NextCode <= MaxCodes
          /\ \E killed \in SUBSET CodesFor(e, purpose) : Issue(NextCode, killed)
          /\ about' = [about EXCEPT ![NextCode] = <<e, purpose>>]
          /\ \/ Goto(w, [pc |-> "mail", email |-> e])
             \/ Answer(w, e, "refused")
       \/ /\ Answer(w, e, "refused")
          /\ UNCHANGED <<book, about>>
  /\ UNCHANGED <<users, trace>>

MailCode(w) ==
  /\ At(w, "mail")
  /\ \/ Answer(w, req[w].email, "sent")
     \/ Answer(w, req[w].email, "refused")
  /\ UNCHANGED <<book, users, about, trace>>

\* Unknown addresses get the answer of known ones.
ResendCode(w, e, purpose) ==
  /\ Starts(w)
  /\ IF Known(e) /\ ~(purpose = "verify_email" /\ users[e].verified)
     THEN Send(w, e, purpose)
     ELSE Answer(w, e, "sent")

ForgotPassword(w, e) ==
  /\ Starts(w)
  /\ IF Known(e) THEN Send(w, e, "reset_password") ELSE Answer(w, e, "sent")

-----------------------------------------------------------------------------
(* Presenting a code *)

\* VerifyEmail and ResetPassword read the account, then ask the code store.
VerifyEmail(w, e, code) ==
  /\ Starts(w)
  /\ IF Known(e)
     THEN Goto(w, [pc |-> "verify_email", email |-> e, row |-> users[e], code |-> code,
                   password |-> NoPassword])
     ELSE Answer(w, e, "refused")

ResetPassword(w, e, code, password) ==
  /\ Starts(w)
  /\ IF Known(e)
     THEN Goto(w, [pc |-> "reset_password", email |-> e, row |-> users[e], code |-> code,
                   password |-> password])
     ELSE Answer(w, e, "refused")

RightCode(w) == req[w].code \in CodesFor(req[w].email, req[w].pc)

\* Only an account that was not verified when it was read is marked.
AfterCode(w) ==
  IF req[w].pc = "reset_password" THEN "reset"
  ELSE IF req[w].row.verified THEN "token" ELSE "mark"

\* otpStore.verify: the right code may be refused too, when it expired or was locked out,
\* or be spent in vain.
VerifyCode(w) ==
  /\ req[w].pc \in Purposes
  /\ LET e == req[w].email IN
       \/ /\ RightCode(w)
          /\ Accept(req[w].code)
          /\ trace' = [trace EXCEPT !.proved = @ \cup {e}]
          /\ IF AfterCode(w) = "token"
             THEN Respond(w, e)
             ELSE Goto(w, [pc |-> AfterCode(w), email |-> e, row |-> req[w].row,
                           password |-> req[w].password])
       \/ /\ \/ RightCode(w) /\ Waste(req[w].code)
             \/ UNCHANGED book
          /\ Answer(w, e, "refused")
          /\ UNCHANGED trace
  /\ UNCHANGED <<users, about>>

\* The error of the UPDATE is not looked at: the token is handed out either way.
MarkVerified(w) ==
  /\ At(w, "mark")
  /\ LET e == req[w].email IN
       /\ \/ /\ users' = [users EXCEPT ![e].verified = TRUE]
             /\ UNCHANGED trace
          \/ /\ trace' = [trace EXCEPT !.unmarked = @ \cup {e}]
             /\ UNCHANGED users
       /\ Respond(w, e)
  /\ UNCHANGED <<book, about>>

\* Mutant of Reset: a reset leaves the verification as it is.
Reset_PasswordOnly(w) == [users EXCEPT ![req[w].email].password = req[w].password]

\* The new password, and the verification if the copy had none.
Reset(w) ==
  [users EXCEPT ![req[w].email].password = req[w].password,
                ![req[w].email].verified = @ \/ ~req[w].row.verified]

WritePassword(w) ==
  /\ At(w, "reset")
  /\ users' = Reset(w)
  /\ Respond(w, req[w].email)
  /\ UNCHANGED <<book, about, trace>>

-----------------------------------------------------------------------------
(* Signing in *)

\* Mutant of MaySignIn: an account that set a password may sign in.
MaySignIn_Unverified(row) == row.password # NoPassword

MaySignIn(row) == row.verified

Login(w, e, password) ==
  /\ Starts(w)
  /\ IF Known(e) /\ users[e].password = password
     THEN IF MaySignIn(users[e])
          THEN IF RoleFor(e) = "admin" /\ users[e].role # "admin"
               THEN Goto(w, [pc |-> "promote", email |-> e])
               ELSE Respond(w, e)
          ELSE Send(w, e, "verify_email")
     ELSE Answer(w, e, "refused")

\* Its error is not looked at either.
PromoteAdmin(w) ==
  /\ At(w, "promote")
  /\ \/ users' = [users EXCEPT ![req[w].email].role = "admin"]
     \/ UNCHANGED users
  /\ Respond(w, req[w].email)
  /\ UNCHANGED <<book, about, trace>>

\* respondWithToken
RespondWithToken(w) ==
  /\ At(w, "token")
  /\ \/ Answer(w, req[w].email, "token")
     \/ Answer(w, req[w].email, "refused")
  /\ UNCHANGED <<book, users, about, trace>>

-----------------------------------------------------------------------------
(* The commands, which are other processes *)

\* cmd/create-user: an account is updated, or created; one transaction.
CreateUser(e, password, role) ==
  /\ users' = Put(e, [verified |-> TRUE, password |-> password, role |-> role])
  /\ trace' = [trace EXCEPT !.proved = @ \cup {e}]
  /\ UNCHANGED <<book, about, req>>

\* cmd/import-nimto-users: addresses that have an account are skipped.
ImportUser(e, role) ==
  /\ ~Known(e)
  /\ users' = Put(e, [verified |-> FALSE, password |-> NoPassword,
                      role |-> IF e \in AdminEmails THEN "admin" ELSE role])
  /\ UNCHANGED <<book, about, req, trace>>

-----------------------------------------------------------------------------

\* The first read fails: answered as if there were no account, or with an error.
ReadFails(w, e) ==
  /\ Starts(w)
  /\ Answer(w, e, "sent") \/ Answer(w, e, "refused")

\* A statement fails and the request is answered with an error, or the process dies.
Fail(w) ==
  /\ ~At(w, "idle")
  /\ Answer(w, req[w].email, "refused")
  /\ UNCHANGED <<book, users, about, trace>>

AccountsInit ==
  /\ BookInit
  /\ users = [e \in {} |-> e]
  /\ about \in [1..MaxCodes -> {<<>>}]
  /\ req \in [Workers -> [pc : {"idle"}, email : Emails, answer : {"none"}]]
  /\ trace = [proved |-> {}, unmarked |-> {}, undone |-> {}]

Request(w) ==
  \E e \in Emails :
    \/ \E password \in Passwords :
         \/ Register(w, e, password)
         \/ Login(w, e, password)
         \/ \E code \in 0..MaxCodes : ResetPassword(w, e, code, password)
    \/ \E code \in 0..MaxCodes : VerifyEmail(w, e, code)
    \/ \E purpose \in Purposes : ResendCode(w, e, purpose)
    \/ ForgotPassword(w, e)
    \/ ReadFails(w, e)

Step(w) ==
  \/ RegisterSave(w) \/ RegisterCreate(w) \/ SendCode(w) \/ MailCode(w) \/ VerifyCode(w)
  \/ MarkVerified(w) \/ WritePassword(w) \/ PromoteAdmin(w) \/ RespondWithToken(w)

Command ==
  \E e \in Emails, role \in Roles :
    \/ \E password \in Passwords : CreateUser(e, password, role)
    \/ ImportUser(e, role)

AccountsNext ==
  \/ \E w \in Workers : Request(w) \/ Step(w) \/ Fail(w)
  \/ Command

AccountsSpec == AccountsInit /\ [][AccountsNext]_accountVars

-----------------------------------------------------------------------------
(* Properties *)

\* Accounts, codes and the locals of every handler are well formed.
AccountsTypeOK ==
  /\ BookType
  /\ DOMAIN users \subseteq Emails /\ \A e \in DOMAIN users : users[e] \in UserRow
  /\ about \in [1..MaxCodes -> (Emails \X Purposes) \cup {<<>>}]
  /\ req \in [Workers -> IdleReq \cup SignUpReq \cup SendReq \cup MailReq \cup CodeReq
                         \cup WriteReq \cup TokenReq]
  /\ trace \in Trace

\* req[w] answered a request with a token.
SignedIn(e) == \E w \in Workers : At(w, "idle") /\ req[w].answer = "token" /\ req[w].email = e

\* An account is verified, and anyone signed in to it, only after its address was proved:
\* stale copies, failed statements and racing sign-ups never verify one
\* (handlers.go:155-235, 273-311, 336-375).
ProofBeforeAccess ==
  \A e \in Emails : Verified(e) \/ SignedIn(e) => e \in trace.proved

\* A token is good for an account that is verified, as the middleware asks again on every
\* request, unless the UPDATE whose error is ignored failed or a sign-up that had read the
\* account earlier wrote over it (handlers.go:229-234, 362-374, middleware.go:76-84).
TokenMeansVerified ==
  \A e \in Emails :
    SignedIn(e) => Verified(e) \/ e \in trace.unmarked \cup trace.undone

\* The password and the verification of a verified account change only in a reset for its
\* address, in the command create-user, or in a sign-up that read the account before it was
\* verified: no other overlap gets at them (handlers.go:167-181, 229-234, 358-375).
VerifiedChangeOnlyByProof ==
  [][\A e \in Emails :
       Verified(e) =>
         \/ <<users'[e].verified, users'[e].password>> = <<TRUE, users[e].password>>
         \/ UNCHANGED req
         \/ \E w \in Workers : /\ At(w, "reset") \/ (At(w, "save") /\ ~req[w].row.verified)
                               /\ req[w].email = e /\ req[w].pc # req'[w].pc]_accountVars

\* handlers_test.go:149: "Signing up again with a verified email is refused".
VerificationKept == trace.undone = {}
=============================================================================
