------------------------------ MODULE CodeBook ------------------------------
(***************************************************************************)
(* What the one-time-code store promises, with the database, the           *)
(* transactions and the racing requests taken away: a code comes into      *)
(* being live, and from there it is either accepted once or it dies.       *)
(* Issuing a code may kill any live ones.  Otp is shown to implement this. *)
(***************************************************************************)
EXTENDS Naturals

CONSTANT MaxCodes

ASSUME MaxCodesNat == MaxCodes \in Nat

VARIABLE book

CodeState == {"unissued", "live", "accepted", "dead"}

BookType == book \in [1..MaxCodes -> CodeState]

BookInit == book = [i \in 1..MaxCodes |-> "unissued"]

LiveCodes == {i \in 1..MaxCodes : book[i] = "live"}

\* A new code appears, and the older live ones in killed die in the same step.
Issue(i, killed) ==
  /\ book[i] = "unissued"
  /\ book' = [j \in 1..MaxCodes |->
                IF j = i THEN "live" ELSE IF j \in killed THEN "dead" ELSE book[j]]

\* The holder of a live code presents it: this can happen once.
Accept(i) ==
  /\ book[i] = "live"
  /\ book' = [book EXCEPT ![i] = "accepted"]

\* A live code is spent without anyone being told that it was right.
Waste(i) ==
  /\ book[i] = "live"
  /\ book' = [book EXCEPT ![i] = "dead"]

BookNext ==
  \E i \in 1..MaxCodes :
    \/ \E killed \in SUBSET LiveCodes : Issue(i, killed)
    \/ Accept(i)
    \/ Waste(i)

BookSpec == BookInit /\ [][BookNext]_book
=============================================================================
