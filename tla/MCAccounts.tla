----------------------------- MODULE MCAccounts -----------------------------
(***************************************************************************)
(* Instances of Accounts for TLC.                                          *)
(***************************************************************************)
EXTENDS Accounts, TLC

CONSTANTS w1, w2, alice, bob, pw1, pw2

AccountsWorkerSymmetry == Permutations(Workers)

\* No command is run.
RequestsSpec ==
  AccountsInit /\ [][\E w \in Workers : Request(w) \/ Step(w) \/ Fail(w)]_accountVars
=============================================================================
