\* Two requests at a time for one address, next to the commands.
SPECIFICATION AccountsSpec
CONSTANTS
  w1 = w1
  w2 = w2
  alice = alice
  bob = bob
  pw1 = pw1
  pw2 = pw2
  Workers = {w1, w2}
  Emails = {alice}
  AdminEmails = {alice}
  Passwords = {pw1, pw2}
  NoPassword = NoPassword
  MaxCodes = 2
SYMMETRY AccountsWorkerSymmetry
INVARIANTS
  AccountsTypeOK
  ProofBeforeAccess
  TokenMeansVerified
PROPERTIES
  VerifiedChangeOnlyByProof
