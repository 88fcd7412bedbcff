\* A sign-up that overlaps with the verification of the same address.
SPECIFICATION RequestsSpec
CONSTANTS
  w1 = w1
  w2 = w2
  alice = alice
  bob = bob
  pw1 = pw1
  pw2 = pw2
  Workers = {w1, w2}
  Emails = {alice}
  AdminEmails = {alice}
  Passwords = {pw1}
  NoPassword = NoPassword
  MaxCodes = 2
INVARIANTS
  VerificationKept
