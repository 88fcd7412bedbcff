\* Two workers: overlapping issue and verify calls for one key, with locks and faults; and
\* overlapping issues for both purposes, up to the limits.
SPECIFICATION CodesAndLimitsSpec
CONSTANTS
  w1 = w1
  w2 = w2
  alice = alice
  Workers = {w1, w2}
  Emails = {alice}
  Purposes = {"verify_email", "reset_password"}
  Cooldown = 1
  Lifetime = 1
  Hour = 2
  MaxPerHour = 1
  MaxAttempts = 2
  MaxCodes = 3
  MaxTime = 2
  MaxLost = 1
SYMMETRY WorkerSymmetry
INVARIANTS
  OtpTypeOK
  AcceptedOnce
  GuessesCounted
  GuessesBounded
  HourlyBounded
  CooldownBounded
PROPERTIES
  RowsOnlyAge
  ImplementsCodeBook
CHECK_DEADLOCK FALSE
