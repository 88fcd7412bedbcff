\* From two live codes on: issue and verify calls that contend for their rows, and all return.
SPECIFICATION FairContentionSpec
CONSTANTS
  w1 = w1
  w2 = w2
  alice = alice
  Workers = {w1, w2}
  Emails = {alice}
  Purposes = {"verify_email"}
  Cooldown = 1
  Lifetime = 2
  Hour = 2
  MaxPerHour = 3
  MaxAttempts = 1
  MaxCodes = 4
  MaxTime = 1
  MaxLost = 0
INVARIANTS
  IssueInvalidatesWhatItSaw
PROPERTIES
  NoSupersededAccept
  EveryCallReturns
