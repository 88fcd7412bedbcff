------------------------------- MODULE MCOtp -------------------------------
(***************************************************************************)
(* Instances of Otp for TLC.                                               *)
(***************************************************************************)
EXTENDS Otp, TLC

CONSTANTS w1, w2, alice

WorkerSymmetry == Permutations(Workers)

\* What a behaviour of otp_codes is about, chosen at the start.
VARIABLE load

OneKey == <<alice, "verify_email">>

\* Two codes of one key, issued and verified.
CodesLoad ==
  \/ \E w \in Workers :
       \/ /\ Len(otps) + Cardinality({v \in Workers : Issuing(v)}) < 2
          /\ IssueStart(w, OneKey)
       \/ \E guess \in Guesses : VerifyRead(w, OneKey, guess)
       \/ IssueStep(w) \/ VerifyStep(w) \/ Fault(w) \/ DeadlockDetected(w)
  \/ clock = 0 /\ Tick

\* Only issue is called: neither limit reads what verify writes.
IssueLoad ==
  \/ \E w \in Workers : \/ \E k \in Keys : IssueStart(w, k)
                        \/ IssueStep(w)
                        \/ IssueFail(w)
  \/ Tick

CodesAndLimitsInit == OtpInit /\ load \in {"codes", "limits"}

CodesAndLimitsNext ==
  /\ UNCHANGED load
  /\ \/ load = "codes" /\ CodesLoad
     \/ load = "limits" /\ IssueLoad

CodesAndLimitsSpec == CodesAndLimitsInit /\ [][CodesAndLimitsNext]_<<otpVars, load>>

\* Two issues that overlapped left two live codes, and their cooldown is over: issues that start
\* now contend for two rows.
TwoCodesInit ==
  /\ clock = Cooldown
  /\ \E k \in Keys :
       otps = [i \in 1..2 |-> [key |-> k, created |-> 0, expires |-> Lifetime, attempts |-> 0,
                              consumed |-> FALSE, status |-> "committed"]]
  /\ op = [w \in Workers |-> [pc |-> "idle", result |-> "none", code |-> 0]]
  /\ hist = [i \in 1..2 |-> [accepted |-> 0, tries |-> 0, lost |-> 0, saw |-> {},
                             checked |-> Limits]]
  /\ load = "contention"

\* Whoever verifies presents the latest usable code: a wrong guess waits for its row as a right
\* one does.
Presented(k) == IF Usable(k) = {} THEN {0} ELSE Latest(Usable(k))

Contention ==
  /\ UNCHANGED load
  /\ \E w \in Workers :
       \/ \E k \in Keys : IssueStart(w, k) \/ \E guess \in Presented(k) : VerifyRead(w, k, guess)
       \/ IssueStep(w) \/ VerifyStep(w) \/ Fault(w) \/ DeadlockDetected(w)

FairContentionSpec == TwoCodesInit /\ [][Contention]_<<otpVars, load>> /\ OtpFairness
=============================================================================
