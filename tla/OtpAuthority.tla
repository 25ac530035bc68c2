---------------------------- MODULE OtpAuthority ----------------------------
(* The row of otp_purpose_authorities that carries the attempt, lockout and *)
(* resend budgets of one subject and purpose, and what the handlers do to   *)
(* it at time t (otp_authority.py, otp_service.py).                         *)
EXTENDS Integers

CONSTANTS MaxAttempts,    \* otp_max_attempts
          AttemptWindow,  \* otp_attempt_window_seconds
          Lockout,        \* otp_lockout_seconds
          Cooldown,       \* otp_resend_cooldown_seconds
          MaxResends,     \* otp_max_resends_per_window
          ResendWindow    \* otp_resend_window_seconds

ASSUME AuthorityAssumption ==
  /\ MaxAttempts \in Nat \ {0}
  /\ AttemptWindow \in Nat \ {0}
  /\ Lockout \in Nat \ {0}
  /\ Cooldown \in Nat \ {0}
  /\ MaxResends \in Nat \ {0}
  /\ ResendWindow \in Nat \ {0}

\* A column that is NULL: every instant is later.
Never == 0

AuthorityRow == [failed : 0 .. MaxAttempts, locked : Nat, windowFrom : Nat, issued : BOOLEAN,
                 cooldown : Nat, resendFrom : Nat, resends : 0 .. MaxResends, activeUntil : Nat]

NewAuthority == [failed |-> 0, locked |-> Never, windowFrom |-> Never, issued |-> FALSE,
                 cooldown |-> Never, resendFrom |-> Never, resends |-> 0, activeUntil |-> Never]

\* A lockout that is over gives the whole budget back.
RefreshLock(a, t) == IF a.locked # Never /\ a.locked <= t
                     THEN [a EXCEPT !.failed = 0, !.locked = Never, !.windowFrom = Never]
                     ELSE a

\* A faulty form: only the count is looked at, one too high.
LockedByCount(a, t) == a.failed > MaxAttempts
IsLocked(a, t) == RefreshLock(a, t).locked # Never

\* One more wrong code: it counts in the window it falls into.
AttemptWindowAt(a, t) == IF a.windowFrom = Never \/ a.windowFrom + AttemptWindow <= t
                         THEN [a EXCEPT !.failed = 0, !.windowFrom = t]
                         ELSE a

CountMiss(a, t) == LET b == AttemptWindowAt(RefreshLock(a, t), t)
                   IN [b EXCEPT !.failed = @ + 1,
                                !.locked = IF b.failed + 1 >= MaxAttempts THEN t + Lockout ELSE @]

Forgive(a) == [a EXCEPT !.failed = 0, !.locked = Never, !.windowFrom = Never,
                        !.activeUntil = Never]

\* Issues and resends share one window, the cooldown runs from the last one.
ResendWindowAt(a, t) == IF a.resendFrom = Never \/ a.resendFrom + ResendWindow <= t
                        THEN [a EXCEPT !.resendFrom = t, !.resends = 0]
                        ELSE a

CoolingDown(a, t) == a.cooldown > t
MayResend(a, t) == ResendWindowAt(a, t).resends < MaxResends
ConsumeResend(a, t) == [ResendWindowAt(a, t) EXCEPT !.resends = @ + 1]
NoteIssue(a, t) == [a EXCEPT !.issued = TRUE, !.cooldown = t + Cooldown]
=============================================================================
