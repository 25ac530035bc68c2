---------------------------- MODULE RefundPolicy ----------------------------
(***************************************************************************)
(* payments.assess_refund and payments.hours_before: the pure refund       *)
(* policy a cancellation applies.  Times are in any unit; the hour counts  *)
(* compared with the window are what hours_before returns.                 *)
(***************************************************************************)
EXTENDS Integers

\* REFUND_DECISIONS, plus the two ways assess_refund raises.
Decisions == {"full_refund", "no_auto_refund", "admin_exception"}
Refusals == {"AMOUNT_MISMATCH", "ADMIN_EXCEPTION_UNAUTHORISED"}

\* The whole hundredths of an hour hours_before may return for a number of
\* seconds: never negative, and rounded by f"{x:.2f}" to the NEAREST
\* hundredth (36 seconds); a tie goes to either side of the binary float.
NotNegative(n) == IF n < 0 THEN 0 ELSE n
Hundredths(seconds) ==
  LET left == NotNegative(seconds)
      down == left \div 36
  IN  {h \in {down, down + 1} : 36 * h - left \in -18 .. 18}

\* A cancellation request: who cancels, whether an admin exception was asked
\* for and names its admin, and the amount the exception names (-1: none).
Outcome(decision, amount, reason) ==
  [decision |-> decision, amount |-> amount, reason |-> reason]

AdminException(captured, named, amount) ==
  LET due == IF amount = -1 THEN captured ELSE amount
  IN  IF ~named THEN Outcome("ADMIN_EXCEPTION_UNAUTHORISED", 0, "none")
      ELSE IF due > captured THEN Outcome("AMOUNT_MISMATCH", 0, "none")
      ELSE Outcome("admin_exception", due, "admin_exception")

\* The precedence assess_refund must not have: the window decides first.
AssessWindowFirst(captured, hrs, role, exception, named, amount, window) ==
  IF hrs >= window THEN Outcome("full_refund", captured, "cancel_ge_24h")
  ELSE IF role = "tutor" THEN Outcome("no_auto_refund", 0, "none")
  ELSE IF exception THEN AdminException(captured, named, amount)
  ELSE Outcome("no_auto_refund", 0, "none")

\* Tutor cancellation, then admin exception, then the notice window.
Assess(captured, hrs, role, exception, named, amount, window) ==
  IF role = "tutor" THEN Outcome("full_refund", captured, "tutor_cancelled")
  ELSE IF exception THEN AdminException(captured, named, amount)
  ELSE IF hrs >= window THEN Outcome("full_refund", captured, "cancel_ge_24h")
  ELSE Outcome("no_auto_refund", 0, "none")

RefundDue(a) == a.decision \in Decisions \ {"no_auto_refund"} /\ a.amount > 0
=============================================================================
