---------------------------- MODULE SignupLedger ----------------------------
(***************************************************************************)
(* Signups of one mobile number: the idempotency ledger, the registration, *)
(* the browser flows, the codes with their outbox rows, the workers that   *)
(* deliver them and settle the ledger, and retention                       *)
(* (registration_service.py with the signup parts of otp_service.py,       *)
(* otp_flow_service.py, otp_outbox.py, otp_outbox_relay.py, retention.py). *)
(*                                                                         *)
(* Every handler locks ledger, registration, authority and flow in this    *)
(* order, and a loser at a unique index starts over, so a handler is one   *)
(* step.  Only a delivery is not: it checks the ledger, claims the row,    *)
(* calls the provider without a lock, writes what it answered, and settles *)
(* the ledger, each in a transaction of its own.  A worker may die between *)
(* any two.                                                                *)
(*                                                                         *)
(* OtpAuthority and OtpDelivery have the budgets of attempts and resends   *)
(* and the retry times; a request they refuse changes nothing here, and a  *)
(* failed row may be claimed at any time.                                  *)
(***************************************************************************)
EXTENDS Naturals, FiniteSets

CONSTANTS Keys,      \* idempotency keys; the flow cookie is derived from the key
          Contents,  \* contents of a request, as its fingerprint tells them apart
          Codes,     \* otp_challenges rows, each with its otp_outbox row
          Workers,   \* background tasks and relay passes that may run at once
          NoKey, NoContent, NoCode,   \* SQL NULL
          FlowTTL, ChallengeTTL, Lease,
          MaxSends,    \* otp_outbox_max_attempts
          PendingAge,  \* retention_days_registration_pending, Forever if unset
          LastStart,   \* bound: nobody registers after it
          MaxTime      \* bound: the clock stops there

Forever == MaxTime + 1

ASSUME SignupAssumption ==
  /\ NoKey \notin Keys /\ NoContent \notin Contents /\ NoCode \notin Codes
  /\ FlowTTL \in Nat /\ ChallengeTTL \in 1 .. FlowTTL /\ Lease \in Nat \ {0}
  /\ MaxSends \in Nat \ {0} /\ PendingAge \in Nat /\ LastStart \in Nat
  /\ MaxTime \in Nat \ {0}

VARIABLES now,
          ledger,        \* ledger[k]: the registration_idempotency_records row
          registration,  \* the student_registrations row that holds the number
          flow,          \* flow[k]: the otp_flows row of the cookie k yields
          code,          \* code[c]: challenge and outbox row
          issued,        \* last_issued_at of the authority
          worker,        \* worker[w]: the delivery it is in
          accepted,      \* codes the provider has taken
          bound          \* bound[k]: contents answered with 202 under k

signupVars == <<now, ledger, registration, flow, code, issued, worker, accepted, bound>>

-----------------------------------------------------------------------------
Live == {"pending", "code_sent"}
Relayable == {"pending", "claimed", "failed"}
Usable == {"pending_delivery", "active"}

LedgerRow ==
  [state : {"none"}, content : {NoContent}, linked : {FALSE}, row : {NoCode}] \union
  [state : {"pending"}, content : Contents, linked : {TRUE}, row : Codes] \union
  [state : {"succeeded"}, content : Contents, linked : {TRUE}, row : {NoCode}] \union
  [state : {"neutralized"}, content : Contents, linked : {FALSE}, row : {NoCode}] \union
  [state : {"retired", "erased"}, content : {NoContent}, linked : {FALSE}, row : {NoCode}]
RegistrationRow == [status : {"none", "otp_pending", "otp_verified"}, created : Nat]
FlowRow == [state : Live \union {"none", "consumed", "expired"}, real : BOOLEAN,
            code : Codes \union {NoCode}, expires : Nat, marker : Contents \union {NoContent}]
CodeRow == [challenge : Usable \union {"none", "superseded", "void", "consumed"}, expires : Nat,
            row : Relayable \union {"none", "sent", "void", "fenced"}, attempts : 0 .. MaxSends,
            token : 0 .. MaxSends, lease : Nat]

NoLedger == [state |-> "none", content |-> NoContent, linked |-> FALSE, row |-> NoCode]
Tombstone(state) == [NoLedger EXCEPT !.state = state]
NoRegistration == [status |-> "none", created |-> 0]
NoFlow == [state |-> "none", real |-> FALSE, code |-> NoCode, expires |-> 0, marker |-> NoContent]
FreshCode == [challenge |-> "none", expires |-> 0, row |-> "none", attempts |-> 0, token |-> 0,
              lease |-> 0]
Idle == [pc |-> "idle", key |-> NoKey, row |-> NoCode, token |-> 0]

SignupInit ==
  /\ now = 1
  /\ ledger = [k \in Keys |-> NoLedger]
  /\ registration = NoRegistration
  /\ flow = [k \in Keys |-> NoFlow]
  /\ code = [c \in Codes |-> FreshCode]
  /\ issued = 0
  /\ worker = [w \in Workers |-> Idle]
  /\ accepted = {}
  /\ bound = [k \in Keys |-> {}]

-----------------------------------------------------------------------------
Least(a, b) == IF a < b THEN a ELSE b
FlowLive(k) == flow[k].state \in Live /\ flow[k].expires > now
Linked == {k \in Keys : ledger[k].linked}
InState(s) == {c \in Codes : code[c].challenge = s}
Active == IF InState("active") = {} THEN NoCode ELSE CHOOSE c \in InState("active") : TRUE
\* Rows a new code may take; the erased ones are not used again.
Unused == {c \in Codes : code[c] = FreshCode /\ c \notin accepted}
Erased == [FreshCode EXCEPT !.expires = Forever]

\* why: "fenced" when last_error says that no flow was there to serve.
GiveUp(r, why) == [r EXCEPT !.row = IF @ \in Relayable THEN why ELSE @,
                            !.token = 0, !.lease = 0,
                            !.challenge = IF @ \in Usable THEN "void" ELSE @]
VoidRow(r) == GiveUp(r, "void")
Staged(c, deadline) == [code EXCEPT ![c] = [FreshCode EXCEPT !.challenge = "pending_delivery",
                                                             !.expires = deadline, !.row = "pending"]]
\* fence_expired_flow_deliveries
Fenced(target, why) ==
  [c \in Codes |-> IF code[c].challenge \in Usable \/ (c \in target /\ code[c].row \in Relayable)
                   THEN GiveUp(code[c], why) ELSE code[c]]

Ended(k, state) == [flow[k] EXCEPT !.state = state]
Accept(k, x) == bound' = [bound EXCEPT ![k] = @ \union {x}]

-----------------------------------------------------------------------------
(* POST /register.                                                         *)

\* close_expired_signup_delivery: of the codes only the one the ledger, or
\* else the flow, names.
ClosedCode(k) == IF ledger[k].row # NoCode THEN ledger[k].row ELSE flow[k].code
Close(k) ==
  /\ code' = [c \in Codes |-> IF c = ClosedCode(k) THEN VoidRow(code[c]) ELSE code[c]]
  /\ flow' = [flow EXCEPT ![k] = Ended(k, "expired")]

\* The same content is answered as before, while the flow lives.
MatchesAnything(k, x) == TRUE
Matches(k, x) == ledger[k].content = x

Replay(k, x) ==
  /\ ledger[k].state \in {"pending", "succeeded", "neutralized"}
  /\ IF FlowLive(k)
     THEN /\ Matches(k, x)
          /\ Accept(k, x)
          /\ UNCHANGED <<ledger, flow, code>>
     ELSE /\ Close(k)
          /\ ledger' = [ledger EXCEPT ![k] = Tombstone("retired")]
          /\ UNCHANGED bound
  /\ UNCHANGED <<now, registration, issued, worker, accepted>>

NewSignup(k, x, c) ==
  /\ code' = Staged(c, now + ChallengeTTL)
  /\ issued' = now
  /\ ledger' = [ledger EXCEPT ![k] = [state |-> "pending", content |-> x, linked |-> TRUE, row |-> c]]
  /\ Accept(k, x)

\* create_flow: the number has one live flow.
WithFlow(k, c) ==
  [j \in Keys |->
     IF j = k THEN [NoFlow EXCEPT !.state = "pending", !.real = TRUE, !.code = c,
                                  !.expires = now + FlowTTL]
     ELSE IF flow[j].real /\ flow[j].state \in Live THEN Ended(j, "consumed") ELSE flow[j]]

\* register_student
Register(k, x, c) ==
  /\ ledger[k].state = "none" /\ registration.status = "none"
  /\ now <= LastStart /\ c \in Unused
  /\ NewSignup(k, x, c)
  /\ registration' = [status |-> "otp_pending", created |-> now]
  /\ flow' = WithFlow(k, c)
  /\ UNCHANGED <<now, worker, accepted>>

\* restart_cancelled_signup: cookie r was cancelled, and carries the content.
Restarts(r, x) == /\ flow[r].state = "consumed" /\ flow[r].expires > now /\ flow[r].marker = x
                  /\ registration.status = "otp_pending"

Restart(k, x, c, r) ==
  /\ ledger[k].state = "none" /\ Restarts(r, x)
  /\ now <= LastStart /\ c \in Unused
  /\ NewSignup(k, x, c)
  /\ flow' = [WithFlow(k, c) EXCEPT ![r].marker = NoContent]
  /\ UNCHANGED <<now, registration, worker, accepted>>

\* The number is taken: the ledger and a flow that leads nowhere.
Decoy(k, x) ==
  /\ ledger[k].state = "none" /\ registration.status # "none"
  /\ now <= LastStart
  /\ ledger' = [ledger EXCEPT ![k] = [state |-> "neutralized", content |-> x, linked |-> FALSE,
                                      row |-> NoCode]]
  /\ flow' = [flow EXCEPT ![k] = [NoFlow EXCEPT !.state = "pending", !.expires = now + FlowTTL]]
  /\ Accept(k, x)
  /\ UNCHANGED <<now, registration, code, issued, worker, accepted>>

-----------------------------------------------------------------------------
(* What the browser does with its cookie.                                  *)

\* issue_challenge leads the ledger of a pending signup to the new code.
Resend(k, c) ==
  LET deadline == Least(now + ChallengeTTL, flow[k].expires) IN
  /\ FlowLive(k) /\ flow[k].real /\ registration.status = "otp_pending"
  /\ IF InState("pending_delivery") # {}
     THEN /\ c \in InState("pending_delivery")
          /\ code' = [code EXCEPT ![c].expires = deadline]
          /\ UNCHANGED <<ledger, flow>>
     ELSE /\ c \in Unused
          /\ code' = Staged(c, deadline)
          /\ ledger' = [j \in Keys |-> IF ledger[j].state = "pending" THEN [ledger[j] EXCEPT !.row = c]
                                       ELSE ledger[j]]
          /\ flow' = [flow EXCEPT ![k].code = IF @ = NoCode THEN c ELSE @]
  /\ issued' = now
  /\ UNCHANGED <<now, registration, worker, accepted, bound>>

\* The code is the one the provider delivered; a late one is voided.  The page
\* takes it only while the last issue is young (otp_flow_service.project).
Verify(k) ==
  LET c == flow[k].code IN
  /\ FlowLive(k) /\ flow[k].real /\ registration.status = "otp_pending"
  /\ issued + ChallengeTTL > now
  /\ c # NoCode /\ code[c].challenge = "active" /\ c \in accepted
  /\ IF code[c].expires <= now
     THEN /\ code' = [code EXCEPT ![c].challenge = "void"]
          /\ UNCHANGED <<ledger, registration, flow>>
     ELSE /\ code' = [code EXCEPT ![c] = [VoidRow(@) EXCEPT !.challenge = "consumed"]]
          /\ registration' = [registration EXCEPT !.status = "otp_verified"]
          /\ ledger' = [j \in Keys |-> IF ledger[j].linked THEN Tombstone("retired") ELSE ledger[j]]
          /\ flow' = [flow EXCEPT ![k] = Ended(k, "consumed")]
  /\ UNCHANGED <<now, issued, worker, accepted, bound>>

\* A faulty form: the ledger is left as it is.
CancelledLedgerKept(k) == ledger
CancelledLedger(k) == IF flow[k].real THEN [ledger EXCEPT ![k] = Tombstone("retired")] ELSE ledger
Cancel(k) ==
  /\ FlowLive(k) /\ (flow[k].real => registration.status = "otp_pending")
  /\ code' = IF flow[k].real THEN Fenced({}, "void") ELSE code
  /\ ledger' = CancelledLedger(k)
  /\ flow' = [flow EXCEPT ![k] = [Ended(k, "consumed") EXCEPT
                !.marker = IF flow[k].real THEN ledger[k].content ELSE NoContent]]
  /\ UNCHANGED <<now, registration, issued, worker, accepted, bound>>

-----------------------------------------------------------------------------
(* Workers: finalize_pending_registration, run_delivery.                   *)

\* The flow a delivery serves, if there is exactly one and it lives.
Serving == {k \in Keys : flow[k].real /\ flow[k].state \in Live}
ServedAtAll == Cardinality(Serving) = 1
Available == Cardinality(Serving) = 1 /\ \A k \in Serving : flow[k].expires > now

Go(w, t) == worker' = [worker EXCEPT ![w] = t]
Done(w) == Go(w, Idle)
Stop(w) == Done(w) /\ UNCHANGED <<ledger, flow, code, accepted>>
At(w, pc) == worker[w].pc = pc /\ UNCHANGED <<now, registration, issued, bound>>

\* A background task may start long after it was scheduled, or never.
StartFinalize(w, k) ==
  /\ At(w, "idle")
  /\ ledger[k].state = "pending" /\ registration.status = "otp_pending"
  /\ IF Available
     THEN /\ Go(w, [pc |-> "deliver", key |-> k, row |-> ledger[k].row, token |-> 0])
          /\ UNCHANGED <<ledger, flow, code, accepted>>
     ELSE /\ code' = Fenced({ledger[k].row}, "fenced")
          /\ flow' = [j \in Keys |-> IF j \in Serving THEN Ended(j, "expired") ELSE flow[j]]
          /\ ledger' = [ledger EXCEPT ![k] = Tombstone("retired")]
          /\ Done(w) /\ UNCHANGED accepted

\* deliver_resend_after_response and relay_pending: a row the ledger waits for
\* is finalized, any other is only delivered.
StartDelivery(w, c) ==
  /\ At(w, "idle")
  /\ code[c].row \in Relayable
  /\ \A k \in Keys : ledger[k].row # c
  /\ Go(w, [pc |-> "deliver", key |-> NoKey, row |-> c, token |-> 0])
  /\ UNCHANGED <<ledger, flow, code, accepted>>

\* run_delivery found no flow to serve; answered: it raises nothing.
Then(w, answered) == IF worker[w].key = NoKey THEN Idle
                     ELSE [worker[w] EXCEPT !.pc = IF answered THEN "settle" ELSE "idle"]
Unavailable(w) ==
  /\ code' = Fenced({worker[w].row}, "fenced")
  /\ flow' = [j \in Keys |-> IF j \in Serving THEN Ended(j, "expired") ELSE flow[j]]
  /\ Go(w, IF worker[w].key = NoKey THEN Idle ELSE [worker[w] EXCEPT !.pc = "reconcile"])
  /\ UNCHANGED <<ledger, accepted>>

\* _void and _reconcile_voided_candidate: the code delivered before counts.
Discard(c) ==
  /\ code' = [code EXCEPT ![c] = VoidRow(@)]
  /\ flow' = IF code[c].challenge # "pending_delivery" THEN flow
             ELSE [k \in Keys |-> IF k \notin Serving THEN flow[k]
                                  ELSE [flow[k] EXCEPT !.code = Active,
                                          !.state = IF Active = NoCode THEN "pending" ELSE "code_sent"]]

Claimable(c) == /\ code[c].attempts < MaxSends
                /\ code[c].challenge \in Usable /\ code[c].expires > now
Deliver(w) ==
  LET c == worker[w].row IN
  /\ At(w, "deliver")
  /\ IF code[c].row \notin Relayable
     THEN /\ Go(w, IF code[c].row = "fenced" /\ worker[w].key # NoKey
                   THEN [worker[w] EXCEPT !.pc = "reconcile"] ELSE Then(w, code[c].row = "sent"))
          /\ UNCHANGED <<ledger, flow, code, accepted>>
     ELSE IF ~ Available THEN Unavailable(w)
     ELSE IF code[c].row = "claimed" /\ code[c].lease > now THEN Stop(w)
     ELSE IF ~ Claimable(c) THEN Discard(c) /\ Done(w) /\ UNCHANGED <<ledger, accepted>>
     ELSE /\ code' = [code EXCEPT ![c].row = "claimed", ![c].attempts = @ + 1,
                                  ![c].token = code[c].attempts + 1, ![c].lease = now + Lease]
          /\ \E answer \in {"accepted", "refused"} :
               /\ Go(w, [worker[w] EXCEPT !.pc = answer, !.token = code[c].attempts + 1])
               /\ accepted' = IF answer = "accepted" THEN accepted \union {c} ELSE accepted
          /\ UNCHANGED <<ledger, flow>>

OwnsClaim(w) == code[worker[w].row].row = "claimed" /\ code[worker[w].row].token = worker[w].token

\* _finalize_success: the code replaces the one before it.
Activated(c, deadline) ==
  [d \in Codes |->
     IF d = c THEN [code[c] EXCEPT !.row = "sent", !.token = 0, !.lease = 0,
                      !.challenge = IF @ = "pending_delivery" THEN "active" ELSE @,
                      !.expires = IF code[c].challenge = "pending_delivery" THEN deadline ELSE @]
     ELSE IF code[d].challenge = "active" /\ code[c].challenge = "pending_delivery"
          THEN [code[d] EXCEPT !.challenge = "superseded"] ELSE code[d]]
Accepted(w) ==
  LET c == worker[w].row IN
  /\ At(w, "accepted")
  /\ IF ~ OwnsClaim(w) THEN Go(w, Then(w, TRUE)) /\ UNCHANGED <<ledger, flow, code, accepted>>
     ELSE IF ~ Available THEN Unavailable(w)
     ELSE \E k \in Serving :
            /\ code' = Activated(c, Least(now + ChallengeTTL, flow[k].expires))
            /\ flow' = [flow EXCEPT ![k].state = "code_sent", ![k].code = c]
            /\ Go(w, Then(w, TRUE))
            /\ UNCHANGED <<ledger, accepted>>

\* _finalize_failure
Refused(w) ==
  LET c == worker[w].row IN
  /\ At(w, "refused")
  /\ IF ~ OwnsClaim(w) THEN Stop(w)
     ELSE IF ~ Available THEN Unavailable(w)
     ELSE /\ IF code[c].attempts >= MaxSends THEN Discard(c)
             ELSE /\ code' = [code EXCEPT ![c].row = "failed", ![c].token = 0, ![c].lease = 0]
                  /\ UNCHANGED flow
          /\ Done(w) /\ UNCHANGED <<ledger, accepted>>

Retire(w) ==
  /\ code' = Fenced({worker[w].row}, "fenced")
  /\ flow' = [j \in Keys |-> IF j \in Serving THEN Ended(j, "expired") ELSE flow[j]]
  /\ ledger' = [ledger EXCEPT ![worker[w].key] = Tombstone("retired")]
  /\ Done(w) /\ UNCHANGED accepted

\* What the ledger says is read again: the signup may be over, or wait for
\* another code.
WaitsAnyhow(w) == TRUE
StillWaits(w) == ledger[worker[w].key].state = "pending" /\ ledger[worker[w].key].row = worker[w].row
DeliveredSurely(c) == TRUE
Delivered(c) == code[c].row = "sent" /\ code[c].challenge = "active"
Settle(w) ==
  LET k == worker[w].key IN
  /\ At(w, "settle")
  /\ IF ~ StillWaits(w) THEN Stop(w)
     ELSE IF ~ Available THEN Retire(w)
     ELSE IF Delivered(worker[w].row)
     THEN /\ ledger' = [ledger EXCEPT ![k] = [@ EXCEPT !.state = "succeeded", !.row = NoCode]]
          /\ Done(w) /\ UNCHANGED <<flow, code, accepted>>
     ELSE Stop(w)

\* _reconcile_unavailable_pending_delivery
Reconcile(w) ==
  /\ At(w, "reconcile")
  /\ IF StillWaits(w) /\ ~ Available THEN Retire(w) ELSE Stop(w)

Crash(w) == At(w, worker[w].pc) /\ worker[w] # Idle /\ Stop(w)

-----------------------------------------------------------------------------
\* purge_expired: an expired flow takes its unfinished registration along.
Late == {k \in Keys : flow[k].state \in Live /\ flow[k].expires <= now}
Overdue == registration.created + PendingAge < now
Purge ==
  LET erase == registration.status = "otp_pending" /\ ((\E k \in Late : flow[k].real) \/ Overdue) IN
  /\ Late # {} \/ erase
  /\ registration' = IF erase THEN NoRegistration ELSE registration
  /\ flow' = [k \in Keys |-> IF flow[k].real /\ erase THEN NoFlow
                             ELSE IF k \in Late THEN Ended(k, "expired") ELSE flow[k]]
  /\ ledger' = [k \in Keys |-> IF ledger[k].linked /\ erase THEN Tombstone("erased")
                               ELSE IF k \in Late THEN Tombstone("retired") ELSE ledger[k]]
  /\ code' = [c \in Codes |-> IF erase /\ code[c] # FreshCode THEN Erased
                              ELSE IF \E k \in Late : ClosedCode(k) = c THEN VoidRow(code[c])
                              ELSE code[c]]
  /\ issued' = IF erase THEN 0 ELSE issued
  /\ UNCHANGED <<now, worker, accepted, bound>>

Tick == /\ now < MaxTime /\ now' = now + 1
        /\ UNCHANGED <<ledger, registration, flow, code, issued, worker, accepted, bound>>

Browser ==
  \E k \in Keys :
    \/ \E x \in Contents : \/ Replay(k, x) \/ Decoy(k, x)
                          \/ \E c \in Codes : \/ Register(k, x, c)
                                             \/ \E r \in Keys : Restart(k, x, c, r)
    \/ \E c \in Codes : Resend(k, c)
    \/ Verify(k)
    \/ Cancel(k)

Work(w) == \/ Deliver(w) \/ Accepted(w) \/ Refused(w) \/ Settle(w) \/ Reconcile(w)
Relay(w) == \/ \E k \in Keys : StartFinalize(w, k)
            \/ \E c \in Codes : StartDelivery(w, c)

SignupNext == Browser \/ Purge \/ Tick \/ \E w \in Workers : Work(w) \/ Relay(w) \/ Crash(w)
SignupSpec == SignupInit /\ [][SignupNext]_signupVars

\* Time passes and retention runs on its schedule; nothing else must happen.
SignupFairness == WF_signupVars(Tick) /\ WF_signupVars(Purge)
FairSignups == SignupSpec /\ SignupFairness

-----------------------------------------------------------------------------
\* Rows have the shapes the table constraints of the ledger and the columns
\* of the others allow, whatever order the handlers come in.
SignupTypeOK ==
  /\ now \in 1 .. MaxTime
  /\ ledger \in [Keys -> LedgerRow]
  /\ registration \in RegistrationRow
  /\ flow \in [Keys -> FlowRow]
  /\ code \in [Codes -> CodeRow] /\ issued \in 0 .. now
  /\ \A w \in Workers : worker[w].key \in Keys \union {NoKey} /\ worker[w].row \in Codes \union {NoCode}
  /\ accepted \subseteq Codes
  /\ bound \in [Keys -> SUBSET Contents]

\* A key that may be replayed leads to the one unfinished registration and to
\* its own flow, the only one with authority over it: no replay finds the
\* graph broken ("registration replay lost its OTP flow"), and no two browsers
\* drive one signup.
OneBrowserPerSignup ==
  /\ Cardinality(Serving) <= 1 /\ Cardinality(Linked) <= 1
  /\ \A k \in Linked : registration.status = "otp_pending" /\ flow[k].real /\ flow[k].state # "consumed"
  /\ Serving \subseteq Linked

\* A key is bound to the content it was first accepted with, for good: no
\* replay, restart, cancellation or retention makes it answer for another.
KeyKeepsContent == \A k \in Keys : Cardinality(bound[k]) <= 1

\* The ledger reports success only when a code of this registration was
\* delivered, whatever became of the worker that had claimed it.
SuccessWasDelivered ==
  (\E k \in Keys : ledger[k].state = "succeeded") => \E c \in accepted : code[c].row = "sent"

\* A tombstone stays one: a delivery that comes back late does not revive a
\* signup that was cancelled, verified or erased meanwhile.
RetiredStaysRetired ==
  [][\A k \in Keys : ledger[k].state \in {"retired", "erased"} => ledger'[k] = ledger[k]]_signupVars

\* No code becomes valid for a signup that is over.
NoCodeAfterTheEnd ==
  [][\A c \in Codes : code'[c].challenge = "active" /\ code[c].challenge # "active" =>
       registration.status = "otp_pending" /\ \E k \in Keys : flow[k].real /\ FlowLive(k)]_signupVars

\* A number nobody verifies is free again in the end, if an age is set for
\* unfinished registrations: whatever mix of cancelled, expired and fenced
\* flows they leave, purge_expired finds them.
NumberIsFreed == registration.status = "otp_pending" ~> registration.status # "otp_pending"
=============================================================================
