----------------------------- MODULE OtpDelivery -----------------------------
(***************************************************************************)
(* One-time codes for one subject and purpose (login or recovery): browser *)
(* flows, challenges with their outbox rows, and the workers that hand a   *)
(* code to the provider (otp_service.py, otp_flow_service.py,              *)
(* otp_outbox.py, otp_outbox_relay.py).                                    *)
(*                                                                         *)
(* Every handler locks the authority row first, so a handler is one step.  *)
(* Two are not: run_delivery commits its claim, calls the provider with no *)
(* lock and comes back to finalize, and a verify that meets an expired     *)
(* code commits before it counts the attempt.                              *)
(*                                                                         *)
(* A request that is refused rolls back: it is a stuttering step.          *)
(***************************************************************************)
EXTENDS OtpAuthority

CONSTANTS Flows,        \* otp_flows rows
          Challenges,   \* otp_challenges rows, each with its otp_outbox row
          Workers,      \* threads in run_delivery
          Requests,     \* verify requests that met an expired code
          Channels,     \* the channels a flow may be started on
          Purpose,      \* "login" or "recovery"
          NoCode,       \* no challenge; as an input, a code of no challenge
          ChallengeTTL, FlowTTL, ProofTTL,
          Lease,        \* otp_outbox_lease_seconds
          RetryBase, RetryMax,
          MaxSends,     \* otp_outbox_max_attempts
          LastStart,    \* bound: no flow starts after it
          MaxTime       \* bound: the clock stops there

ASSUME DeliveryAssumption ==
  /\ NoCode \notin Challenges
  /\ Purpose \in {"login", "recovery"}
  /\ Channels \subseteq {"mobile", "email"}
  /\ ChallengeTTL \in Nat \ {0} /\ FlowTTL \in Nat /\ FlowTTL >= ChallengeTTL
  /\ ProofTTL \in Nat \ {0} /\ ProofTTL <= FlowTTL
  /\ Lease \in Nat \ {0}
  /\ RetryBase \in Nat \ {0} /\ RetryMax \in Nat \ {0}
  /\ MaxSends \in Nat \ {0}
  /\ LastStart \in Nat /\ MaxTime \in Nat \ {0}

VARIABLES now,
          authority,  \* the otp_purpose_authorities row
          flow,       \* flow[f]: the otp_flows row
          challenge,  \* challenge[c]: state and expiry
          outbox,     \* outbox[c]: the row that carries the code of c
          tasks,      \* deliveries a request or a relay pass has listed
          delivery,   \* delivery[w]: the claim w holds
          late,       \* late[r]: the authority r read before it committed
          accepted    \* the codes the provider has taken

otpVars == <<now, authority, flow, challenge, outbox, tasks, delivery, late, accepted>>

Delivering == {"pending", "code_sent", "locked"}
Current == Delivering \union {"verified"}
Relayable == {"pending", "claimed", "failed"}
Usable == {c \in Challenges : challenge[c].state \in {"active", "pending_delivery"}}

FlowRow == [state : Current \union {"none", "expired", "consumed"},
            challenge : Challenges \union {NoCode}, expires : Nat,
            channel : {"mobile", "email"}]
ChallengeRow == [state : {"none", "pending_delivery", "active", "superseded", "void", "consumed"},
                 expires : Nat]
\* A claim token is as good as the number of the attempt it was drawn for.
OutboxRow == [status : Relayable \union {"none", "sent", "void"}, attempts : 0 .. MaxSends,
              token : 0 .. MaxSends, lease : Nat, retryAt : Nat, channel : {"mobile", "email"}]
Task == [row : Challenges, sender : {"mobile", "email"}]
Claim == [step : {"sending", "accepted", "refused"}, row : Challenges, token : 1 .. MaxSends,
          lease : Nat, sender : {"mobile", "email"}]

NoClaim == [step |-> "idle"]
NotLate == [step |-> "none"]
FreshRow == [status |-> "none", attempts |-> 0, token |-> 0, lease |-> Never, retryAt |-> Never,
             channel |-> "mobile"]

OtpInit ==
  /\ now = 1
  /\ authority = NewAuthority
  /\ flow = [f \in Flows |-> [state |-> "none", challenge |-> NoCode, expires |-> Never,
                              channel |-> "mobile"]]
  /\ challenge = [c \in Challenges |-> [state |-> "none", expires |-> Never]]
  /\ outbox = [c \in Challenges |-> FreshRow]
  /\ tasks = {}
  /\ delivery = [w \in Workers |-> NoClaim]
  /\ late = [r \in Requests |-> NotLate]
  /\ accepted = {}

Least(a, b) == IF a < b THEN a ELSE b
InState(s) == {c \in Challenges : challenge[c].state = s}
TheOne(S) == IF S = {} THEN NoCode ELSE CHOOSE c \in S : TRUE
Active == TheOne(InState("active"))
Pending == TheOne(InState("pending_delivery"))

---------------------------------------------------------------------------
(* What several handlers do to the rows. *)

VoidRow(r) == [r EXCEPT !.status = "void", !.token = 0, !.lease = Never, !.retryAt = Never]

\* fence_expired_flow_deliveries: no code of this authority can be relayed or
\* verified any more.
Fence(target, a) ==
  /\ challenge' = [c \in Challenges |-> IF c \in Usable THEN [challenge[c] EXCEPT !.state = "void"]
                                        ELSE challenge[c]]
  /\ outbox' = [c \in Challenges |-> IF c \in Usable \union target /\ outbox[c].status \in Relayable
                                     THEN VoidRow(outbox[c]) ELSE outbox[c]]
  /\ authority' = IF Usable = {} THEN a ELSE [a EXCEPT !.activeUntil = Never]

\* Faulty forms: the code counts before it is delivered; the old one goes at once.
StageActive(c, deadline, channel) ==
  /\ challenge' = [challenge EXCEPT ![c] = [state |-> "active", expires |-> deadline]]
  /\ outbox' = [outbox EXCEPT ![c] = [FreshRow EXCEPT !.status = "pending", !.channel = channel]]
StageReplacing(c, deadline, channel) ==
  /\ challenge' = [d \in Challenges |->
       IF d = c THEN [state |-> "pending_delivery", expires |-> deadline]
       ELSE IF challenge[d].state = "active" THEN [challenge[d] EXCEPT !.state = "superseded"]
       ELSE challenge[d]]
  /\ outbox' = [outbox EXCEPT ![c] = [FreshRow EXCEPT !.status = "pending", !.channel = channel]]

\* issue_challenge: the staged candidate is reused, or a new one is staged.
Stage(c, deadline, channel) ==
  /\ challenge' = [challenge EXCEPT ![c] = [state |-> "pending_delivery", expires |-> deadline]]
  /\ outbox' = [outbox EXCEPT ![c] = [FreshRow EXCEPT !.status = "pending", !.channel = channel]]

Retired(f, state) == [flow EXCEPT ![f].state = state]

\* A faulty form: the flow is left without a code.
ReconciledToNothing == [f \in Flows |->
  IF flow[f].state \in Delivering THEN [flow[f] EXCEPT !.state = "pending", !.challenge = NoCode]
  ELSE flow[f]]

\* After a candidate is given up, the code delivered before it still counts.
Reconciled == [f \in Flows |->
  IF flow[f].state \notin Delivering THEN flow[f]
  ELSE IF Active = NoCode THEN [flow[f] EXCEPT !.state = "pending", !.challenge = NoCode]
  ELSE [flow[f] EXCEPT !.state = "code_sent", !.challenge = Active]]

\* A faulty form: the row is void, its challenge is not.
GiveUpRowOnly(c) ==
  /\ outbox' = [outbox EXCEPT ![c] = VoidRow(@)]
  /\ flow' = IF c = Pending THEN Reconciled ELSE flow
  /\ UNCHANGED <<challenge, authority>>

GiveUp(c) ==
  /\ outbox' = [outbox EXCEPT ![c] = VoidRow(@)]
  /\ challenge' = IF c \in Usable THEN [challenge EXCEPT ![c].state = "void"] ELSE challenge
  /\ authority' = IF c = Active THEN [authority EXCEPT !.activeUntil = Never] ELSE authority
  /\ flow' = IF c = Pending THEN Reconciled ELSE flow

\* The one flow a delivery may serve, if there is one.
\* A faulty form: at any time.
CurrentFlows == {f \in Flows : flow[f].state \in Current}
MayServeAnytime(f) == CurrentFlows = {f} /\ flow[f].state \in Delivering
MayServe(f) == /\ CurrentFlows = {f}
               /\ flow[f].state \in Delivering
               /\ flow[f].expires > now
NobodyToServe == \A f \in Flows : ~ MayServe(f)

\* A faulty form: a verified proof expires too.
FenceEveryFlow(c) ==
  /\ Fence({c}, authority)
  /\ flow' = [f \in Flows |-> IF f \in CurrentFlows THEN [flow[f] EXCEPT !.state = "expired"]
                              ELSE flow[f]]

FenceUnavailable(c) ==
  /\ Fence({c}, authority)
  /\ flow' = [f \in Flows |-> IF flow[f].state \in Delivering
                              THEN [flow[f] EXCEPT !.state = "expired"] ELSE flow[f]]

---------------------------------------------------------------------------
(* The browser's requests. *)

\* start_flow, start_email_flow: a new flow replaces the current one.  Outside
\* the cooldown and a lockout it also issues: the staged candidate again, or a
\* new one.  A code already delivered stays the one the flow verifies.
Start(f, c, channel) ==
  LET a0 == RefreshLock(authority, now)
      issues == ~ CoolingDown(a0, now) /\ ~ IsLocked(a0, now)
      a1 == IF a0.issued THEN ConsumeResend(a0, now) ELSE a0
      bound == IF Active # NoCode THEN Active ELSE IF issues THEN c ELSE NoCode
  IN /\ now <= LastStart
     /\ flow[f].state = "none"
     /\ channel \in Channels
     /\ \/ /\ ~ issues
           /\ c = NoCode
           /\ authority' = a0
           /\ UNCHANGED <<challenge, outbox, tasks>>
        \/ /\ issues
           /\ a0.issued => MayResend(a0, now)
           /\ authority' = NoteIssue(a1, now)
           /\ \/ c = Pending /\ c # NoCode /\ UNCHANGED <<challenge, outbox>>
              \/ /\ Pending = NoCode
                 /\ c \in InState("none")
                 /\ Stage(c, now + ChallengeTTL, channel)
           /\ tasks' = tasks \union {[row |-> c, sender |-> channel]}
     /\ flow' = [g \in Flows |->
          IF g = f THEN [state |-> "pending", challenge |-> bound,
                         expires |-> now + FlowTTL, channel |-> channel]
          ELSE IF g \in CurrentFlows THEN [flow[g] EXCEPT !.state = "consumed"]
          ELSE flow[g]]
     /\ UNCHANGED <<now, delivery, late, accepted>>

\* otp_resend: the staged candidate gets a new deadline and goes out under the
\* same provider key; with none staged a new one is, beside the active code.
Resend(f, c) ==
  LET a0 == RefreshLock(authority, now)
      deadline == Least(now + ChallengeTTL, flow[f].expires)
  IN /\ MayServe(f)
     /\ ~ IsLocked(a0, now)
     /\ ~ CoolingDown(a0, now)
     /\ MayResend(a0, now)
     /\ authority' = NoteIssue(ConsumeResend(a0, now), now)
     /\ \/ /\ c = Pending /\ c # NoCode
           /\ challenge' = [challenge EXCEPT ![c].expires = deadline]
           /\ UNCHANGED outbox
        \/ /\ Pending = NoCode
           /\ c \in InState("none")
           /\ Stage(c, deadline, flow[f].channel)
     /\ flow' = IF flow[f].challenge = NoCode THEN [flow EXCEPT ![f].challenge = c] ELSE flow
     /\ tasks' = tasks \union {[row |-> c, sender |-> flow[f].channel]}
     /\ UNCHANGED <<now, delivery, late, accepted>>

\* verify_flow looks for the code its flow is bound to.
Verifiable(f) == /\ flow[f].state \in Delivering
                 /\ flow[f].expires > now
Bound(f) == flow[f].challenge # NoCode /\ flow[f].challenge = Active
CodeLives(f) == challenge[flow[f].challenge].expires > now

\* The right code is consumed together with the flow: a login ends it, a
\* recovery turns it into a proof.
VerifyRight(f, c) ==
  /\ Verifiable(f)
  /\ Bound(f) /\ c = flow[f].challenge
  /\ ~ IsLocked(authority, now)
  /\ CodeLives(f)
  /\ challenge' = [challenge EXCEPT ![c].state = "consumed"]
  /\ authority' = Forgive(authority)
  /\ outbox' = IF outbox[c].status \in Relayable THEN [outbox EXCEPT ![c] = VoidRow(@)] ELSE outbox
  /\ flow' = IF Purpose = "login" THEN Retired(f, "consumed")
             ELSE [flow EXCEPT ![f].state = "verified", ![f].expires = now + ProofTTL]
  /\ UNCHANGED <<now, tasks, delivery, late, accepted>>

\* A wrong code, or one for a flow with nothing to verify: both use up an
\* attempt of the authority.
VerifyWrong(f, c) ==
  /\ Verifiable(f)
  /\ Bound(f) => CodeLives(f) /\ c # flow[f].challenge
  /\ ~ IsLocked(authority, now)
  /\ authority' = CountMiss(authority, now)
  /\ UNCHANGED <<now, flow, challenge, outbox, tasks, delivery, late, accepted>>

\* An expired code is voided and committed: the authority is not locked any
\* more when the attempt is counted, and the row read before the commit is used,
\* with the instant the request began.
VerifyExpired(f, r) ==
  /\ Verifiable(f)
  /\ Bound(f) /\ ~ CodeLives(f)
  /\ ~ IsLocked(authority, now)
  /\ late[r] = NotLate
  /\ challenge' = [challenge EXCEPT ![flow[f].challenge].state = "void"]
  /\ authority' = [RefreshLock(authority, now) EXCEPT !.activeUntil = Never]
  /\ late' = [late EXCEPT ![r] = [step |-> "counting", row |-> authority', at |-> now]]
  /\ UNCHANGED <<now, flow, outbox, tasks, delivery, accepted>>

\* Only the columns that change are written.
Written(old, new) == [k \in DOMAIN authority |-> IF new[k] # old[k] THEN new[k] ELSE authority[k]]

CountLate(r) ==
  /\ late[r] # NotLate
  /\ late' = [late EXCEPT ![r] = NotLate]
  /\ authority' = Written(late[r].row, CountMiss(late[r].row, late[r].at))
  /\ UNCHANGED <<now, flow, challenge, outbox, tasks, delivery, accepted>>

\* cancel_onboarding_flow: codes and deliveries are fenced with the flow.
Cancel(f) ==
  /\ \/ flow[f].state \in Delivering
     \/ Purpose = "recovery" /\ flow[f].state = "verified"
  /\ flow[f].expires > now
  /\ Fence({}, authority)
  /\ flow' = Retired(f, "consumed")
  /\ UNCHANGED <<now, tasks, delivery, late, accepted>>

\* complete_flow spends the proof of a recovery.
Complete(f) ==
  /\ Purpose = "recovery"
  /\ flow[f].state = "verified"
  /\ flow[f].expires > now
  /\ flow' = Retired(f, "consumed")
  /\ UNCHANGED <<now, authority, challenge, outbox, tasks, delivery, late, accepted>>

\* purge_otp_security_state retires a flow whose time is over.
Purge(f) ==
  /\ flow[f].state \in Current
  /\ flow[f].expires <= now
  /\ Fence({}, authority)
  /\ flow' = Retired(f, "expired")
  /\ UNCHANGED <<now, tasks, delivery, late, accepted>>

---------------------------------------------------------------------------
(* run_delivery: claim, provider, finalize. *)

LeaseOver(c) == outbox[c].lease <= now
\* A faulty form: a claim is never taken over.
ClaimableOnce(c) == /\ outbox[c].status # "claimed"
                    /\ outbox[c].status = "failed" => outbox[c].retryAt <= now
Claimable(c) == /\ outbox[c].status = "claimed" => LeaseOver(c)
                /\ outbox[c].status = "failed" => outbox[c].retryAt <= now
Exhausted(c) == outbox[c].attempts >= MaxSends
Deliverable(c) == c \in Usable /\ challenge[c].expires > now

\* relay_pending lists the rows no live attempt takes care of, for the provider
\* of the worker.
List(c) ==
  /\ outbox[c].status \in Relayable
  /\ Claimable(c)
  /\ tasks' = tasks \union {[row |-> c, sender |-> "mobile"]}
  /\ UNCHANGED <<now, authority, flow, challenge, outbox, delivery, late, accepted>>

\* The row is settled, in other hands, or not due: nothing to do.
Decline(t) ==
  /\ \/ outbox[t.row].status \notin Relayable
     \/ ~ NobodyToServe /\ ~ Claimable(t.row)
  /\ tasks' = tasks \ {t}
  /\ UNCHANGED <<now, authority, flow, challenge, outbox, delivery, late, accepted>>

DeclineFenced(t) ==
  /\ outbox[t.row].status \in Relayable
  /\ NobodyToServe
  /\ FenceUnavailable(t.row)
  /\ tasks' = tasks \ {t}
  /\ UNCHANGED <<now, delivery, late, accepted>>

DeclineVoid(t) ==
  /\ outbox[t.row].status \in Relayable
  /\ ~ NobodyToServe
  /\ Claimable(t.row)
  /\ Exhausted(t.row) \/ ~ Deliverable(t.row)
  /\ GiveUp(t.row)
  /\ tasks' = tasks \ {t}
  /\ UNCHANGED <<now, delivery, late, accepted>>

TakeClaim(w, t) ==
  LET c == t.row IN
  /\ delivery[w] = NoClaim
  /\ outbox[c].status \in Relayable
  /\ ~ NobodyToServe
  /\ Claimable(c) /\ ~ Exhausted(c) /\ Deliverable(c)
  /\ outbox' = [outbox EXCEPT ![c].status = "claimed", ![c].attempts = @ + 1,
                              ![c].token = outbox[c].attempts + 1,
                              ![c].lease = now + Lease, ![c].retryAt = Never]
  /\ delivery' = [delivery EXCEPT ![w] = [step |-> "sending", row |-> c,
                                          token |-> outbox[c].attempts + 1,
                                          lease |-> now + Lease, sender |-> t.sender]]
  /\ tasks' = tasks \ {t}
  /\ UNCHANGED <<now, authority, flow, challenge, late, accepted>>

\* The provider takes the code and says so; or the call fails, which the
\* provider may have taken all the same.
Send(w) ==
  /\ delivery[w].step = "sending"
  /\ \/ /\ accepted' = accepted \union {delivery[w].row}
        /\ \E s \in {"accepted", "refused"} : delivery' = [delivery EXCEPT ![w].step = s]
     \/ /\ delivery' = [delivery EXCEPT ![w].step = "refused"]
        /\ UNCHANGED accepted
  /\ UNCHANGED <<now, authority, flow, challenge, outbox, tasks, late>>

HoldsClaim(w) == /\ outbox[delivery[w].row].status = "claimed"
                 /\ outbox[delivery[w].row].token = delivery[w].token

\* Another worker took the row over, or it was fenced: the outcome is dropped.
FinishStale(w) ==
  /\ delivery[w].step \in {"accepted", "refused"}
  /\ ~ HoldsClaim(w)
  /\ delivery' = [delivery EXCEPT ![w] = NoClaim]
  /\ UNCHANGED <<now, authority, flow, challenge, outbox, tasks, late, accepted>>

FinishFenced(w) ==
  /\ delivery[w].step \in {"accepted", "refused"}
  /\ HoldsClaim(w)
  /\ NobodyToServe
  /\ FenceUnavailable(delivery[w].row)
  /\ delivery' = [delivery EXCEPT ![w] = NoClaim]
  /\ UNCHANGED <<now, tasks, late, accepted>>

\* The provider has the code: it becomes the active one, in the place of the
\* code delivered before, and the flow is bound to it.
Activated(c, f) ==
  LET deadline == Least(now + ChallengeTTL, flow[f].expires) IN
  /\ challenge' = [d \in Challenges |->
       IF d = c THEN [state |-> "active", expires |-> deadline]
       ELSE IF challenge[d].state = "active" THEN [challenge[d] EXCEPT !.state = "superseded"]
       ELSE challenge[d]]
  /\ authority' = [authority EXCEPT !.activeUntil = deadline]

FinishSent(w, f) ==
  LET c == delivery[w].row IN
  /\ delivery[w].step = "accepted"
  /\ HoldsClaim(w)
  /\ MayServe(f)
  /\ IF c \in InState("pending_delivery") THEN Activated(c, f) ELSE UNCHANGED <<challenge, authority>>
  /\ outbox' = [outbox EXCEPT ![c].status = "sent", ![c].token = 0, ![c].lease = Never]
  /\ flow' = [flow EXCEPT ![f].state = "code_sent", ![f].challenge = c]
  /\ delivery' = [delivery EXCEPT ![w] = NoClaim]
  /\ UNCHANGED <<now, tasks, late, accepted>>

RetryDelay(n) == Least(RetryMax, RetryBase * 2 ^ (IF n - 1 < MaxSends - 1 THEN n - 1 ELSE MaxSends - 1))

FinishRefused(w) ==
  LET c == delivery[w].row IN
  /\ delivery[w].step = "refused"
  /\ HoldsClaim(w)
  /\ ~ NobodyToServe
  /\ \/ /\ Exhausted(c)
        /\ GiveUp(c)
     \/ /\ ~ Exhausted(c)
        /\ outbox' = [outbox EXCEPT ![c].status = "failed", ![c].token = 0, ![c].lease = Never,
                                    ![c].retryAt = now + RetryDelay(outbox[c].attempts)]
        /\ UNCHANGED <<authority, flow, challenge>>
  /\ delivery' = [delivery EXCEPT ![w] = NoClaim]
  /\ UNCHANGED <<now, tasks, late, accepted>>

\* A process dies: a listed delivery, a claim's owner or a late count is gone.
CrashTask(t) == /\ t \in tasks
                /\ tasks' = tasks \ {t}
                /\ UNCHANGED <<now, authority, flow, challenge, outbox, delivery, late, accepted>>
CrashWorker(w) == /\ delivery[w] # NoClaim
                  /\ delivery' = [delivery EXCEPT ![w] = NoClaim]
                  /\ UNCHANGED <<now, authority, flow, challenge, outbox, tasks, late, accepted>>

Tick == /\ now < MaxTime
        /\ now' = now + 1
        /\ UNCHANGED <<authority, flow, challenge, outbox, tasks, delivery, late, accepted>>

Browser(f) == \/ \E c \in Challenges \union {NoCode} :
                   \/ \E channel \in Channels : Start(f, c, channel)
                   \/ Resend(f, c)
                   \/ VerifyRight(f, c)
                   \/ VerifyWrong(f, c)
              \/ \E r \in Requests : VerifyExpired(f, r)
              \/ Cancel(f)
              \/ Complete(f)
Run(t) == Decline(t) \/ DeclineFenced(t) \/ DeclineVoid(t) \/ \E w \in Workers : TakeClaim(w, t)
Finish(w) == \/ FinishStale(w) \/ FinishFenced(w) \/ FinishRefused(w)
             \/ \E f \in Flows : FinishSent(w, f)

OtpNext == \/ \E f \in Flows : Browser(f) \/ Purge(f)
           \/ \E r \in Requests : CountLate(r)
           \/ \E c \in Challenges : List(c)
           \/ \E t \in tasks : Run(t) \/ CrashTask(t)
           \/ \E w \in Workers : Send(w) \/ Finish(w) \/ CrashWorker(w)
           \/ Tick

OtpSpec == OtpInit /\ [][OtpNext]_otpVars

---------------------------------------------------------------------------
\* Every row has one of the shapes its table allows.
OtpTypeOK ==
  /\ now \in 1 .. MaxTime
  /\ authority \in AuthorityRow
  /\ flow \in [Flows -> FlowRow]
  /\ challenge \in [Challenges -> ChallengeRow]
  /\ outbox \in [Challenges -> OutboxRow]
  /\ tasks \subseteq Task
  /\ delivery \in [Workers -> Claim \union {NoClaim}]
  /\ late \in [Requests -> [step : {"counting"}, row : AuthorityRow, at : Nat] \union {NotLate}]
  /\ accepted \subseteq Challenges

\* No request ever meets the graph that _pending_intent refuses as invalid: a
\* row waits for delivery exactly while its challenge is staged, and there is
\* at most one staged and one active challenge.
StagedGraphIsValid ==
  /\ \A c \in Challenges :
       outbox[c].status \in Relayable <=> challenge[c].state = "pending_delivery"
  /\ \A s \in {"active", "pending_delivery"} : \A c, d \in InState(s) : c = d

\* A code that verifies, or ever did, was taken by the provider: nobody can
\* pass with a code that was never sent out.
UsableCodeWasAccepted ==
  \A c \in Challenges : challenge[c].state \in {"active", "superseded", "consumed"} =>
                          c \in accepted /\ outbox[c].status = "sent"

\* The browser's one flow is bound to the active code, whatever resends,
\* retries and give-ups went before: the code in the student's hand works.
ActiveCodeIsBound ==
  \A f \in CurrentFlows : /\ CurrentFlows = {f}
                          /\ Active # NoCode /\ flow[f].state \in Delivering => Bound(f)

\* A code does not outlive the flow it was delivered for.
CodeDiesWithFlow ==
  \A f \in CurrentFlows : \A c \in InState("active") :
    flow[f].state \in Delivering => challenge[c].expires <= flow[f].expires

\* While a lease runs, nobody takes the row over: it is the owner's, or fenced.
LeaseIsRespected ==
  \A w \in Workers : delivery[w] # NoClaim /\ delivery[w].lease > now =>
                       HoldsClaim(w) \/ outbox[delivery[w].row].status = "void"

\* A code becomes active only for a flow that is alive at that very moment,
\* however long the provider took.
ActivationIsAuthorized ==
  [][\A c \in Challenges :
       challenge[c].state # "active" /\ challenge'[c].state = "active" =>
         \E f \in Flows : /\ flow[f].state \in Delivering /\ flow[f].expires > now
                          /\ flow'[f].challenge = c]_otpVars

\* A resend never takes the old code away before the new one is delivered: the
\* active code goes when it is used, replaced, expired, or its flow is gone.
OldCodeKeepsWorking ==
  [][\A c \in InState("active") :
       \/ challenge'[c].state \in {"active", "consumed"}
       \/ challenge[c].expires <= now
       \/ \E d \in Challenges \ {c} : challenge'[d].state = "active"
       \/ \A f \in Flows : MayServe(f) => flow'[f].state \notin Delivering]_otpVars

\* A lockout is served: nobody passes before it is over, and no request, resend
\* or new flow shortens it (a late count can: AttemptsCountUp).
LockoutHolds ==
  [][authority.locked > now =>
       /\ late' = late => authority'.locked >= authority.locked
       /\ \A c \in Challenges : challenge[c].state = "active" => challenge'[c].state # "consumed"]_otpVars

\* A late delivery never revokes the proof of a recovery that was verified.
ProofSurvivesDelivery ==
  [][delivery' # delivery \/ (tasks' # tasks /\ tasks' \subseteq tasks) =>
       \A f \in Flows : flow[f].state = "verified" => flow'[f] = flow[f]]_otpVars

\* otp_purpose_authorities: the row is serialized before every verification
\* decision, so the count of misses goes up by one or starts again.
AttemptsCountUp ==
  [][authority'.failed \in {0, 1, authority.failed, authority.failed + 1}]_otpVars

\* A code leaves on the channel its destination belongs to.
RightChannel ==
  \A w \in Workers : delivery[w] # NoClaim => delivery[w].sender = outbox[delivery[w].row].channel

\* What the workers do for certain: they keep listing the rows, the provider
\* answers, time passes, and not every listed delivery dies before it runs.
FairOtpSpec == /\ OtpSpec
               /\ WF_otpVars(Tick)
               /\ \A c \in Challenges : /\ WF_otpVars(List(c))
                                         /\ SF_otpVars(\E t \in tasks : t.row = c /\ Run(t))
               /\ \A w \in Workers : WF_otpVars(Send(w)) /\ WF_otpVars(Finish(w))

\* Every staged code is in the end delivered or void.
EveryCodeSettles ==
  \A c \in Challenges : outbox[c].status \in Relayable ~> outbox[c].status \in {"sent", "void"}
=============================================================================
