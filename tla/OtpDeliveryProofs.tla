------------------------- MODULE OtpDeliveryProofs -------------------------
(* One-time codes for any number of flows, challenges, workers and late     *)
(* requests, and any budgets, deadlines and retry times.                    *)
EXTENDS OtpDelivery, FiniteSetTheorems, TLAPS

\* An authority that is not locked has an attempt left.
OpenBudget(a) == a \in AuthorityRow /\ (a.locked = Never => a.failed < MaxAttempts)

\* The authority, and every row a request read before it committed.
Budgets == /\ OpenBudget(authority)
           /\ \A r \in Requests : late[r] # NotLate =>
                /\ late[r] = [step |-> "counting", row |-> late[r].row, at |-> late[r].at]
                /\ OpenBudget(late[r].row) /\ late[r].row.locked = Never /\ late[r].at \in Nat
           /\ late = [r \in Requests |-> late[r]]

\* The graph of flows, challenges and rows, row by row.
Matched == \A c \in Challenges : outbox[c].status \in Relayable <=> challenge[c].state = "pending_delivery"
OneCode == /\ \A c, d \in Challenges : challenge[c].state = "active" /\ challenge[d].state = "active" => c = d
           /\ \A c, d \in Challenges : challenge[c].state = "pending_delivery"
                                       /\ challenge[d].state = "pending_delivery" => c = d
OneFlow == \A f, g \in Flows : flow[f].state \in Current /\ flow[g].state \in Current => f = g
BoundFlow == \A f \in Flows, c \in Challenges :
               flow[f].state \in Delivering /\ challenge[c].state = "active" => flow[f].challenge = c
\* The token of a row was drawn for an attempt that was counted.
CountedRow == {r \in OutboxRow : r.token <= r.attempts}
Graph == /\ flow \in [Flows -> FlowRow] /\ challenge \in [Challenges -> ChallengeRow]
         /\ outbox \in [Challenges -> CountedRow]
         /\ Matched /\ OneCode /\ UsableCodeWasAccepted /\ OneFlow /\ BoundFlow

\* The deliveries under way; what was answered with success was taken.
Claims == /\ now \in 1 .. MaxTime /\ tasks \subseteq Task
          /\ delivery \in [Workers -> Claim \union {NoClaim}] /\ accepted \subseteq Challenges
          /\ \A w \in Workers : delivery[w].step = "accepted" => delivery[w].row \in accepted

OtpInv == Budgets /\ Graph /\ Claims

-----------------------------------------------------------------------------
(* The budgets.                                                             *)

LEMMA RefreshFacts ==
  ASSUME NEW a, OpenBudget(a), NEW t \in Nat
  PROVE  /\ OpenBudget(RefreshLock(a, t))
         /\ RefreshLock(a, t).locked = IF a.locked # Never /\ a.locked <= t THEN Never ELSE a.locked
         /\ ~ IsLocked(a, t) => RefreshLock(a, t).locked = Never
         /\ a.locked > t => IsLocked(a, t) /\ RefreshLock(a, t) = a
<1> USE AuthorityAssumption DEF Never
<1>1. CASE a.locked # Never /\ a.locked <= t
  <2>1. PICK one : one = [a EXCEPT !.failed = 0]
    OBVIOUS
  <2>2. one \in AuthorityRow /\ one.failed = 0
    BY <2>1 DEF OpenBudget, AuthorityRow
  <2>3. PICK two : two = [one EXCEPT !.locked = Never]
    OBVIOUS
  <2>4. two \in AuthorityRow /\ two.failed = 0 /\ two.locked = Never
    BY <2>2, <2>3 DEF AuthorityRow
  <2>5. PICK b : b = [two EXCEPT !.windowFrom = Never]
    OBVIOUS
  <2>6. b \in AuthorityRow /\ b.failed = 0 /\ b.locked = Never
    BY <2>4, <2>5 DEF AuthorityRow
  <2>7. RefreshLock(a, t) = b
    BY <1>1, <2>1, <2>3, <2>5 DEF RefreshLock
  <2> QED BY <1>1, <2>6, <2>7 DEF OpenBudget, IsLocked, AuthorityRow
<1>2. CASE ~ (a.locked # Never /\ a.locked <= t)
  BY <1>2 DEF RefreshLock, OpenBudget, IsLocked, AuthorityRow
<1> QED BY <1>1, <1>2

LEMMA MissFacts ==
  ASSUME NEW a, OpenBudget(a), NEW t \in Nat, ~ IsLocked(a, t)
  PROVE  /\ OpenBudget(CountMiss(a, t))
         /\ CountMiss(a, t).failed \in 1 .. MaxAttempts
         /\ \/ CountMiss(a, t).failed < MaxAttempts /\ CountMiss(a, t).locked = Never
            \/ CountMiss(a, t).locked = t + Lockout
<1> USE AuthorityAssumption DEF Never
<1> DEFINE r == RefreshLock(a, t)
           b == AttemptWindowAt(r, t)
           m == CountMiss(a, t)
<1>1. OpenBudget(r) /\ r.locked = Never
  BY RefreshFacts
<1>2. m = [b EXCEPT !.failed = b.failed + 1,
                    !.locked = IF b.failed + 1 >= MaxAttempts THEN t + Lockout ELSE b.locked]
  BY DEF CountMiss
<1> HIDE DEF r, m
<1>3. b \in AuthorityRow /\ b.locked = Never /\ b.failed < MaxAttempts
  <2>1. CASE r.windowFrom = Never \/ r.windowFrom + AttemptWindow <= t
    <3>1. PICK one : one = [r EXCEPT !.failed = 0]
      OBVIOUS
    <3>2. one \in AuthorityRow /\ one.locked = Never /\ one.failed = 0
      BY <1>1, <3>1 DEF OpenBudget, AuthorityRow
    <3>3. PICK two : two = [one EXCEPT !.windowFrom = t]
      OBVIOUS
    <3>4. two \in AuthorityRow /\ two.locked = Never /\ two.failed = 0
      BY <3>2, <3>3 DEF AuthorityRow
    <3>5. b = two
      BY <2>1, <3>1, <3>3 DEF AttemptWindowAt
    <3> QED BY <3>4, <3>5
  <2>2. CASE ~ (r.windowFrom = Never \/ r.windowFrom + AttemptWindow <= t)
    BY <1>1, <2>2 DEF AttemptWindowAt, OpenBudget
  <2> QED BY <2>1, <2>2
<1> HIDE DEF b
<1> DEFINE n == b.failed + 1
           l == IF b.failed + 1 >= MaxAttempts THEN t + Lockout ELSE b.locked
<1>4. (n < MaxAttempts /\ l = Never) \/ (l = t + Lockout /\ l # Never)
  BY <1>3 DEF AuthorityRow
<1>5. n \in 1 .. MaxAttempts /\ l \in Nat
  BY <1>3 DEF AuthorityRow
<1>6. m = [b EXCEPT !.failed = n, !.locked = l]
  BY <1>2
<1> HIDE DEF n, l
<1>7. PICK one : one = [b EXCEPT !.failed = n]
  OBVIOUS
<1>8. one \in AuthorityRow /\ one.failed = n
  BY <1>3, <1>5, <1>7 DEF AuthorityRow
<1>9. m = [one EXCEPT !.locked = l]
  BY <1>6, <1>7
<1>10. m \in AuthorityRow /\ m.failed = n /\ m.locked = l
  BY <1>5, <1>8, <1>9 DEF AuthorityRow
<1> QED BY <1>4, <1>5, <1>10 DEF OpenBudget, m

LEMMA ResendFacts ==
  ASSUME NEW a, OpenBudget(a), NEW t \in Nat, MayResend(a, t)
  PROVE  OpenBudget(ConsumeResend(a, t)) /\ ConsumeResend(a, t).locked = a.locked
<1> USE AuthorityAssumption DEF Never
<1> DEFINE b == ResendWindowAt(a, t)
<1>1. b \in AuthorityRow /\ b.locked = a.locked /\ b.failed = a.failed
  <2>1. CASE a.resendFrom = Never \/ a.resendFrom + ResendWindow <= t
    <3>1. PICK one : one = [a EXCEPT !.resendFrom = t]
      OBVIOUS
    <3>2. one \in AuthorityRow /\ one.locked = a.locked /\ one.failed = a.failed
      BY <3>1 DEF OpenBudget, AuthorityRow
    <3>3. PICK two : two = [one EXCEPT !.resends = 0]
      OBVIOUS
    <3>4. two \in AuthorityRow /\ two.locked = a.locked /\ two.failed = a.failed
      BY <3>2, <3>3 DEF AuthorityRow
    <3>5. b = two
      BY <2>1, <3>1, <3>3 DEF ResendWindowAt
    <3> QED BY <3>4, <3>5
  <2>2. CASE ~ (a.resendFrom = Never \/ a.resendFrom + ResendWindow <= t)
    BY <2>2 DEF ResendWindowAt, OpenBudget
  <2> QED BY <2>1, <2>2
<1>2. b.resends < MaxResends /\ ConsumeResend(a, t) = [b EXCEPT !.resends = b.resends + 1]
  BY DEF MayResend, ConsumeResend
<1> HIDE DEF b
<1> DEFINE n == b.resends + 1
           m == [b EXCEPT !.resends = n]
<1>3. n \in 0 .. MaxResends
  BY <1>1, <1>2 DEF AuthorityRow
<1> HIDE DEF n
<1>4. m \in AuthorityRow /\ m.locked = b.locked /\ m.failed = b.failed
  BY <1>1, <1>3 DEF AuthorityRow
<1> QED BY <1>1, <1>2, <1>4 DEF OpenBudget, n

LEMMA IssueFacts ==
  ASSUME NEW a, OpenBudget(a), NEW t \in Nat
  PROVE  OpenBudget(NoteIssue(a, t)) /\ NoteIssue(a, t).locked = a.locked
<1> DEFINE one == [a EXCEPT !.issued = TRUE]
           m == [one EXCEPT !.cooldown = t + Cooldown]
<1>1. NoteIssue(a, t) = m
  BY DEF NoteIssue
<1>2. one \in AuthorityRow /\ one.locked = a.locked /\ one.failed = a.failed
  BY DEF OpenBudget, AuthorityRow
<1> HIDE DEF one
<1>3. t + Cooldown \in Nat
  BY AuthorityAssumption
<1>4. m \in AuthorityRow /\ m.locked = one.locked /\ m.failed = one.failed
  BY <1>2, <1>3 DEF AuthorityRow
<1> QED BY <1>1, <1>2, <1>4 DEF OpenBudget

LEMMA ForgiveFacts ==
  ASSUME NEW a, OpenBudget(a)
  PROVE  OpenBudget(Forgive(a))
<1> USE AuthorityAssumption DEF Never
<1>1. PICK one : one = [a EXCEPT !.failed = 0]
  OBVIOUS
<1>2. one \in AuthorityRow /\ one.failed = 0
  BY <1>1 DEF OpenBudget, AuthorityRow
<1>3. PICK two : two = [one EXCEPT !.locked = Never]
  OBVIOUS
<1>4. two \in AuthorityRow /\ two.failed = 0
  BY <1>2, <1>3 DEF AuthorityRow
<1>5. PICK three : three = [two EXCEPT !.windowFrom = Never]
  OBVIOUS
<1>6. three \in AuthorityRow /\ three.failed = 0
  BY <1>4, <1>5 DEF AuthorityRow
<1>7. Forgive(a) = [three EXCEPT !.activeUntil = Never]
  BY <1>1, <1>3, <1>5 DEF Forgive
<1>8. Forgive(a) \in AuthorityRow /\ Forgive(a).failed = 0
  BY <1>6, <1>7 DEF AuthorityRow
<1> QED BY <1>8 DEF OpenBudget

\* The deadline of the active code changes no budget.
LEMMA DeadlineFacts ==
  ASSUME NEW a, OpenBudget(a), NEW d \in Nat
  PROVE  /\ OpenBudget([a EXCEPT !.activeUntil = d])
         /\ [a EXCEPT !.activeUntil = d].locked = a.locked
  BY DEF OpenBudget, AuthorityRow

\* A late count writes the columns it changes: the ones it leaves belong to
\* whoever was served in between.
LEMMA LateFacts ==
  ASSUME OpenBudget(authority), NEW old, OpenBudget(old), old.locked = Never, NEW t \in Nat
  PROVE  OpenBudget(Written(old, CountMiss(old, t)))
<1> USE AuthorityAssumption DEF Never
<1> DEFINE new == CountMiss(old, t)
           m == Written(old, new)
<1>1. ~ IsLocked(old, t)
  BY DEF IsLocked, RefreshLock, OpenBudget, AuthorityRow
<1>2. /\ new \in AuthorityRow /\ new.failed \in 1 .. MaxAttempts
      /\ (new.failed < MaxAttempts /\ new.locked = Never) \/ new.locked = t + Lockout
  BY <1>1, MissFacts DEF OpenBudget
<1>3. old.failed < MaxAttempts /\ old \in AuthorityRow
  BY DEF OpenBudget
<1> HIDE DEF new
<1>4. m = [k \in DOMAIN authority |-> IF new[k] # old[k] THEN new[k] ELSE authority[k]]
  BY DEF Written
<1>5. DOMAIN authority = {"failed", "locked", "windowFrom", "issued", "cooldown", "resendFrom",
                          "resends", "activeUntil"}
  BY DEF OpenBudget, AuthorityRow
<1> HIDE DEF m
<1>6. m = [failed |-> m.failed, locked |-> m.locked, windowFrom |-> m.windowFrom,
           issued |-> m.issued, cooldown |-> m.cooldown, resendFrom |-> m.resendFrom,
           resends |-> m.resends, activeUntil |-> m.activeUntil]
  BY <1>4, <1>5
<1>7. /\ m.failed = IF new.failed # old.failed THEN new.failed ELSE authority.failed
      /\ m.locked = IF new.locked # old.locked THEN new.locked ELSE authority.locked
      /\ m.windowFrom \in {new.windowFrom, authority.windowFrom}
      /\ m.issued \in {new.issued, authority.issued}
      /\ m.cooldown \in {new.cooldown, authority.cooldown}
      /\ m.resendFrom \in {new.resendFrom, authority.resendFrom}
      /\ m.resends \in {new.resends, authority.resends}
      /\ m.activeUntil \in {new.activeUntil, authority.activeUntil}
  BY <1>4, <1>5
<1>8. /\ m.failed \in 0 .. MaxAttempts /\ m.locked \in Nat /\ m.windowFrom \in Nat
      /\ m.issued \in BOOLEAN /\ m.cooldown \in Nat /\ m.resendFrom \in Nat
      /\ m.resends \in 0 .. MaxResends /\ m.activeUntil \in Nat
  BY <1>2, <1>7 DEF OpenBudget, AuthorityRow
<1>9. m \in AuthorityRow
  BY <1>6, <1>8 DEF AuthorityRow
<1>10. m.locked = Never => m.failed < MaxAttempts
  BY <1>2, <1>3, <1>7 DEF OpenBudget, AuthorityRow
<1>11. OpenBudget(m)
  BY <1>9, <1>10 DEF OpenBudget
<1> QED BY <1>11 DEF m, new

-----------------------------------------------------------------------------
(* What a helper does to the graph.                                         *)

LEMMA InvFacts ==
  ASSUME OtpInv
  PROVE  /\ now \in Nat /\ now \in 1 .. MaxTime /\ OpenBudget(authority)
         /\ flow \in [Flows -> FlowRow] /\ challenge \in [Challenges -> ChallengeRow]
         /\ outbox \in [Challenges -> CountedRow] /\ outbox \in [Challenges -> OutboxRow]
         /\ Matched /\ OneCode /\ UsableCodeWasAccepted /\ OneFlow /\ BoundFlow
         /\ delivery \in [Workers -> Claim \union {NoClaim}] /\ accepted \subseteq Challenges
         /\ tasks \subseteq Task /\ NoCode \notin Challenges
  BY DeliveryAssumption DEF OtpInv, Budgets, Graph, Claims, CountedRow

\* The code that counts and the one on its way, if there is one.
LEMMA TheCodes ==
  ASSUME OneCode, NoCode \notin Challenges
  PROVE  /\ Active \in Challenges \union {NoCode} /\ Pending \in Challenges \union {NoCode}
         /\ \A c \in Challenges : challenge[c].state = "active" <=> c = Active
         /\ \A c \in Challenges : challenge[c].state = "pending_delivery" <=> c = Pending
<1>1. ASSUME NEW s \in {"active", "pending_delivery"}
      PROVE  /\ TheOne(InState(s)) \in Challenges \union {NoCode}
             /\ \A c \in Challenges : challenge[c].state = s <=> c = TheOne(InState(s))
  <2>1. InState(s) \subseteq Challenges /\ \A c \in Challenges : c \in InState(s) <=> challenge[c].state = s
    BY DEF InState
  <2>2. CASE InState(s) = {}
    BY <2>1, <2>2 DEF TheOne
  <2>3. CASE InState(s) # {}
    <3>1. TheOne(InState(s)) \in InState(s)
      BY <2>3 DEF TheOne
    <3>2. \A c, d \in InState(s) : c = d
      BY <2>1 DEF OneCode
    <3> QED BY <2>1, <3>1, <3>2
  <2> QED BY <2>2, <2>3
<1> QED BY <1>1 DEF Active, Pending

\* The stated properties, from the graph row by row.
LEMMA GraphSays ==
  ASSUME OtpInv
  PROVE  StagedGraphIsValid /\ ActiveCodeIsBound
<1>1. Matched /\ OneCode /\ OneFlow /\ BoundFlow /\ NoCode \notin Challenges
  BY InvFacts
<1>2. StagedGraphIsValid
  BY <1>1 DEF Matched, OneCode, StagedGraphIsValid, InState
<1>3. ActiveCodeIsBound
  <2> SUFFICES ASSUME NEW f \in CurrentFlows
               PROVE  /\ CurrentFlows = {f}
                      /\ Active # NoCode /\ flow[f].state \in Delivering => Bound(f)
    BY DEF ActiveCodeIsBound
  <2>1. CurrentFlows = {f}
    BY <1>1 DEF CurrentFlows, OneFlow
  <2>2. Active # NoCode => Active \in Challenges /\ challenge[Active].state = "active"
    BY <1>1, TheCodes
  <2>3. f \in Flows
    BY DEF CurrentFlows
  <2> QED BY <1>1, <2>1, <2>2, <2>3 DEF BoundFlow, Bound
<1> QED BY <1>2, <1>3

LEMMA SameGraph ==
  ASSUME OtpInv, UNCHANGED <<flow, challenge, outbox>>, accepted \subseteq accepted'
  PROVE  Graph'
  BY InvFacts DEF Graph, Matched, OneCode, UsableCodeWasAccepted, OneFlow, BoundFlow

LEMMA SameBudgets ==
  ASSUME OtpInv, UNCHANGED late, OpenBudget(authority')
  PROVE  Budgets'
  BY DEF OtpInv, Budgets, OpenBudget

LEMMA SameClaims ==
  ASSUME OtpInv, UNCHANGED <<now, delivery, accepted>>, tasks' \subseteq Task
  PROVE  Claims'
  BY DEF OtpInv, Claims

\* A worker that lets go of its claim.
LEMMA DropClaim ==
  ASSUME OtpInv, NEW w \in Workers, delivery' = [delivery EXCEPT ![w] = NoClaim],
         UNCHANGED <<now, tasks, accepted>>
  PROVE  Claims'
  BY DEF OtpInv, Claims, NoClaim

LEMMA VoidFacts ==
  ASSUME NEW r \in OutboxRow
  PROVE  VoidRow(r) \in CountedRow /\ VoidRow(r).status = "void"
<1>1. PICK a : a = [r EXCEPT !.status = "void"]
  OBVIOUS
<1>2. a \in OutboxRow /\ a.status = "void"
  BY <1>1 DEF OutboxRow
<1>3. PICK b : b = [a EXCEPT !.token = 0]
  OBVIOUS
<1>4. b \in OutboxRow /\ b.status = "void" /\ b.token = 0
  BY <1>2, <1>3, DeliveryAssumption DEF OutboxRow
<1>5. PICK d : d = [b EXCEPT !.lease = Never]
  OBVIOUS
<1>6. d \in OutboxRow /\ d.status = "void" /\ d.token = 0
  BY <1>4, <1>5 DEF OutboxRow, Never
<1>7. VoidRow(r) = [d EXCEPT !.retryAt = Never]
  BY <1>1, <1>3, <1>5 DEF VoidRow
<1> QED BY <1>6, <1>7, DeliveryAssumption DEF OutboxRow, CountedRow, Never

\* A fence leaves no code that counts or is on its way.
LEMMA FenceFacts ==
  ASSUME OtpInv, NEW target, target \subseteq Challenges, NEW a, OpenBudget(a), Fence(target, a),
         UNCHANGED accepted, flow' \in [Flows -> FlowRow], OneFlow'
  PROVE  /\ Graph' /\ OpenBudget(authority') /\ authority'.locked = a.locked
         /\ \A c \in Challenges : challenge'[c].state \notin {"active", "pending_delivery"}
         /\ \A c \in Challenges : challenge'[c].state = "consumed" => challenge[c].state = "consumed"
<1>1. /\ challenge' = [c \in Challenges |-> IF c \in Usable THEN [challenge[c] EXCEPT !.state = "void"]
                                            ELSE challenge[c]]
      /\ outbox' = [c \in Challenges |-> IF c \in Usable \union target /\ outbox[c].status \in Relayable
                                         THEN VoidRow(outbox[c]) ELSE outbox[c]]
      /\ authority' = IF Usable = {} THEN a ELSE [a EXCEPT !.activeUntil = Never]
  BY DEF Fence
<1>2. OpenBudget(authority') /\ authority'.locked = a.locked
  BY <1>1, DeadlineFacts DEF Never
<1>3. challenge' \in [Challenges -> ChallengeRow]
  BY <1>1, InvFacts DEF ChallengeRow
<1>4. outbox' \in [Challenges -> CountedRow]
  BY <1>1, InvFacts, VoidFacts
<1>5. \A c \in Challenges :
        /\ challenge[c].state \in {"active", "pending_delivery"} => challenge'[c].state = "void"
        /\ challenge[c].state \notin {"active", "pending_delivery"} => challenge'[c].state = challenge[c].state
  BY <1>1, InvFacts DEF Usable, ChallengeRow
<1>6. \A c \in Challenges :
        /\ outbox[c].status \in Relayable => outbox'[c].status = "void"
        /\ outbox[c].status \notin Relayable => outbox'[c].status = outbox[c].status
  <2>1. \A c \in Challenges : outbox[c].status \in Relayable => c \in Usable
    BY InvFacts DEF Matched, Usable
  <2> QED BY <1>1, <2>1, InvFacts, VoidFacts
<1>7. Matched' /\ OneCode' /\ BoundFlow'
  BY <1>5, <1>6 DEF Matched, OneCode, BoundFlow, Relayable
<1>8. UsableCodeWasAccepted'
  BY <1>5, <1>6, InvFacts DEF UsableCodeWasAccepted, Relayable
<1> QED BY <1>2, <1>3, <1>4, <1>5, <1>7, <1>8 DEF Graph

LEMMA UnavailableFacts ==
  ASSUME OtpInv, NEW c \in Challenges, FenceUnavailable(c), UNCHANGED accepted
  PROVE  /\ Graph' /\ OpenBudget(authority') /\ authority'.locked = authority.locked
         /\ \A d \in Challenges : challenge'[d].state \notin {"active", "pending_delivery"}
         /\ \A d \in Challenges : challenge'[d].state = "consumed" => challenge[d].state = "consumed"
         /\ \A f \in Flows : IF flow[f].state \in Delivering THEN flow'[f].state = "expired"
                             ELSE flow'[f] = flow[f]
<1>1. /\ Fence({c}, authority)
      /\ flow' = [f \in Flows |-> IF flow[f].state \in Delivering
                                  THEN [flow[f] EXCEPT !.state = "expired"] ELSE flow[f]]
  BY DEF FenceUnavailable
<1>2. flow' \in [Flows -> FlowRow]
  BY <1>1, InvFacts DEF FlowRow
<1>3. \A f \in Flows : IF flow[f].state \in Delivering THEN flow'[f].state = "expired"
                       ELSE flow'[f] = flow[f]
  BY <1>1, InvFacts DEF FlowRow
<1>4. OneFlow'
  BY <1>3, InvFacts DEF OneFlow, Current, Delivering
<1> QED BY <1>1, <1>2, <1>3, <1>4, InvFacts, FenceFacts

\* A candidate that is given up leaves the code delivered before it.
LEMMA GiveUpFacts ==
  ASSUME OtpInv, NEW c \in Challenges, outbox[c].status \in Relayable, GiveUp(c), UNCHANGED accepted
  PROVE  /\ Graph' /\ OpenBudget(authority') /\ authority'.locked = authority.locked
         /\ \A d \in Challenges : challenge'[d] = IF d = c THEN [challenge[c] EXCEPT !.state = "void"]
                                                  ELSE challenge[d]
         /\ challenge[c].state = "pending_delivery"
         /\ \A f \in Flows : flow[f].state \notin Delivering => flow'[f] = flow[f]
<1>1. challenge[c].state = "pending_delivery" /\ c = Pending /\ c # Active /\ c \in Usable
  BY InvFacts, TheCodes DEF Matched, Usable
<1>2. /\ outbox' = [outbox EXCEPT ![c] = VoidRow(outbox[c])]
      /\ challenge' = [challenge EXCEPT ![c].state = "void"]
      /\ authority' = authority
      /\ flow' = Reconciled
  BY <1>1 DEF GiveUp
<1>3. challenge' \in [Challenges -> ChallengeRow] /\ outbox' \in [Challenges -> CountedRow]
  BY <1>2, InvFacts, VoidFacts DEF ChallengeRow
<1>4. /\ challenge'[c] = [challenge[c] EXCEPT !.state = "void"] /\ challenge'[c].state = "void"
      /\ outbox'[c].status = "void"
      /\ \A d \in Challenges \ {c} : challenge'[d] = challenge[d] /\ outbox'[d] = outbox[d]
  BY <1>2, InvFacts, VoidFacts DEF ChallengeRow
<1>5. /\ Active \in Challenges \union {NoCode}
      /\ \A d \in Challenges : challenge[d].state = "active" <=> d = Active
  BY InvFacts, TheCodes
<1>6. flow' \in [Flows -> FlowRow]
  <2>1. ASSUME NEW f \in Flows
        PROVE  /\ [flow[f] EXCEPT !.state = "pending", !.challenge = NoCode] \in FlowRow
               /\ [flow[f] EXCEPT !.state = "code_sent", !.challenge = Active] \in FlowRow
    <3>1. \A s \in {"pending", "code_sent"} : [flow[f] EXCEPT !.state = s] \in FlowRow
      BY InvFacts DEF FlowRow, Current, Delivering
    <3>2. \A r \in FlowRow, x \in Challenges \union {NoCode} : [r EXCEPT !.challenge = x] \in FlowRow
      BY DEF FlowRow
    <3>3. /\ [[flow[f] EXCEPT !.state = "pending"] EXCEPT !.challenge = NoCode] \in FlowRow
          /\ [[flow[f] EXCEPT !.state = "code_sent"] EXCEPT !.challenge = Active] \in FlowRow
      BY <1>5, <3>1, <3>2
    <3> QED BY <3>3
  <2> QED BY <1>2, <2>1, InvFacts DEF Reconciled
<1>7. \A f \in Flows :
        /\ flow[f].state \notin Delivering => flow'[f] = flow[f]
        /\ flow[f].state \in Delivering => flow'[f].state \in {"pending", "code_sent"}
        /\ flow[f].state \in Delivering /\ Active # NoCode => flow'[f].challenge = Active
  <2>1. ASSUME NEW f \in Flows
        PROVE  /\ [flow[f] EXCEPT !.state = "pending", !.challenge = NoCode].state = "pending"
               /\ [flow[f] EXCEPT !.state = "code_sent", !.challenge = Active].state = "code_sent"
               /\ [flow[f] EXCEPT !.state = "code_sent", !.challenge = Active].challenge = Active
    BY InvFacts DEF FlowRow
  <2> QED BY <1>2, <2>1 DEF Reconciled
<1>8. OneFlow'
  BY <1>7, InvFacts DEF OneFlow, Current, Delivering
<1>9. BoundFlow'
  <2> SUFFICES ASSUME NEW f \in Flows, NEW d \in Challenges,
                      flow'[f].state \in Delivering, challenge'[d].state = "active"
               PROVE  flow'[f].challenge = d
    BY DEF BoundFlow
  <2>1. d # c /\ challenge[d].state = "active"
    BY <1>4
  <2>2. d = Active /\ Active # NoCode
    BY <1>5, <2>1, InvFacts
  <2> QED BY <1>7, <2>2
<1>10. Matched' /\ OneCode'
  <2>1. \A d \in Challenges : challenge'[d].state = IF d = c THEN "void" ELSE challenge[d].state
    BY <1>4
  <2>2. \A d \in Challenges : outbox'[d].status = IF d = c THEN "void" ELSE outbox[d].status
    BY <1>4
  <2>3. Matched'
    BY <2>1, <2>2, InvFacts DEF Matched, Relayable
  <2>4. OneCode'
    BY <2>1, InvFacts DEF OneCode
  <2> QED BY <2>3, <2>4
<1>11. UsableCodeWasAccepted'
  BY <1>4, InvFacts DEF UsableCodeWasAccepted
<1>12. \A d \in Challenges : challenge'[d] = IF d = c THEN [challenge[c] EXCEPT !.state = "void"]
                                             ELSE challenge[d]
  BY <1>4
<1> QED BY <1>1, <1>2, <1>3, <1>6, <1>7, <1>8, <1>9, <1>10, <1>11, <1>12, InvFacts DEF Graph

\* A new code is staged beside the one that counts.
LEMMA StageFacts ==
  ASSUME OtpInv, NEW c \in InState("none"), Pending = NoCode, NEW d \in Nat, NEW ch \in {"mobile", "email"},
         Stage(c, d, ch), UNCHANGED accepted, flow' \in [Flows -> FlowRow], OneFlow', BoundFlow'
  PROVE  Graph'
<1>1. /\ c \in Challenges /\ challenge[c].state = "none"
      /\ \A x \in Challenges : challenge[x].state # "pending_delivery"
  BY InvFacts, TheCodes DEF InState
<1> DEFINE row == [FreshRow EXCEPT !.status = "pending", !.channel = ch]
<1>2. /\ challenge' = [challenge EXCEPT ![c] = [state |-> "pending_delivery", expires |-> d]]
      /\ outbox' = [outbox EXCEPT ![c] = row]
  BY DEF Stage
<1>3. row \in CountedRow /\ row.status = "pending"
  <2>1. FreshRow \in OutboxRow /\ FreshRow.token = 0 /\ FreshRow.attempts = 0
    BY DeliveryAssumption DEF FreshRow, OutboxRow, Relayable, Never
  <2>2. PICK one : one = [FreshRow EXCEPT !.status = "pending"]
    OBVIOUS
  <2>3. one \in OutboxRow /\ one.status = "pending" /\ one.token = 0 /\ one.attempts = 0
    BY <2>1, <2>2 DEF OutboxRow, Relayable
  <2>4. row = [one EXCEPT !.channel = ch]
    BY <2>2
  <2>5. row \in OutboxRow /\ row.status = "pending" /\ row.token = 0 /\ row.attempts = 0
    BY <2>3, <2>4 DEF OutboxRow
  <2> HIDE DEF row
  <2>6. row.token <= row.attempts
    BY <2>5
  <2> QED BY <2>5, <2>6 DEF CountedRow
<1> HIDE DEF row
<1>4. challenge' \in [Challenges -> ChallengeRow] /\ outbox' \in [Challenges -> CountedRow]
  BY <1>2, <1>3, InvFacts DEF ChallengeRow
<1>5. /\ challenge'[c].state = "pending_delivery" /\ outbox'[c].status = "pending"
      /\ \A x \in Challenges \ {c} : challenge'[x] = challenge[x] /\ outbox'[x] = outbox[x]
  BY <1>1, <1>2, <1>3, InvFacts
<1>6. Matched' /\ OneCode'
  BY <1>1, <1>5, InvFacts DEF Matched, OneCode, Relayable
<1>7. UsableCodeWasAccepted'
  BY <1>5, InvFacts DEF UsableCodeWasAccepted
<1> QED BY <1>4, <1>6, <1>7 DEF Graph

-----------------------------------------------------------------------------
(* What a step promises.                                                    *)

Activates == \A c \in Challenges :
  challenge[c].state # "active" /\ challenge'[c].state = "active" =>
    \E f \in Flows : /\ flow[f].state \in Delivering /\ flow[f].expires > now
                     /\ flow'[f].challenge = c
KeepsOldCode == \A c \in InState("active") :
  \/ challenge'[c].state \in {"active", "consumed"}
  \/ challenge[c].expires <= now
  \/ \E d \in Challenges \ {c} : challenge'[d].state = "active"
  \/ \A f \in Flows : MayServe(f) => flow'[f].state \notin Delivering
ServesLockout == authority.locked > now =>
  /\ late' = late => authority'.locked >= authority.locked
  /\ \A c \in Challenges : challenge[c].state = "active" => challenge'[c].state # "consumed"
KeepsProof == delivery' # delivery \/ (tasks' # tasks /\ tasks' \subseteq tasks) =>
  \A f \in Flows : flow[f].state = "verified" => flow'[f] = flow[f]
Promises == Activates /\ KeepsOldCode /\ ServesLockout /\ KeepsProof

\* A step that touches neither the code that counts nor the lockout.
LEMMA ActiveStays ==
  ASSUME OtpInv,
         \A c \in Challenges : challenge'[c].state = "active" <=> challenge[c].state = "active",
         authority.locked > now /\ late' = late => authority'.locked >= authority.locked,
         \/ delivery' = delivery /\ tasks \subseteq tasks'
         \/ \A f \in Flows : flow[f].state = "verified" => flow'[f] = flow[f]
  PROVE  Promises
<1>1. Activates /\ KeepsOldCode /\ ServesLockout
  BY DEF Activates, KeepsOldCode, ServesLockout, InState
<1>2. KeepsProof
  <2>1. tasks' \subseteq tasks /\ tasks \subseteq tasks' => tasks' = tasks
    OBVIOUS
  <2> QED BY <2>1 DEF KeepsProof
<1> QED BY <1>1, <1>2 DEF Promises

LEMMA RetireFacts ==
  ASSUME OtpInv, NEW f \in Flows, NEW s \in {"consumed", "expired"}, flow' = Retired(f, s)
  PROVE  /\ flow' \in [Flows -> FlowRow] /\ flow'[f].state = s
         /\ \A g \in Flows \ {f} : flow'[g] = flow[g]
         /\ OneFlow'
<1>1. [flow[f] EXCEPT !.state = s] \in FlowRow /\ [flow[f] EXCEPT !.state = s].state = s
  BY InvFacts DEF FlowRow
<1>2. flow' = [flow EXCEPT ![f] = [flow[f] EXCEPT !.state = s]]
  BY DEF Retired
<1>3. /\ flow' \in [Flows -> FlowRow] /\ flow'[f].state = s
      /\ \A g \in Flows \ {f} : flow'[g] = flow[g]
  BY <1>1, <1>2, InvFacts
<1> QED BY <1>3, InvFacts DEF OneFlow, Current, Delivering

-----------------------------------------------------------------------------
(* One lemma per action: the browser's requests.                            *)

\* The flow takes the place of the current one, bound to the code that counts.
LEMMA StartStep ==
  ASSUME OtpInv, NEW f \in Flows, NEW c \in Challenges \union {NoCode}, NEW channel \in Channels,
         Start(f, c, channel)
  PROVE  OtpInv' /\ Promises
<1> USE InvFacts
<1> DEFINE a0 == RefreshLock(authority, now)
           a1 == IF a0.issued THEN ConsumeResend(a0, now) ELSE a0
           issues == ~ CoolingDown(a0, now) /\ ~ IsLocked(a0, now)
           bound == IF Active # NoCode THEN Active ELSE IF issues THEN c ELSE NoCode
           Still == /\ ~ issues /\ authority' = a0 /\ UNCHANGED <<challenge, outbox, tasks>>
           Issues == /\ issues /\ (a0.issued => MayResend(a0, now))
                     /\ authority' = NoteIssue(a1, now)
                     /\ \/ c = Pending /\ c # NoCode /\ UNCHANGED <<challenge, outbox>>
                        \/ /\ Pending = NoCode /\ c \in InState("none")
                           /\ Stage(c, now + ChallengeTTL, channel)
                     /\ tasks' = tasks \union {[row |-> c, sender |-> channel]}
           new == [state |-> "pending", challenge |-> bound, expires |-> now + FlowTTL,
                   channel |-> channel]
<1>1. /\ flow[f].state = "none"
      /\ Still \/ Issues
      /\ flow' = [g \in Flows |-> IF g = f THEN new
                                  ELSE IF g \in CurrentFlows THEN [flow[g] EXCEPT !.state = "consumed"]
                                  ELSE flow[g]]
      /\ UNCHANGED <<now, delivery, late, accepted>>
  BY DEF Start
<1>2. OpenBudget(a0) /\ (authority.locked > now => a0 = authority /\ ~ issues)
  <2>1. authority.locked > now => IsLocked(authority, now) /\ a0 = authority
    BY RefreshFacts
  <2> QED BY <2>1, RefreshFacts
<1>3. /\ Active \in Challenges \union {NoCode} /\ Pending \in Challenges \union {NoCode}
      /\ \A d \in Challenges : challenge[d].state = "active" <=> d = Active
  BY TheCodes
<1>4. channel \in {"mobile", "email"} /\ now + ChallengeTTL \in Nat /\ now + FlowTTL \in Nat
  BY DeliveryAssumption
<1>5. bound \in Challenges \union {NoCode} /\ (Active # NoCode => bound = Active)
  BY <1>3
<1>6. OpenBudget(authority') /\ (Still => authority' = a0)
  <2>1. a0.issued /\ MayResend(a0, now) => OpenBudget(a1)
    BY <1>2, ResendFacts
  <2>2. Issues => OpenBudget(a1)
    BY <1>2, <2>1
  <2>3. Issues => OpenBudget(authority')
    BY <2>2, IssueFacts
  <2> QED BY <1>1, <1>2, <2>3
<1> HIDE DEF a0, a1, issues, bound
<1>7. new \in FlowRow
  BY <1>4, <1>5 DEF FlowRow, Current, Delivering
<1>8. /\ flow' \in [Flows -> FlowRow] /\ flow'[f] = new
      /\ \A g \in Flows \ {f} : flow'[g].state \notin Current
  <2>1. \A g \in Flows : [flow[g] EXCEPT !.state = "consumed"] \in FlowRow
                         /\ [flow[g] EXCEPT !.state = "consumed"].state = "consumed"
    BY DEF FlowRow
  <2> QED BY <1>1, <1>7, <2>1 DEF CurrentFlows, Current, Delivering
<1>9. OneFlow'
  BY <1>8 DEF OneFlow
<1>10. \A d \in Challenges : challenge'[d].state = "active" <=> challenge[d].state = "active"
  BY <1>1 DEF Stage, InState, ChallengeRow
<1>11. BoundFlow'
  <2> SUFFICES ASSUME NEW g \in Flows, NEW d \in Challenges,
                      flow'[g].state \in Delivering, challenge'[d].state = "active"
               PROVE  flow'[g].challenge = d
    BY DEF BoundFlow
  <2>1. g = f
    BY <1>8 DEF Current
  <2>2. d = Active /\ Active # NoCode
    BY <1>3, <1>10
  <2> QED BY <1>5, <1>8, <2>1, <2>2
<1>12. Graph'
  <2>1. CASE UNCHANGED <<challenge, outbox>>
    <3>1. Matched' /\ OneCode' /\ UsableCodeWasAccepted'
      BY <1>1, <2>1 DEF Matched, OneCode, UsableCodeWasAccepted
    <3>2. challenge' \in [Challenges -> ChallengeRow] /\ outbox' \in [Challenges -> CountedRow]
      BY <2>1
    <3> QED BY <1>8, <1>9, <1>11, <3>1, <3>2 DEF Graph
  <2>2. CASE Pending = NoCode /\ c \in InState("none") /\ Stage(c, now + ChallengeTTL, channel)
    BY <1>1, <1>4, <1>8, <1>9, <1>11, <2>2, StageFacts
  <2> QED BY <1>1, <2>1, <2>2
<1>13. tasks \subseteq tasks' /\ tasks' \subseteq Task
  <2>1. Issues => c \in Challenges
    BY <1>3 DEF InState
  <2> QED BY <1>1, <1>4, <2>1 DEF Task
<1>14. Budgets' /\ Claims'
  BY <1>1, <1>6, <1>13, SameBudgets, SameClaims
<1>15. authority.locked > now => authority'.locked >= authority.locked
  BY <1>1, <1>2 DEF OpenBudget, AuthorityRow
<1>16. Promises
  BY <1>1, <1>10, <1>13, <1>15, ActiveStays
<1> QED BY <1>12, <1>14, <1>16 DEF OtpInv

\* A resend leaves the active code alone.
LEMMA ResendStep ==
  ASSUME OtpInv, NEW f \in Flows, NEW c \in Challenges \union {NoCode}, Resend(f, c)
  PROVE  OtpInv' /\ Promises
<1> USE InvFacts
<1> DEFINE a0 == RefreshLock(authority, now)
           deadline == Least(now + ChallengeTTL, flow[f].expires)
           Reuse == c = Pending /\ c # NoCode /\ UNCHANGED outbox
                    /\ challenge' = [challenge EXCEPT ![c].expires = deadline]
           New == Pending = NoCode /\ c \in InState("none") /\ Stage(c, deadline, flow[f].channel)
<1>1. /\ ~ IsLocked(a0, now) /\ MayResend(a0, now)
      /\ authority' = NoteIssue(ConsumeResend(a0, now), now)
      /\ Reuse \/ New
      /\ flow' = IF flow[f].challenge = NoCode THEN [flow EXCEPT ![f].challenge = c] ELSE flow
      /\ tasks' = tasks \union {[row |-> c, sender |-> flow[f].channel]}
      /\ UNCHANGED <<now, delivery, late, accepted>>
  BY DEF Resend
<1>2. OpenBudget(a0) /\ (authority.locked > now => IsLocked(authority, now) /\ a0 = authority)
  BY RefreshFacts
<1>3. OpenBudget(authority') /\ ~ (authority.locked > now)
  BY <1>1, <1>2, ResendFacts, IssueFacts
<1> HIDE DEF a0
<1>4. /\ Pending \in Challenges \union {NoCode}
      /\ \A d \in Challenges : challenge[d].state = "pending_delivery" <=> d = Pending
  BY TheCodes
<1>5. c \in Challenges
  BY <1>1, <1>4 DEF InState
<1>6. deadline \in Nat /\ flow[f].channel \in {"mobile", "email"} /\ flow[f].expires \in Nat
  BY DeliveryAssumption DEF Least, FlowRow
<1> HIDE DEF deadline
<1>7. \A d \in Challenges : challenge'[d].state = "active" <=> challenge[d].state = "active"
  BY <1>1, <1>5 DEF Stage, InState, ChallengeRow
<1>8. /\ flow' \in [Flows -> FlowRow]
      /\ \A g \in Flows : flow'[g].state = flow[g].state
      /\ \A g \in Flows : flow[g].challenge # NoCode => flow'[g].challenge = flow[g].challenge
  <2>1. [flow[f] EXCEPT !.challenge = c] \in FlowRow /\ [flow[f] EXCEPT !.challenge = c].state = flow[f].state
    BY <1>5 DEF FlowRow
  <2> QED BY <1>1, <2>1
<1>9. OneFlow' /\ BoundFlow'
  BY <1>7, <1>8 DEF OneFlow, BoundFlow
<1>10. Graph'
  <2>1. CASE Reuse
    <3>1. /\ challenge' \in [Challenges -> ChallengeRow] /\ outbox' \in [Challenges -> CountedRow]
          /\ \A d \in Challenges : challenge'[d].state = challenge[d].state
          /\ UNCHANGED outbox
      BY <1>6, <2>1 DEF ChallengeRow
    <3>2. Matched' /\ OneCode' /\ UsableCodeWasAccepted'
      BY <1>1, <3>1 DEF Matched, OneCode, UsableCodeWasAccepted
    <3> QED BY <1>8, <1>9, <3>1, <3>2 DEF Graph
  <2>2. CASE New
    BY <1>1, <1>6, <1>8, <1>9, <2>2, StageFacts
  <2> QED BY <1>1, <2>1, <2>2
<1>11. tasks \subseteq tasks' /\ tasks' \subseteq Task
  BY <1>1, <1>5, <1>6 DEF Task
<1>12. Budgets' /\ Claims'
  BY <1>1, <1>3, <1>11, SameBudgets, SameClaims
<1>13. Promises
  BY <1>1, <1>3, <1>7, <1>11, ActiveStays
<1> QED BY <1>10, <1>12, <1>13 DEF OtpInv

\* The code and the flow go together.
LEMMA VerifyRightStep ==
  ASSUME OtpInv, NEW f \in Flows, NEW c \in Challenges \union {NoCode}, VerifyRight(f, c)
  PROVE  OtpInv' /\ Promises
<1> USE InvFacts
<1>1. /\ flow[f].state \in Delivering /\ c = Active /\ c # NoCode /\ c = flow[f].challenge
      /\ ~ IsLocked(authority, now)
      /\ challenge' = [challenge EXCEPT ![c].state = "consumed"]
      /\ authority' = Forgive(authority)
      /\ outbox' = IF outbox[c].status \in Relayable THEN [outbox EXCEPT ![c] = VoidRow(@)] ELSE outbox
      /\ flow' = IF Purpose = "login" THEN Retired(f, "consumed")
                 ELSE [flow EXCEPT ![f].state = "verified", ![f].expires = now + ProofTTL]
      /\ UNCHANGED <<now, tasks, delivery, late, accepted>>
  BY DEF VerifyRight, Verifiable, Bound
<1>2. /\ c \in Challenges /\ challenge[c].state = "active"
      /\ \A d \in Challenges : challenge[d].state = "active" => d = c
  BY <1>1, TheCodes
<1>3. outbox' = outbox
  BY <1>1, <1>2 DEF Matched
<1>4. /\ challenge' \in [Challenges -> ChallengeRow] /\ challenge'[c].state = "consumed"
      /\ \A d \in Challenges \ {c} : challenge'[d] = challenge[d]
  BY <1>1, <1>2 DEF ChallengeRow
<1>5. OpenBudget(authority') /\ ~ (authority.locked > now)
  BY <1>1, ForgiveFacts, RefreshFacts
<1>6. /\ flow' \in [Flows -> FlowRow] /\ flow'[f].state \notin Delivering
      /\ \A g \in Flows \ {f} : flow'[g] = flow[g]
      /\ OneFlow'
  <2>1. CASE Purpose = "login"
    BY <1>1, <2>1, RetireFacts DEF Delivering
  <2>2. CASE Purpose # "login"
    <3>1. now + ProofTTL \in Nat
      BY DeliveryAssumption
    <3>2. PICK one : one = [flow[f] EXCEPT !.state = "verified"]
      OBVIOUS
    <3>3. one \in FlowRow /\ one.state = "verified"
      BY <3>2 DEF FlowRow, Current
    <3>4. PICK two : two = [one EXCEPT !.expires = now + ProofTTL]
      OBVIOUS
    <3>5. two \in FlowRow /\ two.state = "verified"
      BY <3>1, <3>3, <3>4 DEF FlowRow
    <3>6. flow' = [flow EXCEPT ![f] = two]
      BY <1>1, <2>2, <3>2, <3>4
    <3>7. /\ flow' \in [Flows -> FlowRow] /\ flow'[f].state = "verified"
          /\ \A g \in Flows \ {f} : flow'[g] = flow[g]
      BY <3>5, <3>6
    <3> QED BY <1>1, <3>7 DEF OneFlow, Current, Delivering
  <2> QED BY <2>1, <2>2
<1>7. BoundFlow'
  BY <1>4, <1>6 DEF BoundFlow
<1>8. Matched' /\ OneCode' /\ UsableCodeWasAccepted'
  BY <1>1, <1>2, <1>3, <1>4 DEF Matched, OneCode, UsableCodeWasAccepted
<1>9. Graph'
  BY <1>3, <1>4, <1>6, <1>7, <1>8 DEF Graph
<1>10. Budgets' /\ Claims'
  BY <1>1, <1>5, SameBudgets, SameClaims
<1>11. Activates /\ KeepsOldCode /\ ServesLockout /\ KeepsProof
  BY <1>1, <1>2, <1>4, <1>5 DEF Activates, KeepsOldCode, ServesLockout, KeepsProof, InState
<1> QED BY <1>9, <1>10, <1>11 DEF OtpInv, Promises

LEMMA VerifyWrongStep ==
  ASSUME OtpInv, NEW f \in Flows, NEW c \in Challenges \union {NoCode}, VerifyWrong(f, c)
  PROVE  OtpInv' /\ Promises
<1> USE InvFacts
<1>1. /\ ~ IsLocked(authority, now) /\ authority' = CountMiss(authority, now)
      /\ UNCHANGED <<now, flow, challenge, outbox, tasks, delivery, late, accepted>>
  BY DEF VerifyWrong
<1>2. OpenBudget(authority') /\ ~ (authority.locked > now)
  BY <1>1, MissFacts, RefreshFacts
<1>3. Graph' /\ Budgets' /\ Claims'
  BY <1>1, <1>2, SameGraph, SameBudgets, SameClaims
<1>4. Promises
  BY <1>1, <1>2, ActiveStays
<1> QED BY <1>3, <1>4 DEF OtpInv

\* The expired code is void; the authority is remembered as it was written.
LEMMA VerifyExpiredStep ==
  ASSUME OtpInv, NEW f \in Flows, NEW r \in Requests, VerifyExpired(f, r)
  PROVE  OtpInv' /\ Promises
<1> USE InvFacts
<1> DEFINE c == flow[f].challenge
           a0 == RefreshLock(authority, now)
<1>1. /\ c = Active /\ c # NoCode /\ ~ (challenge[c].expires > now)
      /\ ~ IsLocked(authority, now)
      /\ challenge' = [challenge EXCEPT ![c].state = "void"]
      /\ authority' = [a0 EXCEPT !.activeUntil = Never]
      /\ late' = [late EXCEPT ![r] = [step |-> "counting", row |-> authority', at |-> now]]
      /\ UNCHANGED <<now, flow, outbox, tasks, delivery, accepted>>
  BY DEF VerifyExpired, Bound, CodeLives
<1>2. OpenBudget(a0) /\ a0.locked = Never /\ ~ (authority.locked > now)
  BY <1>1, RefreshFacts
<1> HIDE DEF a0
<1>3. OpenBudget(authority') /\ authority'.locked = Never
  BY <1>1, <1>2, DeadlineFacts DEF Never
<1>4. /\ c \in Challenges /\ challenge[c].state = "active"
      /\ \A d \in Challenges : challenge[d].state = "active" => d = c
  BY <1>1, TheCodes
<1> HIDE DEF c
<1>5. /\ challenge' \in [Challenges -> ChallengeRow] /\ challenge'[c].state = "void"
      /\ \A d \in Challenges \ {c} : challenge'[d] = challenge[d]
  BY <1>1, <1>4 DEF ChallengeRow
<1>6. Matched' /\ OneCode' /\ UsableCodeWasAccepted' /\ OneFlow' /\ BoundFlow'
  BY <1>1, <1>4, <1>5 DEF Matched, OneCode, UsableCodeWasAccepted, OneFlow, BoundFlow
<1>7. Graph'
  BY <1>1, <1>5, <1>6 DEF Graph
<1>8. Claims'
  BY <1>1, SameClaims
<1>9. Budgets'
  <2> DEFINE read == [step |-> "counting", row |-> authority', at |-> now]
  <2>1. late = [x \in Requests |-> late[x]] /\ late' = [late EXCEPT ![r] = read]
    BY <1>1 DEF OtpInv, Budgets
  <2>2. late'[r] = read /\ \A x \in Requests \ {r} : late'[x] = late[x]
    BY <2>1
  <2>3. late' = [x \in Requests |-> late'[x]]
    BY <2>1
  <2>4. ASSUME NEW x \in Requests, late'[x] # NotLate
        PROVE  /\ late'[x] = [step |-> "counting", row |-> late'[x].row, at |-> late'[x].at]
               /\ OpenBudget(late'[x].row) /\ late'[x].row.locked = Never /\ late'[x].at \in Nat
    <3>1. CASE x = r
      BY <1>3, <2>2, <3>1
    <3>2. CASE x # r
      BY <2>2, <2>4, <3>2 DEF OtpInv, Budgets
    <3> QED BY <3>1, <3>2
  <2>5. OpenBudget(authority)'
    BY <1>3 DEF OpenBudget
  <2>6. \A x \in Requests : OpenBudget(late'[x].row) <=> OpenBudget(late[x].row)'
    BY DEF OpenBudget
  <2> QED BY <2>3, <2>4, <2>5, <2>6 DEF Budgets
<1>10. Activates /\ KeepsOldCode /\ ServesLockout /\ KeepsProof
  <2>1. Activates
    BY <1>5 DEF Activates
  <2>2. KeepsOldCode
    <3>1. challenge[c].expires <= now
      BY <1>1, <1>4 DEF ChallengeRow
    <3> QED BY <1>4, <3>1 DEF KeepsOldCode, InState
  <2> QED BY <1>1, <1>2, <2>1, <2>2 DEF ServesLockout, KeepsProof
<1> QED BY <1>7, <1>8, <1>9, <1>10 DEF OtpInv, Promises

\* The attempt is counted on the row as it was read.
LEMMA CountLateStep ==
  ASSUME OtpInv, NEW r \in Requests, CountLate(r)
  PROVE  OtpInv' /\ Promises
<1> USE InvFacts
<1>1. /\ late[r] # NotLate /\ late' = [late EXCEPT ![r] = NotLate]
      /\ authority' = Written(late[r].row, CountMiss(late[r].row, late[r].at))
      /\ UNCHANGED <<now, flow, challenge, outbox, tasks, delivery, accepted>>
  BY DEF CountLate
<1>2. OpenBudget(authority')
  BY <1>1, LateFacts DEF OtpInv, Budgets
<1>3. late = [x \in Requests |-> late[x]]
  BY DEF OtpInv, Budgets
<1>4. late'[r] = NotLate /\ \A x \in Requests \ {r} : late'[x] = late[x]
  BY <1>1, <1>3
<1>5. late' = [x \in Requests |-> late'[x]]
  BY <1>1, <1>3
<1>6. Budgets'
  BY <1>2, <1>4, <1>5 DEF OtpInv, Budgets, OpenBudget
<1>7. Graph' /\ Claims'
  BY <1>1, SameGraph, SameClaims
<1>8. late' # late
  BY <1>1, <1>4
<1>9. Promises
  BY <1>1, <1>8, ActiveStays
<1> QED BY <1>6, <1>7, <1>9 DEF OtpInv

LEMMA CompleteStep ==
  ASSUME OtpInv, NEW f \in Flows, Complete(f)
  PROVE  OtpInv' /\ Promises
<1> USE InvFacts
<1>1. /\ flow' = Retired(f, "consumed")
      /\ UNCHANGED <<now, authority, challenge, outbox, tasks, delivery, late, accepted>>
  BY DEF Complete
<1>2. /\ flow' \in [Flows -> FlowRow] /\ flow'[f].state = "consumed"
      /\ \A g \in Flows \ {f} : flow'[g] = flow[g]
      /\ OneFlow'
  BY <1>1, RetireFacts
<1>3. Matched' /\ OneCode' /\ UsableCodeWasAccepted' /\ BoundFlow'
  BY <1>1, <1>2 DEF Matched, OneCode, UsableCodeWasAccepted, BoundFlow, Delivering
<1>4. Graph' /\ Budgets' /\ Claims'
  BY <1>1, <1>2, <1>3, SameBudgets, SameClaims DEF Graph
<1>5. Promises
  BY <1>1, ActiveStays DEF OpenBudget, AuthorityRow
<1> QED BY <1>4, <1>5 DEF OtpInv

\* A flow that ends takes its codes and deliveries with it.
LEMMA EndFlow ==
  ASSUME OtpInv, NEW f \in Flows, NEW s \in {"consumed", "expired"}, flow[f].state \in Current,
         Fence({}, authority), flow' = Retired(f, s), UNCHANGED <<now, tasks, delivery, late, accepted>>
  PROVE  OtpInv' /\ Promises
<1> USE InvFacts
<1>1. /\ flow' \in [Flows -> FlowRow] /\ flow'[f].state = s
      /\ \A g \in Flows \ {f} : flow'[g] = flow[g]
      /\ OneFlow'
  BY RetireFacts
<1>2. /\ Graph' /\ OpenBudget(authority') /\ authority'.locked = authority.locked
      /\ \A c \in Challenges : challenge'[c].state \notin {"active", "pending_delivery"}
      /\ \A c \in Challenges : challenge'[c].state = "consumed" => challenge[c].state = "consumed"
  BY <1>1, FenceFacts
<1>3. Budgets' /\ Claims'
  BY <1>2, SameBudgets, SameClaims
<1>4. \A g \in Flows : MayServe(g) => g = f
  BY DEF MayServe, CurrentFlows
<1>5. Activates /\ KeepsOldCode
  BY <1>1, <1>2, <1>4 DEF Activates, KeepsOldCode, Delivering
<1>6. ServesLockout /\ KeepsProof
  BY <1>2 DEF ServesLockout, KeepsProof, OpenBudget, AuthorityRow
<1> QED BY <1>2, <1>3, <1>5, <1>6 DEF OtpInv, Promises

LEMMA CancelStep ==
  ASSUME OtpInv, NEW f \in Flows, Cancel(f)
  PROVE  OtpInv' /\ Promises
<1>1. /\ flow[f].state \in Current /\ Fence({}, authority) /\ flow' = Retired(f, "consumed")
      /\ UNCHANGED <<now, tasks, delivery, late, accepted>>
  BY DEF Cancel, Current
<1> QED BY <1>1, EndFlow

LEMMA PurgeStep ==
  ASSUME OtpInv, NEW f \in Flows, Purge(f)
  PROVE  OtpInv' /\ Promises
<1>1. /\ flow[f].state \in Current /\ Fence({}, authority) /\ flow' = Retired(f, "expired")
      /\ UNCHANGED <<now, tasks, delivery, late, accepted>>
  BY DEF Purge
<1> QED BY <1>1, EndFlow

-----------------------------------------------------------------------------
(* One lemma per action: the deliveries.                                    *)

LEMMA ListStep ==
  ASSUME OtpInv, NEW c \in Challenges, List(c)
  PROVE  OtpInv' /\ Promises
<1> USE InvFacts
<1>1. /\ tasks' = tasks \union {[row |-> c, sender |-> "mobile"]}
      /\ UNCHANGED <<now, authority, flow, challenge, outbox, delivery, late, accepted>>
  BY DEF List
<1>2. tasks \subseteq tasks' /\ tasks' \subseteq Task
  BY <1>1 DEF Task
<1>3. Graph' /\ Budgets' /\ Claims'
  BY <1>1, <1>2, SameGraph, SameBudgets, SameClaims
<1>4. Promises
  BY <1>1, <1>2, ActiveStays DEF OpenBudget, AuthorityRow
<1> QED BY <1>3, <1>4 DEF OtpInv

\* A listed delivery that is dropped changes nothing else.
LEMMA DropTask ==
  ASSUME OtpInv, tasks' \subseteq tasks,
         UNCHANGED <<now, authority, flow, challenge, outbox, delivery, late, accepted>>
  PROVE  OtpInv' /\ Promises
<1> USE InvFacts
<1>1. Graph' /\ Budgets' /\ Claims'
  BY SameGraph, SameBudgets, SameClaims
<1>2. Promises
  BY ActiveStays DEF OpenBudget, AuthorityRow
<1> QED BY <1>1, <1>2 DEF OtpInv

\* No flow to serve: everything that could still go out is fenced.
LEMMA FenceStep ==
  ASSUME OtpInv, NEW c \in Challenges, NobodyToServe, FenceUnavailable(c), UNCHANGED <<accepted, late>>,
         Claims'
  PROVE  OtpInv' /\ Promises
<1> USE InvFacts
<1>1. /\ Graph' /\ OpenBudget(authority') /\ authority'.locked = authority.locked
      /\ \A d \in Challenges : challenge'[d].state \notin {"active", "pending_delivery"}
      /\ \A d \in Challenges : challenge'[d].state = "consumed" => challenge[d].state = "consumed"
      /\ \A f \in Flows : IF flow[f].state \in Delivering THEN flow'[f].state = "expired"
                          ELSE flow'[f] = flow[f]
  BY UnavailableFacts
<1>2. Budgets'
  BY <1>1, SameBudgets
<1>3. Activates /\ KeepsOldCode
  BY <1>1 DEF Activates, KeepsOldCode, NobodyToServe
<1>4. ServesLockout /\ KeepsProof
  BY <1>1 DEF ServesLockout, KeepsProof, OpenBudget, AuthorityRow, Delivering
<1> QED BY <1>1, <1>2, <1>3, <1>4 DEF OtpInv, Promises

\* A candidate that is given up.
LEMMA GiveUpStep ==
  ASSUME OtpInv, NEW c \in Challenges, outbox[c].status \in Relayable, GiveUp(c),
         UNCHANGED <<accepted, late>>, Claims'
  PROVE  OtpInv' /\ Promises
<1> USE InvFacts
<1>1. /\ Graph' /\ OpenBudget(authority') /\ authority'.locked = authority.locked
      /\ \A d \in Challenges : challenge'[d] = IF d = c THEN [challenge[c] EXCEPT !.state = "void"]
                                               ELSE challenge[d]
      /\ challenge[c].state = "pending_delivery"
      /\ \A f \in Flows : flow[f].state \notin Delivering => flow'[f] = flow[f]
  BY GiveUpFacts
<1>2. Budgets'
  BY <1>1, SameBudgets
<1>3. \A d \in Challenges : challenge'[d].state = "active" <=> challenge[d].state = "active"
  BY <1>1 DEF ChallengeRow
<1>4. \A f \in Flows : flow[f].state = "verified" => flow'[f] = flow[f]
  BY <1>1 DEF Delivering
<1>5. Promises
  BY <1>1, <1>3, <1>4, ActiveStays DEF OpenBudget, AuthorityRow
<1> QED BY <1>1, <1>2, <1>5 DEF OtpInv

LEMMA RunStep ==
  ASSUME OtpInv, NEW t \in tasks, Decline(t) \/ DeclineFenced(t) \/ DeclineVoid(t) \/ CrashTask(t)
  PROVE  OtpInv' /\ Promises
<1>1. t.row \in Challenges /\ tasks \ {t} \subseteq tasks /\ tasks \subseteq Task
  BY InvFacts DEF Task
<1>2. CASE Decline(t) \/ CrashTask(t)
  BY <1>1, <1>2, DropTask DEF Decline, CrashTask
<1>3. CASE DeclineFenced(t)
  <2>1. Claims'
    BY <1>1, <1>3, SameClaims DEF DeclineFenced
  <2> QED BY <1>1, <1>3, <2>1, FenceStep DEF DeclineFenced
<1>4. CASE DeclineVoid(t)
  <2>1. Claims'
    BY <1>1, <1>4, SameClaims DEF DeclineVoid
  <2> QED BY <1>1, <1>4, <2>1, GiveUpStep DEF DeclineVoid
<1> QED BY <1>2, <1>3, <1>4

\* A row that stays on its way changes nothing a browser sees.
LEMMA StillRelayable ==
  ASSUME OtpInv, NEW c \in Challenges, outbox[c].status \in Relayable, NEW row \in CountedRow,
         row.status \in Relayable, outbox' = [outbox EXCEPT ![c] = row],
         UNCHANGED <<authority, flow, challenge, late, accepted>>, Claims'
  PROVE  OtpInv' /\ Promises
<1> USE InvFacts
<1>1. outbox'[c] = row /\ \A d \in Challenges \ {c} : outbox'[d] = outbox[d]
  OBVIOUS
<1>2. outbox' \in [Challenges -> CountedRow]
  OBVIOUS
<1>3. Matched' /\ OneCode' /\ UsableCodeWasAccepted' /\ OneFlow' /\ BoundFlow'
  BY <1>1 DEF Matched, OneCode, UsableCodeWasAccepted, OneFlow, BoundFlow, Relayable
<1>4. Graph' /\ Budgets'
  BY <1>2, <1>3, SameBudgets DEF Graph
<1>5. Promises
  BY ActiveStays DEF OpenBudget, AuthorityRow
<1> QED BY <1>4, <1>5 DEF OtpInv

LEMMA TakeClaimStep ==
  ASSUME OtpInv, NEW w \in Workers, NEW t \in tasks, TakeClaim(w, t)
  PROVE  OtpInv' /\ Promises
<1> USE InvFacts
<1> DEFINE c == t.row
           n == outbox[c].attempts + 1
           claim == [step |-> "sending", row |-> c, token |-> n, lease |-> now + Lease,
                     sender |-> t.sender]
<1>1. /\ outbox[c].status \in Relayable /\ ~ Exhausted(c)
      /\ outbox' = [outbox EXCEPT ![c].status = "claimed", ![c].attempts = @ + 1,
                                  ![c].token = outbox[c].attempts + 1,
                                  ![c].lease = now + Lease, ![c].retryAt = Never]
      /\ delivery' = [delivery EXCEPT ![w] = claim]
      /\ tasks' = tasks \ {t}
      /\ UNCHANGED <<now, authority, flow, challenge, late, accepted>>
  BY DEF TakeClaim
<1>2. c \in Challenges /\ t.sender \in {"mobile", "email"}
  BY DEF Task
<1>3. n \in 1 .. MaxSends /\ now + Lease \in Nat /\ Never \in Nat
  BY <1>1, <1>2, DeliveryAssumption DEF Exhausted, OutboxRow, Never
<1>4. claim \in Claim /\ claim.step = "sending"
  BY <1>2, <1>3 DEF Claim
<1>5. /\ tasks' \subseteq Task /\ delivery' \in [Workers -> Claim \union {NoClaim}]
      /\ \A v \in Workers : delivery'[v].step = "accepted" => delivery'[v].row \in accepted'
  BY <1>1, <1>4 DEF OtpInv, Claims
<1>6. Claims'
  BY <1>1, <1>5 DEF Claims
<1>7. PICK one : one = [outbox[c] EXCEPT !.status = "claimed"]
  OBVIOUS
<1>8. one \in OutboxRow /\ one.status = "claimed"
  BY <1>2, <1>7 DEF OutboxRow, Relayable
<1>9. PICK two : two = [one EXCEPT !.attempts = n]
  OBVIOUS
<1>10. two \in OutboxRow /\ two.status = "claimed" /\ two.attempts = n
  <2>1. n \in 0 .. MaxSends
    BY <1>3, DeliveryAssumption
  <2> HIDE DEF n
  <2> QED BY <1>8, <1>9, <2>1 DEF OutboxRow
<1>11. PICK three : three = [two EXCEPT !.token = n]
  OBVIOUS
<1>12. three \in OutboxRow /\ three.status = "claimed" /\ three.token <= three.attempts
  <2>1. n \in 0 .. MaxSends /\ n <= n
    BY <1>3, DeliveryAssumption
  <2> HIDE DEF n
  <2> QED BY <1>10, <1>11, <2>1 DEF OutboxRow
<1>13. PICK four : four = [three EXCEPT !.lease = now + Lease]
  OBVIOUS
<1>14. four \in OutboxRow /\ four.status = "claimed" /\ four.token <= four.attempts
  BY <1>3, <1>12, <1>13 DEF OutboxRow
<1>15. PICK row : row = [four EXCEPT !.retryAt = Never]
  OBVIOUS
<1>16. row \in CountedRow /\ row.status \in Relayable
  BY <1>3, <1>14, <1>15 DEF OutboxRow, CountedRow, Relayable
<1>17. outbox' = [outbox EXCEPT ![c] = row]
  BY <1>1, <1>2, <1>7, <1>9, <1>11, <1>13, <1>15
<1> QED BY <1>1, <1>2, <1>6, <1>16, <1>17, StillRelayable

\* What is answered with success has been taken.
LEMMA SendStep ==
  ASSUME OtpInv, NEW w \in Workers, Send(w)
  PROVE  OtpInv' /\ Promises
<1> USE InvFacts
<1>1. /\ delivery[w].step = "sending"
      /\ UNCHANGED <<now, authority, flow, challenge, outbox, tasks, late>>
  BY DEF Send
<1>2. PICK s \in {"accepted", "refused"} :
        /\ delivery' = [delivery EXCEPT ![w].step = s]
        /\ \/ accepted' = accepted \union {delivery[w].row}
           \/ s = "refused" /\ accepted' = accepted
  BY DEF Send
<1>3. delivery[w] \in Claim
  BY <1>1 DEF NoClaim
<1>4. /\ [delivery[w] EXCEPT !.step = s] \in Claim
      /\ [delivery[w] EXCEPT !.step = s].step = s
      /\ [delivery[w] EXCEPT !.step = s].row = delivery[w].row
      /\ delivery[w].row \in Challenges
  BY <1>3 DEF Claim
<1>5. accepted \subseteq accepted' /\ accepted' \subseteq Challenges
  BY <1>2, <1>4
<1>6. /\ delivery' \in [Workers -> Claim \union {NoClaim}]
      /\ delivery'[w] = [delivery[w] EXCEPT !.step = s]
      /\ \A v \in Workers \ {w} : delivery'[v] = delivery[v]
  BY <1>2, <1>4
<1>7. \A v \in Workers : delivery'[v].step = "accepted" => delivery'[v].row \in accepted'
  <2> SUFFICES ASSUME NEW v \in Workers, delivery'[v].step = "accepted"
               PROVE  delivery'[v].row \in accepted'
    OBVIOUS
  <2>1. CASE v = w
    BY <1>2, <1>4, <1>6, <2>1
  <2>2. CASE v # w
    BY <1>5, <1>6, <2>2 DEF OtpInv, Claims
  <2> QED BY <2>1, <2>2
<1>8. Claims'
  BY <1>1, <1>5, <1>6, <1>7 DEF Claims
<1>9. Graph' /\ Budgets'
  BY <1>1, <1>5, SameGraph, SameBudgets
<1>10. Promises
  BY <1>1, ActiveStays DEF OpenBudget, AuthorityRow
<1> QED BY <1>8, <1>9, <1>10 DEF OtpInv

LEMMA PowerOfTwo ==
  ASSUME NEW k \in Nat
  PROVE  2 ^ k \in Nat
<1>1. IsFiniteSet(1 .. k) /\ Cardinality(1 .. k) = k
  BY FS_Interval
<1>2. IsFiniteSet(SUBSET (1 .. k)) /\ Cardinality(SUBSET (1 .. k)) = 2 ^ k
  BY <1>1, FS_SUBSET
<1> QED BY <1>2, FS_CardinalityType

LEMMA RetryDelayIsTime ==
  ASSUME NEW n \in Nat \ {0}
  PROVE  RetryDelay(n) \in Nat
<1> DEFINE k == IF n - 1 < MaxSends - 1 THEN n - 1 ELSE MaxSends - 1
           p == 2 ^ k
<1>1. k \in Nat
  BY DeliveryAssumption
<1> HIDE DEF k
<1>2. p \in Nat
  BY <1>1, PowerOfTwo
<1>3. RetryDelay(n) = Least(RetryMax, RetryBase * p)
  BY DEF RetryDelay, k
<1> HIDE DEF p
<1>4. RetryBase * p \in Nat
  <2>1. \A a, b \in Nat : a * b \in Nat
    OBVIOUS
  <2> QED BY <1>2, <2>1, DeliveryAssumption
<1> QED BY <1>3, <1>4, DeliveryAssumption DEF Least

LEMMA LetGoStep ==
  ASSUME OtpInv, NEW w \in Workers, FinishStale(w) \/ CrashWorker(w)
  PROVE  OtpInv' /\ Promises
<1>1. /\ delivery' = [delivery EXCEPT ![w] = NoClaim]
      /\ UNCHANGED <<now, authority, flow, challenge, outbox, tasks, late, accepted>>
  BY DEF FinishStale, CrashWorker
<1>2. Graph' /\ Budgets' /\ Claims'
  BY <1>1, InvFacts, SameGraph, SameBudgets, DropClaim
<1>3. Promises
  BY <1>1, InvFacts, ActiveStays DEF OpenBudget, AuthorityRow
<1> QED BY <1>2, <1>3 DEF OtpInv

\* A worker that comes back with an answer has a row to settle.
LEMMA ClaimFacts ==
  ASSUME OtpInv, NEW w \in Workers, delivery[w].step \in {"accepted", "refused"}, HoldsClaim(w)
  PROVE  /\ delivery[w].row \in Challenges
         /\ outbox[delivery[w].row].status = "claimed" /\ outbox[delivery[w].row].status \in Relayable
         /\ challenge[delivery[w].row].state = "pending_delivery"
<1>1. delivery[w] \in Claim
  BY InvFacts DEF NoClaim
<1>2. delivery[w].row \in Challenges
  BY <1>1 DEF Claim
<1> QED BY <1>2, InvFacts DEF HoldsClaim, Matched, Relayable

LEMMA FinishFencedStep ==
  ASSUME OtpInv, NEW w \in Workers, FinishFenced(w)
  PROVE  OtpInv' /\ Promises
<1>1. /\ delivery[w].step \in {"accepted", "refused"} /\ HoldsClaim(w)
      /\ NobodyToServe /\ FenceUnavailable(delivery[w].row)
      /\ delivery' = [delivery EXCEPT ![w] = NoClaim]
      /\ UNCHANGED <<now, tasks, late, accepted>>
  BY DEF FinishFenced
<1>2. Claims'
  BY <1>1, DropClaim
<1> QED BY <1>1, <1>2, ClaimFacts, FenceStep

LEMMA FinishRefusedStep ==
  ASSUME OtpInv, NEW w \in Workers, FinishRefused(w)
  PROVE  OtpInv' /\ Promises
<1> DEFINE c == delivery[w].row
           due == now + RetryDelay(outbox[c].attempts)
           Retry == /\ ~ Exhausted(c)
                    /\ outbox' = [outbox EXCEPT ![c].status = "failed", ![c].token = 0,
                                                ![c].lease = Never, ![c].retryAt = due]
                    /\ UNCHANGED <<authority, flow, challenge>>
<1>1. /\ delivery[w].step \in {"accepted", "refused"} /\ HoldsClaim(w)
      /\ GiveUp(c) \/ Retry
      /\ delivery' = [delivery EXCEPT ![w] = NoClaim]
      /\ UNCHANGED <<now, tasks, late, accepted>>
  BY DEF FinishRefused
<1>2. Claims'
  BY <1>1, DropClaim
<1>3. c \in Challenges /\ outbox[c].status \in Relayable
  BY <1>1, ClaimFacts
<1>4. CASE GiveUp(c)
  BY <1>1, <1>2, <1>3, <1>4, GiveUpStep
<1>5. CASE Retry
  <2>1. outbox[c].attempts \in Nat \ {0}
    <3>1. delivery[w] \in Claim /\ outbox[c].token = delivery[w].token
      BY <1>1, InvFacts DEF HoldsClaim, NoClaim
    <3>2. delivery[w].token >= 1 /\ outbox[c].token <= outbox[c].attempts
      BY <1>3, <3>1, InvFacts, DeliveryAssumption DEF Claim, CountedRow
    <3>3. outbox[c].attempts \in Nat /\ outbox[c].token \in Nat
      BY <1>3, InvFacts, DeliveryAssumption DEF OutboxRow
    <3> QED BY <3>1, <3>2, <3>3
  <2>2. due \in Nat
    BY <2>1, InvFacts, RetryDelayIsTime
  <2> HIDE DEF due
  <2>3. PICK one : one = [outbox[c] EXCEPT !.status = "failed"]
    OBVIOUS
  <2>4. one \in OutboxRow /\ one.status = "failed"
    BY <1>3, <2>3, InvFacts DEF OutboxRow, Relayable
  <2>5. PICK two : two = [one EXCEPT !.token = 0]
    OBVIOUS
  <2>6. two \in OutboxRow /\ two.status = "failed" /\ two.token = 0
    BY <2>4, <2>5, DeliveryAssumption DEF OutboxRow
  <2>7. PICK three : three = [two EXCEPT !.lease = Never]
    OBVIOUS
  <2>8. three \in OutboxRow /\ three.status = "failed" /\ three.token = 0
    BY <2>6, <2>7 DEF OutboxRow, Never
  <2>9. PICK row : row = [three EXCEPT !.retryAt = due]
    OBVIOUS
  <2>10. row \in CountedRow /\ row.status \in Relayable
    BY <2>2, <2>8, <2>9, DeliveryAssumption DEF OutboxRow, CountedRow, Relayable
  <2>11. outbox' = [outbox EXCEPT ![c] = row]
    BY <1>3, <1>5, <2>3, <2>5, <2>7, <2>9
  <2> QED BY <1>1, <1>2, <1>3, <1>5, <2>10, <2>11, StillRelayable
<1> QED BY <1>1, <1>4, <1>5

\* The code the provider took takes the place of the one before it.
LEMMA FinishSentStep ==
  ASSUME OtpInv, NEW w \in Workers, NEW f \in Flows, FinishSent(w, f)
  PROVE  OtpInv' /\ Promises
<1> USE InvFacts
<1> DEFINE c == delivery[w].row
           deadline == Least(now + ChallengeTTL, flow[f].expires)
<1>1. /\ delivery[w].step = "accepted" /\ HoldsClaim(w) /\ MayServe(f)
      /\ IF c \in InState("pending_delivery") THEN Activated(c, f) ELSE UNCHANGED <<challenge, authority>>
      /\ outbox' = [outbox EXCEPT ![c].status = "sent", ![c].token = 0, ![c].lease = Never]
      /\ flow' = [flow EXCEPT ![f].state = "code_sent", ![f].challenge = c]
      /\ delivery' = [delivery EXCEPT ![w] = NoClaim]
      /\ UNCHANGED <<now, tasks, late, accepted>>
  BY DEF FinishSent
<1>2. /\ c \in Challenges /\ challenge[c].state = "pending_delivery" /\ c \in InState("pending_delivery")
      /\ c \in accepted
  BY <1>1, ClaimFacts DEF InState, OtpInv, Claims
<1>3. /\ CurrentFlows = {f} /\ flow[f].state \in Delivering /\ flow[f].expires > now
      /\ \A g \in Flows \ {f} : flow[g].state \notin Current
  BY <1>1 DEF MayServe, CurrentFlows
<1> HIDE DEF c
<1>4. /\ challenge' = [d \in Challenges |->
           IF d = c THEN [state |-> "active", expires |-> deadline]
           ELSE IF challenge[d].state = "active" THEN [challenge[d] EXCEPT !.state = "superseded"]
           ELSE challenge[d]]
      /\ authority' = [authority EXCEPT !.activeUntil = deadline]
  BY <1>1, <1>2 DEF Activated
<1>5. deadline \in Nat
  BY DeliveryAssumption DEF Least, FlowRow
<1> HIDE DEF deadline
<1>6. OpenBudget(authority') /\ authority'.locked = authority.locked
  BY <1>4, <1>5, DeadlineFacts
<1>7. challenge' \in [Challenges -> ChallengeRow]
  BY <1>4, <1>5 DEF ChallengeRow
<1>8. /\ challenge'[c].state = "active"
      /\ \A d \in Challenges \ {c} :
           challenge'[d].state = IF challenge[d].state = "active" THEN "superseded" ELSE challenge[d].state
  BY <1>2, <1>4 DEF ChallengeRow
<1>9. /\ outbox' \in [Challenges -> CountedRow] /\ outbox'[c].status = "sent"
      /\ \A d \in Challenges \ {c} : outbox'[d] = outbox[d]
  <2>1. PICK one : one = [outbox[c] EXCEPT !.status = "sent"]
    OBVIOUS
  <2>2. one \in OutboxRow /\ one.status = "sent"
    BY <1>2, <2>1 DEF OutboxRow
  <2>3. PICK two : two = [one EXCEPT !.token = 0]
    OBVIOUS
  <2>4. two \in OutboxRow /\ two.status = "sent" /\ two.token = 0
    BY <2>2, <2>3, DeliveryAssumption DEF OutboxRow
  <2>5. PICK row : row = [two EXCEPT !.lease = Never]
    OBVIOUS
  <2>6. row \in OutboxRow /\ row.status = "sent" /\ row.token = 0
    BY <2>4, <2>5 DEF OutboxRow, Never
  <2>7. row \in CountedRow
    BY <2>6, DeliveryAssumption DEF OutboxRow, CountedRow
  <2>8. outbox' = [outbox EXCEPT ![c] = row]
    BY <1>1, <1>2, <2>1, <2>3, <2>5 DEF c
  <2> QED BY <1>2, <2>6, <2>7, <2>8
<1>10. /\ flow' \in [Flows -> FlowRow] /\ flow'[f].state = "code_sent" /\ flow'[f].challenge = c
       /\ \A g \in Flows \ {f} : flow'[g] = flow[g]
  <2>1. PICK one : one = [flow[f] EXCEPT !.state = "code_sent"]
    OBVIOUS
  <2>2. one \in FlowRow /\ one.state = "code_sent"
    BY <2>1 DEF FlowRow, Current, Delivering
  <2>3. PICK two : two = [one EXCEPT !.challenge = c]
    OBVIOUS
  <2>4. two \in FlowRow /\ two.state = "code_sent" /\ two.challenge = c
    BY <1>2, <2>2, <2>3 DEF FlowRow
  <2>5. flow' = [flow EXCEPT ![f] = two]
    BY <1>1, <2>1, <2>3 DEF c
  <2> QED BY <2>4, <2>5
<1>11. OneFlow'
  BY <1>3, <1>10 DEF OneFlow
<1>12. Matched'
  BY <1>2, <1>8, <1>9 DEF Matched, Relayable
<1>13. OneCode'
  BY <1>2, <1>8 DEF OneCode
<1>14. BoundFlow'
  BY <1>3, <1>8, <1>10 DEF BoundFlow, Current
<1>15. UsableCodeWasAccepted'
  BY <1>1, <1>2, <1>8, <1>9 DEF UsableCodeWasAccepted
<1>16. Graph'
  BY <1>7, <1>9, <1>10, <1>11, <1>12, <1>13, <1>14, <1>15 DEF Graph
<1>17. Budgets' /\ Claims'
  BY <1>1, <1>6, SameBudgets, DropClaim
<1>18. Activates /\ KeepsOldCode
  <2>1. \A d \in Challenges : challenge'[d].state = "active" => d = c
    BY <1>8
  <2>2. Activates
    BY <1>3, <1>10, <2>1 DEF Activates
  <2>3. \A d \in InState("active") : d \in Challenges /\ d # c
    BY <1>2 DEF InState
  <2>4. KeepsOldCode
    BY <1>2, <1>8, <2>3 DEF KeepsOldCode
  <2> QED BY <2>2, <2>4
<1>19. ServesLockout
  BY <1>6, <1>8 DEF ServesLockout, OpenBudget, AuthorityRow
<1>20. KeepsProof
  BY <1>3, <1>10 DEF KeepsProof, Current, Delivering
<1> QED BY <1>16, <1>17, <1>18, <1>19, <1>20 DEF OtpInv, Promises

LEMMA TickStep ==
  ASSUME OtpInv, Tick
  PROVE  OtpInv' /\ Promises
<1>1. now' \in 1 .. MaxTime /\ UNCHANGED <<authority, flow, challenge, outbox, tasks, delivery, late, accepted>>
  BY InvFacts, DeliveryAssumption DEF Tick
<1>2. Graph' /\ Budgets' /\ Claims'
  BY <1>1, InvFacts, SameGraph, SameBudgets DEF OtpInv, Claims
<1>3. Promises
  BY <1>1, InvFacts, ActiveStays DEF OpenBudget, AuthorityRow
<1> QED BY <1>2, <1>3 DEF OtpInv

LEMMA Stutter ==
  ASSUME OtpInv, UNCHANGED otpVars
  PROVE  OtpInv' /\ Promises
<1>1. UNCHANGED <<now, authority, flow, challenge, outbox, tasks, delivery, late, accepted>>
  BY DEF otpVars
<1> QED BY <1>1, InvFacts, DropTask

-----------------------------------------------------------------------------

LEMMA OtpInitInv == OtpInit => OtpInv
<1> SUFFICES ASSUME OtpInit
             PROVE  OtpInv
  OBVIOUS
<1> USE AuthorityAssumption, DeliveryAssumption DEF OtpInit, Never
<1>1. Budgets
  <2>1. authority \in AuthorityRow /\ authority.locked = Never /\ authority.failed < MaxAttempts
    BY DEF NewAuthority, AuthorityRow
  <2>2. late = [r \in Requests |-> late[r]] /\ \A r \in Requests : late[r] = NotLate
    OBVIOUS
  <2> QED BY <2>1, <2>2 DEF Budgets, OpenBudget
<1>2. flow \in [Flows -> FlowRow] /\ \A f \in Flows : flow[f].state = "none"
  BY DEF FlowRow
<1>3. challenge \in [Challenges -> ChallengeRow] /\ \A c \in Challenges : challenge[c].state = "none"
  BY DEF ChallengeRow
<1>4. outbox \in [Challenges -> CountedRow] /\ \A c \in Challenges : outbox[c].status = "none"
  <2>1. FreshRow \in OutboxRow /\ FreshRow.token = 0 /\ FreshRow.attempts = 0
    BY DEF FreshRow, OutboxRow, Relayable
  <2>2. FreshRow \in CountedRow
    BY <2>1 DEF CountedRow
  <2> QED BY <2>2 DEF FreshRow
<1>5. Graph
  BY <1>2, <1>3, <1>4 DEF Graph, Matched, OneCode, UsableCodeWasAccepted, OneFlow, BoundFlow,
                          Relayable, Current, Delivering
<1>6. Claims
  <2>1. now \in 1 .. MaxTime
    OBVIOUS
  <2>2. delivery \in [Workers -> Claim \union {NoClaim}]
    OBVIOUS
  <2>3. \A w \in Workers : delivery[w].step = "idle"
    BY DEF NoClaim
  <2> QED BY <2>1, <2>2, <2>3 DEF Claims
<1> QED BY <1>1, <1>5, <1>6 DEF OtpInv

\* Every step keeps the invariant, and keeps the promises of a step.
LEMMA OtpStep ==
  ASSUME OtpInv, [OtpNext]_otpVars
  PROVE  OtpInv' /\ Promises
<1>1. CASE OtpNext
  <2>1. ASSUME NEW f \in Flows, Browser(f) \/ Purge(f)
        PROVE  OtpInv' /\ Promises
    <3>1. ASSUME NEW c \in Challenges \union {NoCode},
                 (\E channel \in Channels : Start(f, c, channel))
                   \/ Resend(f, c) \/ VerifyRight(f, c) \/ VerifyWrong(f, c)
          PROVE  OtpInv' /\ Promises
      BY <3>1, StartStep, ResendStep, VerifyRightStep, VerifyWrongStep
    <3> QED BY <2>1, <3>1, VerifyExpiredStep, CancelStep, CompleteStep, PurgeStep DEF Browser
  <2>2. ASSUME NEW t \in tasks, Run(t) \/ CrashTask(t)
        PROVE  OtpInv' /\ Promises
    BY <2>2, RunStep, TakeClaimStep DEF Run
  <2>3. ASSUME NEW w \in Workers, Send(w) \/ Finish(w) \/ CrashWorker(w)
        PROVE  OtpInv' /\ Promises
    BY <2>3, SendStep, LetGoStep, FinishFencedStep, FinishRefusedStep, FinishSentStep DEF Finish
  <2> QED BY <1>1, <2>1, <2>2, <2>3, CountLateStep, ListStep, TickStep DEF OtpNext
<1>2. CASE UNCHANGED otpVars
  BY <1>2, Stutter
<1> QED BY <1>1, <1>2

LEMMA OtpInvHolds == OtpSpec => []OtpInv
<1>1. OtpInv /\ [OtpNext]_otpVars => OtpInv'
  BY OtpStep
<1> QED BY <1>1, OtpInitInv, PTL DEF OtpSpec

\* Every row has one of the shapes its table allows.
THEOREM OtpTyped == OtpSpec => []OtpTypeOK
<1>1. OtpInv => OtpTypeOK
  <2> SUFFICES ASSUME OtpInv
               PROVE  OtpTypeOK
    OBVIOUS
  <2>1. \A r \in Requests : late[r] \in [step : {"counting"}, row : AuthorityRow, at : Nat] \union {NotLate}
    BY DEF OtpInv, Budgets, OpenBudget
  <2>2. late = [r \in Requests |-> late[r]]
    BY DEF OtpInv, Budgets
  <2>3. late \in [Requests -> [step : {"counting"}, row : AuthorityRow, at : Nat] \union {NotLate}]
    BY <2>1, <2>2
  <2> QED BY <2>3, InvFacts DEF OtpTypeOK, OpenBudget
<1> QED BY <1>1, OtpInvHolds, PTL

\* No request meets a staged graph that _pending_intent refuses as invalid.
THEOREM GraphIsValid == OtpSpec => []StagedGraphIsValid
<1>1. OtpInv => StagedGraphIsValid
  BY GraphSays
<1> QED BY <1>1, OtpInvHolds, PTL

\* A code that verifies, or ever did, was taken by the provider.
THEOREM CodesWereTaken == OtpSpec => []UsableCodeWasAccepted
<1>1. OtpInv => UsableCodeWasAccepted
  BY InvFacts
<1> QED BY <1>1, OtpInvHolds, PTL

\* The one current flow is bound to the active code.
THEOREM FlowHasItsCode == OtpSpec => []ActiveCodeIsBound
<1>1. OtpInv => ActiveCodeIsBound
  BY GraphSays
<1> QED BY <1>1, OtpInvHolds, PTL

\* A code becomes active only for a flow that is alive at that moment.
THEOREM ActivationHasFlow == OtpSpec => ActivationIsAuthorized
<1>1. OtpInv /\ [OtpNext]_otpVars => Activates
  BY OtpStep DEF Promises
<1> QED BY <1>1, OtpInvHolds, PTL DEF OtpSpec, ActivationIsAuthorized, Activates

\* The active code goes when it is used, replaced or expired, or with its flow.
THEOREM ActiveCodeStays == OtpSpec => OldCodeKeepsWorking
<1>1. OtpInv /\ [OtpNext]_otpVars => KeepsOldCode
  BY OtpStep DEF Promises
<1> QED BY <1>1, OtpInvHolds, PTL DEF OtpSpec, OldCodeKeepsWorking, KeepsOldCode

\* A lockout is served: nobody passes before it is over, and only a late count
\* shortens it.
THEOREM LockoutIsServed == OtpSpec => LockoutHolds
<1>1. OtpInv /\ [OtpNext]_otpVars => ServesLockout
  BY OtpStep DEF Promises
<1> QED BY <1>1, OtpInvHolds, PTL DEF OtpSpec, LockoutHolds, ServesLockout

\* No delivery that comes back late revokes the proof of a recovery.
THEOREM ProofIsKept == OtpSpec => ProofSurvivesDelivery
<1>1. OtpInv /\ [OtpNext]_otpVars => KeepsProof
  BY OtpStep DEF Promises
<1> QED BY <1>1, OtpInvHolds, PTL DEF OtpSpec, ProofSurvivesDelivery, KeepsProof
=============================================================================
