------------------------ MODULE SignupLedgerProofs --------------------------
(* Signups of one number for any number of keys, contents, codes and        *)
(* workers, and any deadlines, leases and attempt limits.                   *)
EXTENDS SignupLedger, FiniteSetTheorems, TLAPS

\* What a worker holds in memory: the row it delivers, the key whose signup it
\* settles, and, once the provider has answered yes, a code that was taken.
WorkerRow == [pc : {"idle", "deliver", "accepted", "refused", "settle", "reconcile"},
              key : Keys \union {NoKey}, row : Codes \union {NoCode}, token : 0 .. MaxSends]
WorkerOK(t, taken) == /\ t \in WorkerRow
                      /\ t.pc # "idle" => t.row \in Codes
                      /\ t.pc \in {"settle", "reconcile"} => t.key \in Keys
                      /\ t.pc = "accepted" => t.row \in taken
WorkersOK == /\ worker \in [Workers -> WorkerRow]
             /\ \A w \in Workers : WorkerOK(worker[w], accepted)

Tables == /\ now \in 1 .. MaxTime
          /\ ledger \in [Keys -> LedgerRow]
          /\ registration \in RegistrationRow
          /\ flow \in [Keys -> FlowRow]
          /\ code \in [Codes -> CodeRow] /\ issued \in 0 .. now
          /\ accepted \subseteq Codes
          /\ bound \in [Keys -> SUBSET Contents]
          /\ WorkersOK
          /\ \A c \in Codes : code[c].row = "sent" => c \in accepted

\* One key is linked to the registration, and every flow that may still act
\* belongs to it; the others with a live flow lead nowhere.
Browsers ==
  /\ \A j, k \in Keys : ledger[j].linked /\ ledger[k].linked => j = k
  /\ \A k \in Keys : ledger[k].linked =>
       registration.status = "otp_pending" /\ flow[k].real /\ flow[k].state # "consumed"
  /\ \A k \in Keys : flow[k].state \in Live =>
       IF flow[k].real THEN ledger[k].linked ELSE ledger[k].state = "neutralized"

\* A cancelled flow that may be restarted is the only one, and nothing is
\* linked while it is there.
Markers ==
  /\ \A r \in Keys : flow[r].marker # NoContent =>
       /\ flow[r].real /\ registration.status = "otp_pending"
       /\ \A k \in Keys : ~ ledger[k].linked
  /\ \A r, s \in Keys : flow[r].marker # NoContent /\ flow[s].marker # NoContent => r = s

\* What a key has answered for is what its ledger row holds, while it holds it.
Answers ==
  \A k \in Keys : /\ ledger[k].state = "none" => bound[k] = {}
                  /\ ledger[k].state \in {"pending", "succeeded", "neutralized"}
                       => bound[k] \subseteq {ledger[k].content}
                  /\ \A x, y \in bound[k] : x = y

SignupInv == Tables /\ Browsers /\ Markers /\ Answers /\ SuccessWasDelivered

-----------------------------------------------------------------------------
(* One key at a time: what the action properties say of a step.             *)

TombstonesKept ==
  \A k \in Keys : ledger[k].state \in {"retired", "erased"} => ledger'[k] = ledger[k]
NewCodesServe ==
  \A c \in Codes : code'[c].challenge = "active" /\ code[c].challenge # "active" =>
       registration.status = "otp_pending" /\ \E k \in Keys : flow[k].real /\ FlowLive(k)
StepOK == SignupInv' /\ TombstonesKept /\ NewCodesServe

-----------------------------------------------------------------------------
(* Rows.                                                                    *)

LEMMA TombstoneFacts ==
  ASSUME NEW s \in {"retired", "erased"}
  PROVE  /\ Tombstone(s) \in LedgerRow
         /\ Tombstone(s) = [state |-> s, content |-> NoContent, linked |-> FALSE, row |-> NoCode]
<1>1. Tombstone(s) = [state |-> s, content |-> NoContent, linked |-> FALSE, row |-> NoCode]
  <2>1. PICK n : n = NoLedger
    OBVIOUS
  <2>2. n = [state |-> "none", content |-> NoContent, linked |-> FALSE, row |-> NoCode]
    BY <2>1 DEF NoLedger
  <2>3. Tombstone(s) = [n EXCEPT !.state = s]
    BY <2>1 DEF Tombstone
  <2>4. DOMAIN n = {"state", "content", "linked", "row"}
    BY <2>2
  <2> QED BY <2>2, <2>3
<1>2. [state |-> s, content |-> NoContent, linked |-> FALSE, row |-> NoCode]
        \in [state : {"retired", "erased"}, content : {NoContent}, linked : {FALSE}, row : {NoCode}]
  OBVIOUS
<1> QED BY <1>1, <1>2 DEF LedgerRow

\* What the rows of the ledger table may hold together.
LEMMA LedgerShape ==
  ASSUME NEW r \in LedgerRow
  PROVE  /\ r.linked <=> r.state \in {"pending", "succeeded"}
         /\ r.state \in {"retired", "erased"} => r = Tombstone(r.state)
         /\ r.state = "pending" => r.row \in Codes
         /\ r.state \in {"pending", "succeeded", "neutralized"} <=> r.content \in Contents
         /\ r.state \in {"none", "pending", "succeeded", "neutralized", "retired", "erased"}
         /\ r.linked \in BOOLEAN /\ r.content \in Contents \union {NoContent}
         /\ r.row \in Codes \union {NoCode}
<1>1. CASE r \in [state : {"none"}, content : {NoContent}, linked : {FALSE}, row : {NoCode}]
  BY <1>1, SignupAssumption
<1>2. CASE r \in [state : {"pending"}, content : Contents, linked : {TRUE}, row : Codes]
  BY <1>2
<1>3. CASE r \in [state : {"succeeded"}, content : Contents, linked : {TRUE}, row : {NoCode}]
  BY <1>3
<1>4. CASE r \in [state : {"neutralized"}, content : Contents, linked : {FALSE}, row : {NoCode}]
  BY <1>4
<1>5. CASE r \in [state : {"retired", "erased"}, content : {NoContent}, linked : {FALSE}, row : {NoCode}]
  <2>1. r = [state |-> r.state, content |-> NoContent, linked |-> FALSE, row |-> NoCode]
    BY <1>5
  <2> QED BY <1>5, <2>1, TombstoneFacts, SignupAssumption
<1> QED BY <1>1, <1>2, <1>3, <1>4, <1>5 DEF LedgerRow

\* What a change of one code may do without being a delivery.
Keeps(a, b) == /\ b \in CodeRow
               /\ b.row = "sent" <=> a.row = "sent"
               /\ b.challenge = "active" => a.challenge = "active"

LEMMA KeepsItself == ASSUME NEW r \in CodeRow PROVE Keeps(r, r)
  BY DEF Keeps

LEMMA GiveUpFacts ==
  ASSUME NEW r \in CodeRow, NEW why \in {"void", "fenced"}
  PROVE  Keeps(r, GiveUp(r, why)) /\ GiveUp(r, why).challenge # "active"
<1> USE SignupAssumption DEF CodeRow, Usable, Relayable
<1> DEFINE s == IF r.row \in Relayable THEN why ELSE r.row
           h == IF r.challenge \in Usable THEN "void" ELSE r.challenge
<1>1. /\ s \in Relayable \union {"none", "sent", "void", "fenced"} /\ (s = "sent" <=> r.row = "sent")
      /\ h \in Usable \union {"none", "superseded", "void", "consumed"} /\ h # "active"
  OBVIOUS
<1>2. GiveUp(r, why) = [r EXCEPT !.row = s, !.token = 0, !.lease = 0, !.challenge = h]
  BY DEF GiveUp
<1> HIDE DEF s, h
<1>3. PICK a : a = [r EXCEPT !.row = s]
  OBVIOUS
<1>4. a \in CodeRow /\ a.row = s
  BY <1>1, <1>3
<1>5. PICK b : b = [a EXCEPT !.token = 0]
  OBVIOUS
<1>6. b \in CodeRow /\ b.row = s
  BY <1>4, <1>5
<1>7. PICK d : d = [b EXCEPT !.lease = 0]
  OBVIOUS
<1>8. d \in CodeRow /\ d.row = s
  BY <1>6, <1>7
<1>9. GiveUp(r, why) = [d EXCEPT !.challenge = h]
  BY <1>2, <1>3, <1>5, <1>7
<1>10. GiveUp(r, why) \in CodeRow /\ GiveUp(r, why).row = s /\ GiveUp(r, why).challenge = h
  BY <1>1, <1>8, <1>9
<1> QED BY <1>1, <1>10 DEF Keeps

LEMMA VoidFacts ==
  ASSUME NEW r \in CodeRow
  PROVE  Keeps(r, VoidRow(r)) /\ VoidRow(r).challenge # "active"
  BY GiveUpFacts DEF VoidRow

LEMMA FencedFacts ==
  ASSUME code \in [Codes -> CodeRow], NEW target, NEW why \in {"void", "fenced"}
  PROVE  /\ Fenced(target, why) \in [Codes -> CodeRow]
         /\ \A c \in Codes : Keeps(code[c], Fenced(target, why)[c])
<1>1. \A c \in Codes : Keeps(code[c], GiveUp(code[c], why)) /\ Keeps(code[c], code[c])
  BY GiveUpFacts, KeepsItself
<1> QED BY <1>1 DEF Fenced, Keeps

LEMMA FreshFacts == FreshCode \in CodeRow /\ FreshCode.row = "none" /\ FreshCode.challenge = "none"
  BY SignupAssumption DEF FreshCode, CodeRow, Usable, Relayable

LEMMA ErasedFacts == Erased \in CodeRow /\ Erased.row = "none" /\ Erased.challenge = "none"
<1>1. Forever \in Nat
  BY SignupAssumption DEF Forever
<1>2. PICK r : r = FreshCode
  OBVIOUS
<1> QED BY <1>1, <1>2, FreshFacts DEF Erased, CodeRow

LEMMA StagedFacts ==
  ASSUME code \in [Codes -> CodeRow], NEW c \in Unused, NEW deadline \in Nat
  PROVE  /\ c \in Codes
         /\ Staged(c, deadline) \in [Codes -> CodeRow]
         /\ \A d \in Codes : Keeps(code[d], Staged(c, deadline)[d])
<1> USE DEF CodeRow, Usable, Relayable
<1>1. c \in Codes /\ code[c] = FreshCode
  BY DEF Unused
<1>2. PICK f : f = FreshCode
  OBVIOUS
<1>3. PICK a : a = [f EXCEPT !.challenge = "pending_delivery"]
  OBVIOUS
<1>4. a \in CodeRow /\ a.challenge = "pending_delivery"
  BY <1>2, <1>3, FreshFacts
<1>5. PICK b : b = [a EXCEPT !.expires = deadline]
  OBVIOUS
<1>6. b \in CodeRow /\ b.challenge = "pending_delivery"
  BY <1>4, <1>5
<1>7. PICK r : r = [b EXCEPT !.row = "pending"]
  OBVIOUS
<1>8. r \in CodeRow /\ r.challenge = "pending_delivery" /\ r.row = "pending"
  BY <1>6, <1>7
<1>9. Staged(c, deadline) = [code EXCEPT ![c] = r]
  BY <1>2, <1>3, <1>5, <1>7 DEF Staged
<1>10. Keeps(code[c], r)
  BY <1>1, <1>8, FreshFacts DEF Keeps
<1>11. \A d \in Codes : Keeps(code[d], code[d])
  BY KeepsItself
<1> HIDE DEF CodeRow
<1> QED BY <1>1, <1>8, <1>9, <1>10, <1>11

-----------------------------------------------------------------------------
(* Steps that give no key a new answer and begin no signup.                 *)

\* Flows end by expiry, or go on; no flow is cancelled.
FlowsMove ==
  /\ flow' \in [Keys -> FlowRow]
  /\ \A k \in Keys : /\ flow'[k].real = flow[k].real /\ flow'[k].marker = flow[k].marker
                     /\ flow'[k].state \in Live => flow[k].state \in Live
                     /\ flow'[k].state = "consumed" => flow[k].state = "consumed"

\* A ledger row stays, goes on with its content, or is retired with its flow.
LedgerMoves ==
  /\ ledger' \in [Keys -> LedgerRow]
  /\ \A k \in Keys :
       \/ ledger'[k] = ledger[k]
       \/ /\ ledger[k].state = "pending" /\ ledger'[k].state \in {"pending", "succeeded"}
          /\ ledger'[k].content = ledger[k].content
       \/ /\ ledger'[k] = Tombstone("retired") /\ ledger[k].state # "erased"
          /\ flow'[k].state \notin Live

LEMMA GraphStep ==
  ASSUME Tables, Browsers, Markers, Answers, FlowsMove, LedgerMoves,
         registration' = registration, bound' = bound
  PROVE  Browsers' /\ Markers' /\ Answers' /\ TombstonesKept
<1>1. \A k \in Keys : ledger[k] \in LedgerRow /\ ledger'[k] \in LedgerRow
  BY DEF Tables, LedgerMoves
<1>2. ASSUME NEW k \in Keys
      PROVE  /\ ledger'[k].linked => ledger[k].linked
             /\ ledger[k].linked => ledger'[k].linked \/ flow'[k].state \notin Live
             /\ ledger[k].state = "neutralized" => ledger'[k].state = "neutralized" \/ flow'[k].state \notin Live
             /\ ledger'[k].state = "none" => ledger[k].state = "none"
             /\ ledger'[k].state \in {"pending", "succeeded", "neutralized"} =>
                  /\ ledger[k].state \in {"pending", "succeeded", "neutralized"}
                  /\ ledger'[k].content = ledger[k].content
             /\ ledger[k].state \in {"retired", "erased"} => ledger'[k] = ledger[k]
  <2>1. CASE ledger'[k] = ledger[k]
    BY <2>1
  <2>2. CASE /\ ledger[k].state = "pending" /\ ledger'[k].state \in {"pending", "succeeded"}
             /\ ledger'[k].content = ledger[k].content
    BY <1>1, <2>2, LedgerShape
  <2>3. CASE /\ ledger'[k] = Tombstone("retired") /\ ledger[k].state # "erased"
             /\ flow'[k].state \notin Live
    <3>1. ledger'[k].state = "retired" /\ ledger'[k].linked = FALSE
      BY <2>3, TombstoneFacts
    <3>2. ledger[k].state = "retired" => ledger[k] = Tombstone("retired")
      BY <1>1, LedgerShape
    <3> QED BY <2>3, <3>1, <3>2
  <2> QED BY <2>1, <2>2, <2>3 DEF LedgerMoves
<1>3. Browsers'
  BY <1>2 DEF Browsers, FlowsMove
<1>4. Markers'
  BY <1>2 DEF Markers, FlowsMove
<1>5. Answers'
  BY <1>2 DEF Answers
<1> QED BY <1>2, <1>3, <1>4, <1>5 DEF TombstonesKept

LEMMA FlowsStay == ASSUME Tables, flow' = flow PROVE FlowsMove
  BY DEF Tables, FlowsMove

LEMMA LedgerStays == ASSUME Tables, ledger' = ledger PROVE LedgerMoves
  BY DEF Tables, LedgerMoves

\* A live flow that is real belongs to the linked key.
LEMMA ServingIsLinked ==
  ASSUME Browsers
  PROVE  /\ \A k \in Serving : k \in Linked /\ registration.status = "otp_pending"
         /\ \A j, k \in Serving : j = k
  BY DEF Browsers, Serving, Linked

\* Every flow that serves is ended by the step.
ServingEnds == \A k \in Keys : flow'[k] = IF k \in Serving THEN Ended(k, "expired") ELSE flow[k]

LEMMA EndedFacts ==
  ASSUME Tables, NEW k \in Keys, NEW s \in {"consumed", "expired"}
  PROVE  /\ Ended(k, s) \in FlowRow /\ Ended(k, s).state = s
         /\ Ended(k, s).real = flow[k].real /\ Ended(k, s).marker = flow[k].marker
  BY DEF Tables, Ended, FlowRow

LEMMA ServingEndsMoves ==
  ASSUME Tables, flow' = [j \in Keys |-> IF j \in Serving THEN Ended(j, "expired") ELSE flow[j]]
  PROVE  /\ FlowsMove
         /\ \A k \in Keys : flow'[k].real => flow'[k].state \notin Live
<1>1. \A k \in Keys : flow[k] \in FlowRow
  BY DEF Tables
<1>2. \A k \in Keys : flow'[k] = IF k \in Serving THEN Ended(k, "expired") ELSE flow[k]
  OBVIOUS
<1>3. flow' \in [Keys -> FlowRow]
  BY <1>1, EndedFacts
<1> QED BY <1>1, <1>2, <1>3, EndedFacts DEF FlowsMove, Serving, Live

-----------------------------------------------------------------------------
(* The codes and the workers of such a step.                                *)

CodesKept == code' \in [Codes -> CodeRow] /\ \A c \in Codes : Keeps(code[c], code'[c])

LEMMA CodesStay == ASSUME Tables, code' = code PROVE CodesKept
  BY KeepsItself DEF Tables, CodesKept

LEMMA FencedStep ==
  ASSUME Tables, NEW target, NEW why \in {"void", "fenced"}, code' = Fenced(target, why)
  PROVE  CodesKept
  BY FencedFacts DEF Tables, CodesKept

\* One row is given up.
LEMMA VoidedStep ==
  ASSUME Tables, NEW c, code' = [d \in Codes |-> IF d = c THEN VoidRow(code[d]) ELSE code[d]]
  PROVE  CodesKept
<1>1. \A d \in Codes : Keeps(code[d], VoidRow(code[d])) /\ Keeps(code[d], code[d])
  BY VoidFacts, KeepsItself DEF Tables
<1> QED BY <1>1 DEF CodesKept, Keeps

\* One row is replaced by one that keeps what matters.
LEMMA ReplacedStep ==
  ASSUME Tables, NEW c \in Codes, NEW r, Keeps(code[c], r), code' = [code EXCEPT ![c] = r]
  PROVE  CodesKept
<1>1. \A d \in Codes : code[d] \in CodeRow /\ Keeps(code[d], code[d])
  BY KeepsItself DEF Tables
<1>2. \A d \in Codes : code'[d] = IF d = c THEN r ELSE code[d]
  BY DEF Tables
<1>3. code' \in [Codes -> CodeRow]
  BY <1>1 DEF Tables, Keeps
<1> QED BY <1>1, <1>2, <1>3 DEF CodesKept

LEMMA StagedStep ==
  ASSUME Tables, NEW c \in Unused, NEW deadline \in Nat, code' = Staged(c, deadline)
  PROVE  CodesKept
  BY StagedFacts DEF Tables, CodesKept

\* One worker goes on, or none; what was accepted stays accepted.
LEMMA GoStep ==
  ASSUME Tables, NEW w \in Workers, NEW t, Go(w, t), WorkerOK(t, accepted'),
         accepted \subseteq accepted'
  PROVE  WorkersOK'
<1>1. \A v \in Workers : worker'[v] = IF v = w THEN t ELSE worker[v]
  BY DEF Go, Tables, WorkersOK
<1>2. \A v \in Workers : WorkerOK(worker[v], accepted')
  BY DEF Tables, WorkersOK, WorkerOK
<1>3. worker' \in [Workers -> WorkerRow]
  BY DEF Go, Tables, WorkersOK, WorkerOK
<1> QED BY <1>1, <1>2, <1>3 DEF WorkersOK

LEMMA IdleFacts == \A taken : WorkerOK(Idle, taken)
  BY SignupAssumption DEF Idle, WorkerOK, WorkerRow

LEMMA DoneStep ==
  ASSUME Tables, NEW w \in Workers, Done(w), accepted \subseteq accepted'
  PROVE  WorkersOK'
  BY GoStep, IdleFacts DEF Done

LEMMA WorkersStay == ASSUME Tables, worker' = worker, accepted' = accepted PROVE WorkersOK'
  BY DEF Tables, WorkersOK, WorkerOK

\* The whole of such a step.
LEMMA QuietStep ==
  ASSUME SignupInv, now' \in 1 .. MaxTime, issued' \in 0 .. now',
         registration' = registration, bound' = bound, WorkersOK',
         accepted \subseteq accepted', accepted' \subseteq Codes,
         FlowsMove, LedgerMoves, CodesKept,
         \A k \in Keys : ledger'[k].state = "succeeded" =>
              ledger[k].state = "succeeded" \/ \E c \in accepted : code[c].row = "sent"
  PROVE  StepOK
<1>1. Browsers' /\ Markers' /\ Answers' /\ TombstonesKept
  BY GraphStep DEF SignupInv
<1>2. \A c \in Codes : code'[c].row = "sent" => c \in accepted'
  BY DEF SignupInv, Tables, CodesKept, Keeps
<1>3. Tables'
  BY <1>2 DEF SignupInv, Tables, FlowsMove, LedgerMoves, CodesKept
<1>4. SuccessWasDelivered'
  <2>1. SUFFICES ASSUME NEW k \in Keys, ledger'[k].state = "succeeded"
                 PROVE  \E c \in accepted' : code'[c].row = "sent"
    BY DEF SuccessWasDelivered
  <2>2. PICK c \in accepted : code[c].row = "sent"
    BY <2>1 DEF SignupInv, SuccessWasDelivered
  <2>3. c \in Codes
    BY <2>2 DEF SignupInv, Tables
  <2> QED BY <2>2, <2>3 DEF CodesKept, Keeps
<1>5. NewCodesServe
  BY DEF NewCodesServe, CodesKept, Keeps
<1> QED BY <1>1, <1>3, <1>4, <1>5 DEF StepOK, SignupInv

-----------------------------------------------------------------------------
(* The browser's handlers.                                                  *)

LEMMA ReplayStep ==
  ASSUME SignupInv, NEW k \in Keys, NEW x \in Contents, Replay(k, x)
  PROVE  StepOK
<1> USE DEF SignupInv
<1>1. /\ ledger[k].state \in {"pending", "succeeded", "neutralized"}
      /\ UNCHANGED <<now, registration, issued, worker, accepted>>
  BY DEF Replay
<1>2. WorkersOK'
  BY <1>1, WorkersStay
<1>3. CASE FlowLive(k)
  <2>1. /\ ledger[k].content = x /\ UNCHANGED <<ledger, flow, code>>
        /\ bound' = [bound EXCEPT ![k] = bound[k] \union {x}]
    BY <1>3 DEF Replay, Matches, Accept
  <2>2. /\ bound' \in [Keys -> SUBSET Contents]
        /\ \A j \in Keys : bound'[j] = IF j = k THEN bound[k] \union {x} ELSE bound[j]
    BY <2>1 DEF Tables
  <2>3. Answers'
    BY <1>1, <2>1, <2>2 DEF Answers
  <2>4. Tables'
    BY <1>1, <1>2, <2>1, <2>2 DEF Tables
  <2>5. Browsers' /\ Markers' /\ SuccessWasDelivered'
    BY <1>1, <2>1 DEF Browsers, Markers, SuccessWasDelivered
  <2>6. TombstonesKept /\ NewCodesServe
    BY <2>1 DEF TombstonesKept, NewCodesServe
  <2> QED BY <2>3, <2>4, <2>5, <2>6 DEF StepOK
<1>4. CASE ~ FlowLive(k)
  <2>1. /\ code' = [c \in Codes |-> IF c = ClosedCode(k) THEN VoidRow(code[c]) ELSE code[c]]
        /\ flow' = [flow EXCEPT ![k] = Ended(k, "expired")]
        /\ ledger' = [ledger EXCEPT ![k] = Tombstone("retired")]
        /\ bound' = bound
    BY <1>4 DEF Replay, Close
  <2>2. CodesKept
    BY <2>1, VoidedStep
  <2>3. /\ flow' \in [Keys -> FlowRow]
        /\ \A j \in Keys : flow'[j] = IF j = k THEN Ended(k, "expired") ELSE flow[j]
    BY <2>1, EndedFacts DEF Tables
  <2>4. FlowsMove /\ flow'[k].state \notin Live
    BY <2>3, EndedFacts DEF FlowsMove, Live
  <2>5. /\ ledger' \in [Keys -> LedgerRow]
        /\ \A j \in Keys : ledger'[j] = IF j = k THEN Tombstone("retired") ELSE ledger[j]
    BY <2>1, TombstoneFacts DEF Tables
  <2>6. LedgerMoves
    BY <1>1, <2>4, <2>5 DEF LedgerMoves
  <2>7. \A j \in Keys : ledger'[j].state = "succeeded" => ledger[j].state = "succeeded"
    BY <2>5, TombstoneFacts
  <2> QED BY <1>1, <1>2, <2>1, <2>2, <2>4, <2>6, <2>7, QuietStep DEF Tables
<1> QED BY <1>3, <1>4

\* A new signup in full: the registration is unfinished, no key is linked to it
\* but the new one, and no other flow may act.
LEMMA BeginsSignup ==
  ASSUME SignupInv, NEW k \in Keys, NEW x \in Contents, NEW c \in Unused, ledger[k].state = "none",
         NewSignup(k, x, c), UNCHANGED <<now, worker, accepted>>,
         registration' \in RegistrationRow, registration'.status = "otp_pending",
         \A j \in Keys : ~ ledger[j].linked,
         flow' \in [Keys -> FlowRow], flow'[k].real, flow'[k].state = "pending",
         \A j \in Keys : flow'[j].marker = NoContent,
         \A j \in Keys : j # k => flow'[j].real = flow[j].real,
         \A j \in Keys : j # k => flow'[j].state = IF flow[j].real /\ flow[j].state \in Live
                                                   THEN "consumed" ELSE flow[j].state
  PROVE  StepOK
<1> USE DEF SignupInv
<1>1. now \in Nat /\ now + ChallengeTTL \in Nat
  BY SignupAssumption DEF Tables
<1>2. /\ code' = Staged(c, now + ChallengeTTL) /\ issued' = now
      /\ ledger' = [ledger EXCEPT ![k] = [state |-> "pending", content |-> x, linked |-> TRUE, row |-> c]]
      /\ bound' = [bound EXCEPT ![k] = bound[k] \union {x}]
  BY DEF NewSignup, Accept
<1>3. CodesKept
  BY <1>1, <1>2, StagedStep
<1>4. c \in Codes
  BY DEF Unused
<1>5. [state |-> "pending", content |-> x, linked |-> TRUE, row |-> c] \in LedgerRow
  BY <1>4 DEF LedgerRow
<1>6. /\ ledger' \in [Keys -> LedgerRow]
      /\ \A j \in Keys : ledger'[j] = IF j = k
           THEN [state |-> "pending", content |-> x, linked |-> TRUE, row |-> c] ELSE ledger[j]
  BY <1>2, <1>5 DEF Tables
<1>7. /\ bound' \in [Keys -> SUBSET Contents]
      /\ \A j \in Keys : bound'[j] = IF j = k THEN bound[k] \union {x} ELSE bound[j]
  BY <1>2 DEF Tables
<1>8. WorkersOK'
  BY WorkersStay
<1>9. \A d \in Codes : code'[d].row = "sent" => d \in accepted'
  BY <1>3 DEF Tables, CodesKept, Keeps
<1>10. issued' \in 0 .. now' /\ now' \in 1 .. MaxTime
  BY <1>2 DEF Tables
<1>11. Tables'
  BY <1>3, <1>6, <1>7, <1>8, <1>9, <1>10 DEF Tables, CodesKept
<1>12. Browsers'
  BY <1>6 DEF Browsers, Live
<1>13. Markers'
  BY DEF Markers
<1>14. Answers'
  BY <1>6, <1>7 DEF Answers
<1>15. TombstonesKept
  BY <1>6 DEF TombstonesKept
<1>16. NewCodesServe
  BY <1>3 DEF NewCodesServe, CodesKept, Keeps
<1>17. SuccessWasDelivered'
  <2>1. SUFFICES ASSUME NEW j \in Keys, ledger'[j].state = "succeeded" PROVE FALSE
    BY DEF SuccessWasDelivered
  <2>2. ledger[j] \in LedgerRow /\ ledger[j].state = "succeeded"
    BY <1>6, <2>1 DEF Tables
  <2> QED BY <2>2, LedgerShape
<1> QED BY <1>11, <1>12, <1>13, <1>14, <1>15, <1>16, <1>17 DEF StepOK

LEMMA WithFlowFacts ==
  ASSUME Tables, NEW k \in Keys, NEW c \in Codes
  PROVE  /\ WithFlow(k, c) \in [Keys -> FlowRow]
         /\ WithFlow(k, c)[k].real /\ WithFlow(k, c)[k].state = "pending"
         /\ WithFlow(k, c)[k].marker = NoContent
         /\ \A j \in Keys : j # k =>
              /\ WithFlow(k, c)[j].real = flow[j].real /\ WithFlow(k, c)[j].marker = flow[j].marker
              /\ WithFlow(k, c)[j].state = IF flow[j].real /\ flow[j].state \in Live
                                           THEN "consumed" ELSE flow[j].state
<1> USE DEF FlowRow, Live
<1> DEFINE new == [NoFlow EXCEPT !.state = "pending", !.real = TRUE, !.code = c,
                                 !.expires = now + FlowTTL]
<1>1. /\ new \in FlowRow /\ new.real /\ new.state = "pending" /\ new.marker = NoContent
  <2>1. NoFlow \in FlowRow /\ NoFlow.marker = NoContent
    BY DEF NoFlow
  <2>2. now + FlowTTL \in Nat
    BY SignupAssumption DEF Tables
  <2>3. PICK n : n = NoFlow
    OBVIOUS
  <2>4. PICK a : a = [n EXCEPT !.state = "pending"]
    OBVIOUS
  <2>5. a \in FlowRow /\ a.state = "pending" /\ a.marker = NoContent
    BY <2>1, <2>3, <2>4
  <2>6. PICK b : b = [a EXCEPT !.real = TRUE]
    OBVIOUS
  <2>7. b \in FlowRow /\ b.state = "pending" /\ b.marker = NoContent /\ b.real
    BY <2>5, <2>6
  <2>8. PICK d : d = [b EXCEPT !.code = c]
    OBVIOUS
  <2>9. d \in FlowRow /\ d.state = "pending" /\ d.marker = NoContent /\ d.real
    BY <2>7, <2>8
  <2>10. new = [d EXCEPT !.expires = now + FlowTTL]
    BY <2>3, <2>4, <2>6, <2>8
  <2> HIDE DEF new
  <2> QED BY <2>2, <2>9, <2>10
<1> HIDE DEF new, FlowRow
<1>2. \A j \in Keys : WithFlow(k, c)[j] = IF j = k THEN new
        ELSE IF flow[j].real /\ flow[j].state \in Live THEN Ended(j, "consumed") ELSE flow[j]
  BY DEF WithFlow, new
<1>3. WithFlow(k, c) = [j \in Keys |-> WithFlow(k, c)[j]]
  BY DEF WithFlow
<1>4. \A j \in Keys : flow[j] \in FlowRow
  BY DEF Tables
<1>5. \A j \in Keys : WithFlow(k, c)[j] \in FlowRow
  BY <1>1, <1>2, <1>4, EndedFacts
<1>6. WithFlow(k, c) \in [Keys -> FlowRow]
  BY <1>3, <1>5
<1> QED BY <1>1, <1>2, <1>6, EndedFacts

LEMMA RegisterStep ==
  ASSUME SignupInv, NEW k \in Keys, NEW x \in Contents, NEW c \in Codes, Register(k, x, c)
  PROVE  StepOK
<1> USE DEF SignupInv
<1>1. /\ ledger[k].state = "none" /\ registration.status = "none" /\ c \in Unused
      /\ NewSignup(k, x, c) /\ UNCHANGED <<now, worker, accepted>>
      /\ registration' = [status |-> "otp_pending", created |-> now]
      /\ flow' = WithFlow(k, c)
  BY DEF Register
<1>2. registration' \in RegistrationRow /\ registration'.status = "otp_pending"
  BY <1>1 DEF RegistrationRow, Tables
<1>3. \A j \in Keys : ~ ledger[j].linked
  BY <1>1 DEF Browsers
<1>4. \A j \in Keys : flow[j].marker = NoContent
  BY <1>1 DEF Markers
<1> QED BY <1>1, <1>2, <1>3, <1>4, WithFlowFacts, BeginsSignup

LEMMA RestartStep ==
  ASSUME SignupInv, NEW k \in Keys, NEW x \in Contents, NEW c \in Codes, NEW r \in Keys,
         Restart(k, x, c, r)
  PROVE  StepOK
<1> USE DEF SignupInv
<1>1. /\ ledger[k].state = "none" /\ c \in Unused /\ flow[r].marker = x
      /\ registration.status = "otp_pending"
      /\ NewSignup(k, x, c) /\ UNCHANGED <<now, worker, accepted, registration>>
      /\ flow' = [WithFlow(k, c) EXCEPT ![r].marker = NoContent]
  BY DEF Restart, Restarts
<1>2. flow[r].marker # NoContent
  BY <1>1, SignupAssumption
<1>3. /\ \A j \in Keys : ~ ledger[j].linked
      /\ \A j \in Keys : j # r => flow[j].marker = NoContent
  BY <1>2 DEF Markers
<1>4. PICK g : g = WithFlow(k, c)
  OBVIOUS
<1>5. g \in [Keys -> FlowRow]
  BY <1>4, WithFlowFacts
<1>6. /\ \A j \in Keys : j # r => flow'[j] = g[j]
      /\ flow'[r] = [g[r] EXCEPT !.marker = NoContent] /\ g[r] \in FlowRow
      /\ flow' = [g EXCEPT ![r] = [g[r] EXCEPT !.marker = NoContent]]
  BY <1>1, <1>4, <1>5
<1>7. /\ flow'[r] \in FlowRow /\ flow'[r].marker = NoContent /\ flow'[r].real = g[r].real
      /\ flow'[r].state = g[r].state
  BY <1>6 DEF FlowRow
<1>8. flow' \in [Keys -> FlowRow]
  BY <1>5, <1>6, <1>7
<1>9. registration' \in RegistrationRow /\ registration'.status = "otp_pending"
  BY <1>1 DEF Tables
<1>10. /\ g[k].real /\ g[k].state = "pending" /\ g[k].marker = NoContent
       /\ \A j \in Keys : j # k =>
            /\ g[j].real = flow[j].real /\ g[j].marker = flow[j].marker
            /\ g[j].state = IF flow[j].real /\ flow[j].state \in Live THEN "consumed" ELSE flow[j].state
  BY <1>4, WithFlowFacts
<1>11. /\ flow'[k].real /\ flow'[k].state = "pending"
       /\ \A j \in Keys : flow'[j].marker = NoContent
       /\ \A j \in Keys : j # k => flow'[j].real = flow[j].real
       /\ \A j \in Keys : j # k => flow'[j].state = IF flow[j].real /\ flow[j].state \in Live
                                                    THEN "consumed" ELSE flow[j].state
  <2>1. \A j \in Keys : flow'[j].real = g[j].real /\ flow'[j].state = g[j].state
    BY <1>6, <1>7
  <2>2. \A j \in Keys : j # r => flow'[j].marker = g[j].marker
    BY <1>6
  <2>3. \A j \in Keys : flow'[j].marker = NoContent
    BY <1>3, <1>7, <1>10, <2>2
  <2> QED BY <1>10, <2>1, <2>3
<1> QED BY <1>1, <1>3, <1>8, <1>9, <1>11, BeginsSignup

LEMMA DecoyStep ==
  ASSUME SignupInv, NEW k \in Keys, NEW x \in Contents, Decoy(k, x)
  PROVE  StepOK
<1> USE DEF SignupInv
<1> DEFINE row == [state |-> "neutralized", content |-> x, linked |-> FALSE, row |-> NoCode]
           new == [NoFlow EXCEPT !.state = "pending", !.expires = now + FlowTTL]
<1>1. /\ ledger[k].state = "none"
      /\ ledger' = [ledger EXCEPT ![k] = row] /\ flow' = [flow EXCEPT ![k] = new]
      /\ bound' = [bound EXCEPT ![k] = bound[k] \union {x}]
      /\ UNCHANGED <<now, registration, code, issued, worker, accepted>>
  BY DEF Decoy, Accept
<1>2. row \in LedgerRow /\ row.state = "neutralized" /\ row.content = x /\ row.linked = FALSE
  BY DEF LedgerRow
<1>3. new \in FlowRow /\ new.state = "pending" /\ new.real = FALSE /\ new.marker = NoContent
  <2>1. NoFlow \in FlowRow /\ NoFlow.marker = NoContent /\ NoFlow.real = FALSE
    BY DEF NoFlow, FlowRow
  <2>2. now + FlowTTL \in Nat
    BY SignupAssumption DEF Tables
  <2>3. PICK n : n = NoFlow
    OBVIOUS
  <2>4. PICK a : a = [n EXCEPT !.state = "pending"]
    OBVIOUS
  <2>5. a \in FlowRow /\ a.state = "pending" /\ a.marker = NoContent /\ a.real = FALSE
    BY <2>1, <2>3, <2>4 DEF FlowRow, Live
  <2>6. new = [a EXCEPT !.expires = now + FlowTTL]
    BY <2>3, <2>4
  <2> HIDE DEF new
  <2> QED BY <2>2, <2>5, <2>6 DEF FlowRow
<1> HIDE DEF row, new
<1>4. /\ ledger' \in [Keys -> LedgerRow]
      /\ \A j \in Keys : ledger'[j] = IF j = k THEN row ELSE ledger[j]
  BY <1>1, <1>2 DEF Tables
<1>5. /\ flow' \in [Keys -> FlowRow]
      /\ \A j \in Keys : flow'[j] = IF j = k THEN new ELSE flow[j]
  BY <1>1, <1>3 DEF Tables
<1>6. /\ bound' \in [Keys -> SUBSET Contents]
      /\ \A j \in Keys : bound'[j] = IF j = k THEN bound[k] \union {x} ELSE bound[j]
  BY <1>1 DEF Tables
<1>7. WorkersOK'
  BY <1>1, WorkersStay
<1>8. Tables'
  BY <1>1, <1>4, <1>5, <1>6, <1>7 DEF Tables
<1>9. ~ ledger[k].linked
  BY <1>1, LedgerShape DEF Tables
<1>10. Browsers'
  BY <1>1, <1>2, <1>3, <1>4, <1>5, <1>9 DEF Browsers
<1>11. Markers'
  BY <1>1, <1>2, <1>3, <1>4, <1>5, <1>9 DEF Markers
<1>12. Answers'
  BY <1>1, <1>2, <1>4, <1>6 DEF Answers
<1>13. SuccessWasDelivered'
  BY <1>1, <1>2, <1>4 DEF SuccessWasDelivered
<1>14. TombstonesKept /\ NewCodesServe
  BY <1>1, <1>4 DEF TombstonesKept, NewCodesServe
<1> QED BY <1>8, <1>10, <1>11, <1>12, <1>13, <1>14 DEF StepOK

LEMMA ResendStep ==
  ASSUME SignupInv, NEW k \in Keys, NEW c \in Codes, Resend(k, c)
  PROVE  StepOK
<1> USE DEF SignupInv
<1> DEFINE deadline == Least(now + ChallengeTTL, flow[k].expires)
<1>1. deadline \in Nat
  BY SignupAssumption DEF Tables, FlowRow, Least
<1>2. /\ FlowLive(k) /\ flow[k].real /\ registration.status = "otp_pending" /\ issued' = now
      /\ UNCHANGED <<now, registration, worker, accepted, bound>>
  BY DEF Resend
<1>3. WorkersOK' /\ issued' \in 0 .. now' /\ now' \in 1 .. MaxTime
  BY <1>2, WorkersStay DEF Tables
<1>4. CASE InState("pending_delivery") # {}
  <2>1. code' = [code EXCEPT ![c].expires = deadline] /\ UNCHANGED <<ledger, flow>>
    BY <1>4 DEF Resend
  <2> HIDE DEF deadline
  <2>2. code[c] \in CodeRow
    BY DEF Tables
  <2>3. Keeps(code[c], [code[c] EXCEPT !.expires = deadline])
    BY <1>1, <2>2 DEF Keeps, CodeRow
  <2>4. code' = [code EXCEPT ![c] = [code[c] EXCEPT !.expires = deadline]]
    BY <2>1
  <2>5. CodesKept
    BY <2>3, <2>4, ReplacedStep
  <2> QED BY <1>2, <1>3, <2>1, <2>5, FlowsStay, LedgerStays, QuietStep DEF Tables
<1>5. CASE InState("pending_delivery") = {}
  <2>1. /\ c \in Unused /\ code' = Staged(c, deadline)
        /\ ledger' = [j \in Keys |-> IF ledger[j].state = "pending" THEN [ledger[j] EXCEPT !.row = c]
                                     ELSE ledger[j]]
        /\ flow' = [flow EXCEPT ![k].code = IF @ = NoCode THEN c ELSE @]
    BY <1>5 DEF Resend
  <2> HIDE DEF deadline
  <2>2. CodesKept
    BY <1>1, <2>1, StagedStep
  <2>3. ASSUME NEW j \in Keys, ledger[j].state = "pending"
        PROVE  /\ [ledger[j] EXCEPT !.row = c] \in LedgerRow
               /\ [ledger[j] EXCEPT !.row = c].state = "pending"
               /\ [ledger[j] EXCEPT !.row = c].content = ledger[j].content
    <3>1. ledger[j] \in [state : {"pending"}, content : Contents, linked : {TRUE}, row : Codes]
      BY <2>3 DEF Tables, LedgerRow
    <3>2. /\ [ledger[j] EXCEPT !.row = c]
               \in [state : {"pending"}, content : Contents, linked : {TRUE}, row : Codes]
          /\ [ledger[j] EXCEPT !.row = c].content = ledger[j].content
      BY <3>1
    <3> QED BY <3>2 DEF LedgerRow
  <2>4. \A j \in Keys : ledger'[j] = IF ledger[j].state = "pending" THEN [ledger[j] EXCEPT !.row = c]
                                     ELSE ledger[j]
    BY <2>1
  <2>5. LedgerMoves
    <3>1. \A j \in Keys : ledger'[j] \in LedgerRow
      BY <2>3, <2>4 DEF Tables
    <3>2. ledger' \in [Keys -> LedgerRow]
      BY <2>1, <3>1
    <3> QED BY <2>3, <2>4, <3>2 DEF LedgerMoves
  <2>6. PICK y : y = IF flow[k].code = NoCode THEN c ELSE flow[k].code
    OBVIOUS
  <2>7. y \in Codes \union {NoCode} /\ flow' = [flow EXCEPT ![k] = [flow[k] EXCEPT !.code = y]]
    BY <2>1, <2>6 DEF Tables, FlowRow
  <2>8. flow[k] \in FlowRow
    BY DEF Tables
  <2>9. /\ [flow[k] EXCEPT !.code = y] \in FlowRow
        /\ [flow[k] EXCEPT !.code = y].real = flow[k].real
        /\ [flow[k] EXCEPT !.code = y].marker = flow[k].marker
        /\ [flow[k] EXCEPT !.code = y].state = flow[k].state
    BY <2>7, <2>8 DEF FlowRow
  <2>10. FlowsMove
    <3>1. \A j \in Keys : flow'[j] = IF j = k THEN [flow[k] EXCEPT !.code = y] ELSE flow[j]
      BY <2>7 DEF Tables
    <3>2. flow' \in [Keys -> FlowRow]
      BY <2>7, <2>9 DEF Tables
    <3> QED BY <2>9, <3>1, <3>2 DEF FlowsMove
  <2>11. \A j \in Keys : ledger'[j].state = "succeeded" => ledger[j].state = "succeeded"
    BY <2>3, <2>4
  <2> QED BY <1>2, <1>3, <2>2, <2>5, <2>10, <2>11, QuietStep DEF Tables
<1> QED BY <1>4, <1>5

\* A flow that is live and real is the one of the linked key, and no cancelled
\* flow may be restarted beside it.
LEMMA LiveFlowFacts ==
  ASSUME Tables, Browsers, Markers, NEW k \in Keys, FlowLive(k), flow[k].real
  PROVE  /\ ledger[k].linked /\ ledger[k].state \in {"pending", "succeeded"}
         /\ registration.status = "otp_pending"
         /\ \A j \in Keys : ledger[j].linked => j = k
         /\ \A j \in Keys : flow[j].real /\ flow[j].state \in Live => j = k
         /\ \A j \in Keys : flow[j].marker = NoContent
<1>1. ledger[k].linked
  BY DEF Browsers, FlowLive
<1>2. ledger[k].state \in {"pending", "succeeded"}
  BY <1>1, LedgerShape DEF Tables
<1> QED BY <1>1, <1>2 DEF Browsers, Markers

LEMMA VerifyStep ==
  ASSUME SignupInv, NEW k \in Keys, Verify(k)
  PROVE  StepOK
<1> USE DEF SignupInv
<1> DEFINE c == flow[k].code
<1>1. /\ FlowLive(k) /\ flow[k].real /\ c # NoCode /\ code[c].challenge = "active" /\ c \in accepted
      /\ UNCHANGED <<now, issued, worker, accepted, bound>>
  BY DEF Verify
<1>2. c \in Codes /\ code[c] \in CodeRow
  BY <1>1 DEF Tables
<1>3. WorkersOK' /\ issued' \in 0 .. now' /\ now' \in 1 .. MaxTime
  BY <1>1, WorkersStay DEF Tables
<1>4. CASE code[c].expires <= now
  <2>1. code' = [code EXCEPT ![c] = [code[c] EXCEPT !.challenge = "void"]]
        /\ UNCHANGED <<ledger, registration, flow>>
    BY <1>4 DEF Verify
  <2> HIDE DEF c
  <2>2. Keeps(code[c], [code[c] EXCEPT !.challenge = "void"])
    BY <1>2 DEF Keeps, CodeRow
  <2>3. CodesKept
    BY <1>2, <2>1, <2>2, ReplacedStep
  <2> QED BY <1>1, <1>3, <2>1, <2>3, FlowsStay, LedgerStays, QuietStep DEF Tables
<1>5. CASE ~ (code[c].expires <= now)
  <2>1. /\ code' = [code EXCEPT ![c] = [VoidRow(code[c]) EXCEPT !.challenge = "consumed"]]
        /\ registration' = [registration EXCEPT !.status = "otp_verified"]
        /\ ledger' = [j \in Keys |-> IF ledger[j].linked THEN Tombstone("retired") ELSE ledger[j]]
        /\ flow' = [flow EXCEPT ![k] = Ended(k, "consumed")]
    BY <1>5 DEF Verify
  <2> HIDE DEF c
  <2>2. PICK v : v = VoidRow(code[c])
    OBVIOUS
  <2>3. v \in CodeRow /\ (v.row = "sent" <=> code[c].row = "sent")
    BY <1>2, <2>2, VoidFacts DEF Keeps
  <2>4. PICK r : r = [v EXCEPT !.challenge = "consumed"]
    OBVIOUS
  <2>5. Keeps(code[c], r)
    BY <2>3, <2>4 DEF Keeps, CodeRow
  <2>6. code' = [code EXCEPT ![c] = r]
    BY <2>1, <2>2, <2>4
  <2>7. CodesKept
    BY <1>2, <2>5, <2>6, ReplacedStep
  <2>8. /\ ledger' \in [Keys -> LedgerRow]
        /\ \A j \in Keys : ledger'[j] = IF ledger[j].linked THEN Tombstone("retired") ELSE ledger[j]
    BY <2>1, TombstoneFacts DEF Tables
  <2>9. /\ flow' \in [Keys -> FlowRow]
        /\ \A j \in Keys : flow'[j] = IF j = k THEN Ended(k, "consumed") ELSE flow[j]
    BY <2>1, EndedFacts DEF Tables
  <2>10. registration' \in RegistrationRow
    BY <2>1 DEF Tables, RegistrationRow
  <2>11. \A d \in Codes : code'[d].row = "sent" => d \in accepted'
    BY <1>1, <2>7 DEF Tables, CodesKept, Keeps
  <2>12. Tables'
    BY <1>1, <1>3, <2>7, <2>8, <2>9, <2>10, <2>11 DEF Tables, CodesKept
  <2>13. \A j \in Keys : /\ ~ ledger'[j].linked /\ ledger'[j].state # "succeeded"
                         /\ ledger[j].linked => ledger'[j].state = "retired"
                         /\ ~ ledger[j].linked => ledger'[j] = ledger[j]
    BY <2>8, TombstoneFacts, LedgerShape DEF Tables
  <2>14. \A j \in Keys : flow[j].real /\ flow[j].state \in Live => j = k
    BY <1>1, LiveFlowFacts
  <2>15. /\ \A j \in Keys : flow'[j].real = flow[j].real /\ flow'[j].marker = NoContent
         /\ flow'[k].state \notin Live
    BY <1>1, <2>9, EndedFacts, LiveFlowFacts DEF Live
  <2>16. Browsers'
    BY <2>9, <2>13, <2>14, <2>15 DEF Browsers
  <2>17. Markers'
    BY <2>15 DEF Markers
  <2>18. Answers'
    <3>1. \A j \in Keys : bound'[j] = bound[j]
      BY <1>1
    <3> QED BY <2>13, <3>1 DEF Answers
  <2>19. TombstonesKept
    BY <2>13, LedgerShape DEF TombstonesKept, Tables
  <2>20. SuccessWasDelivered'
    BY <2>13 DEF SuccessWasDelivered
  <2>21. NewCodesServe
    BY <2>7 DEF NewCodesServe, CodesKept, Keeps
  <2> QED BY <2>12, <2>16, <2>17, <2>18, <2>19, <2>20, <2>21 DEF StepOK
<1> QED BY <1>4, <1>5

LEMMA CancelStep ==
  ASSUME SignupInv, NEW k \in Keys, Cancel(k)
  PROVE  StepOK
<1> USE DEF SignupInv
<1> DEFINE e == Ended(k, "consumed")
           m == IF flow[k].real THEN ledger[k].content ELSE NoContent
<1>1. /\ FlowLive(k)
      /\ code' = IF flow[k].real THEN Fenced({}, "void") ELSE code
      /\ ledger' = IF flow[k].real THEN [ledger EXCEPT ![k] = Tombstone("retired")] ELSE ledger
      /\ flow' = [flow EXCEPT ![k] = [e EXCEPT !.marker = m]]
      /\ UNCHANGED <<now, registration, issued, worker, accepted, bound>>
  BY DEF Cancel, CancelledLedger
<1>2. e \in FlowRow /\ e.state = "consumed" /\ e.real = flow[k].real
  BY EndedFacts
<1>3. m \in Contents \union {NoContent} /\ (~ flow[k].real => m = NoContent)
  BY LedgerShape DEF Tables
<1> HIDE DEF e, m
<1>4. PICK f : f = [e EXCEPT !.marker = m]
  OBVIOUS
<1>5. f \in FlowRow /\ f.state = "consumed" /\ f.real = flow[k].real /\ f.marker = m
  BY <1>2, <1>3, <1>4 DEF FlowRow
<1>6. /\ flow' \in [Keys -> FlowRow]
      /\ \A j \in Keys : flow'[j] = IF j = k THEN f ELSE flow[j]
  BY <1>1, <1>4, <1>5 DEF Tables
<1>7. CodesKept
  <2>1. CASE flow[k].real
    BY <1>1, <2>1, FencedStep
  <2>2. CASE ~ flow[k].real
    BY <1>1, <2>2, CodesStay
  <2> QED BY <2>1, <2>2
<1>8. WorkersOK' /\ issued' \in 0 .. now' /\ now' \in 1 .. MaxTime
  BY <1>1, WorkersStay DEF Tables
<1>9. /\ ledger' \in [Keys -> LedgerRow]
      /\ \A j \in Keys : ledger'[j] = IF flow[k].real /\ j = k THEN Tombstone("retired") ELSE ledger[j]
  <2>1. CASE flow[k].real
    BY <1>1, <2>1, TombstoneFacts DEF Tables
  <2>2. CASE ~ flow[k].real
    BY <1>1, <2>2 DEF Tables
  <2> QED BY <2>1, <2>2
<1>10. \A d \in Codes : code'[d].row = "sent" => d \in accepted'
  BY <1>1, <1>7 DEF Tables, CodesKept, Keeps
<1>11. Tables'
  BY <1>1, <1>6, <1>7, <1>8, <1>9, <1>10 DEF Tables, CodesKept
<1>12. \A j \in Keys : ledger[j] \in LedgerRow
  BY DEF Tables
<1>13. flow[k].state \in Live /\ Tombstone("retired").linked = FALSE /\ Tombstone("retired").state = "retired"
  BY <1>1, TombstoneFacts DEF FlowLive
<1>14. ~ flow[k].real => ledger[k].state = "neutralized" /\ ~ ledger[k].linked
  BY <1>12, <1>13, LedgerShape DEF Browsers
<1>15. Browsers'
  <2>1. ASSUME NEW j \in Keys
        PROVE  /\ ledger'[j].linked => ledger[j].linked /\ j # k
               /\ flow'[j].state \in Live => j # k
    BY <1>5, <1>6, <1>9, <1>13, <1>14 DEF Live
  <2>2. registration' = registration /\ \A j \in Keys : j # k => ledger'[j] = ledger[j] /\ flow'[j] = flow[j]
    BY <1>1, <1>6, <1>9
  <2> QED BY <2>1, <2>2 DEF Browsers
<1>16. Markers'
  <2>1. CASE flow[k].real
    <3>1. /\ registration'.status = "otp_pending" /\ \A j \in Keys : ledger[j].linked => j = k
          /\ \A j \in Keys : flow[j].marker = NoContent
      BY <1>1, <2>1, LiveFlowFacts
    <3>2. \A j \in Keys : ~ ledger'[j].linked
      BY <1>9, <1>13, <2>1, <3>1
    <3>3. \A j \in Keys : flow'[j].marker # NoContent => j = k
      BY <1>6, <3>1
    <3> QED BY <1>5, <1>6, <2>1, <3>1, <3>2, <3>3 DEF Markers
  <2>2. CASE ~ flow[k].real
    <3>1. \A j \in Keys : flow'[j].marker # NoContent => flow'[j] = flow[j]
      BY <1>3, <1>5, <1>6, <2>2
    <3>2. ledger' = ledger /\ registration' = registration
      BY <1>1, <2>2
    <3> QED BY <3>1, <3>2 DEF Markers
  <2> QED BY <2>1, <2>2
<1>17. Answers'
  BY <1>1, <1>9, <1>13 DEF Answers
<1>18. TombstonesKept
  <2>1. flow[k].real => ledger[k].state \in {"pending", "succeeded"}
    BY <1>1, LiveFlowFacts
  <2> QED BY <1>9, <2>1 DEF TombstonesKept
<1>19. NewCodesServe
  BY <1>7 DEF NewCodesServe, CodesKept, Keeps
<1>20. SuccessWasDelivered'
  <2>1. \A j \in Keys : ledger'[j].state = "succeeded" => ledger[j].state = "succeeded"
    BY <1>9, <1>13
  <2>2. \A d \in accepted : code[d].row = "sent" => d \in accepted' /\ code'[d].row = "sent"
    BY <1>1, <1>7 DEF Tables, CodesKept, Keeps
  <2> QED BY <2>1, <2>2 DEF SuccessWasDelivered
<1> QED BY <1>11, <1>15, <1>16, <1>17, <1>18, <1>19, <1>20 DEF StepOK

-----------------------------------------------------------------------------
(* The workers.                                                             *)

\* A worker's step that settles no ledger row with success.
LEMMA WorkStep ==
  ASSUME SignupInv, UNCHANGED <<now, registration, issued, bound>>, WorkersOK',
         accepted \subseteq accepted', accepted' \subseteq Codes,
         FlowsMove, LedgerMoves, CodesKept,
         \A k \in Keys : ledger'[k].state = "succeeded" => ledger[k].state = "succeeded"
  PROVE  StepOK
<1>1. now' \in 1 .. MaxTime /\ issued' \in 0 .. now'
  BY DEF SignupInv, Tables
<1> QED BY <1>1, QuietStep

LEMMA StopStep ==
  ASSUME SignupInv, NEW w \in Workers, Stop(w), UNCHANGED <<now, registration, issued, bound>>
  PROVE  StepOK
<1> USE DEF SignupInv
<1>1. Done(w) /\ UNCHANGED <<ledger, flow, code, accepted>>
  BY DEF Stop
<1>2. WorkersOK'
  BY <1>1, DoneStep
<1>3. FlowsMove /\ LedgerMoves /\ CodesKept
  BY <1>1, FlowsStay, LedgerStays, CodesStay
<1> QED BY <1>1, <1>2, <1>3, WorkStep DEF Tables

\* A worker that only goes on.
LEMMA GoOnStep ==
  ASSUME SignupInv, NEW w \in Workers, NEW t, Go(w, t), WorkerOK(t, accepted),
         UNCHANGED <<now, registration, issued, bound, ledger, flow, code, accepted>>
  PROVE  StepOK
<1> USE DEF SignupInv
<1>1. WorkersOK'
  <2>1. WorkerOK(t, accepted') /\ accepted \subseteq accepted'
    OBVIOUS
  <2> QED BY <2>1, GoStep
<1>2. FlowsMove /\ LedgerMoves /\ CodesKept
  BY FlowsStay, LedgerStays, CodesStay
<1> QED BY <1>1, <1>2, WorkStep DEF Tables

\* The other steps of a worker leave what was accepted alone.
LEMMA WorkerGoes ==
  ASSUME SignupInv, NEW w \in Workers, NEW t, Go(w, t), WorkerOK(t, accepted),
         UNCHANGED <<now, registration, issued, bound, accepted>>,
         FlowsMove, LedgerMoves, CodesKept,
         \A k \in Keys : ledger'[k].state = "succeeded" => ledger[k].state = "succeeded"
  PROVE  StepOK
<1> USE DEF SignupInv
<1>1. WorkersOK'
  <2>1. WorkerOK(t, accepted') /\ accepted \subseteq accepted'
    OBVIOUS
  <2> QED BY <2>1, GoStep
<1> QED BY <1>1, WorkStep DEF Tables

\* The delivery found nothing to serve: the signup of key k is retired with
\* every flow that serves.
LEMMA RetireStep ==
  ASSUME SignupInv, NEW w \in Workers, Done(w), NEW k \in Keys, ledger[k].state = "pending",
         NEW target, code' = Fenced(target, "fenced"),
         flow' = [j \in Keys |-> IF j \in Serving THEN Ended(j, "expired") ELSE flow[j]],
         ledger' = [ledger EXCEPT ![k] = Tombstone("retired")],
         UNCHANGED <<now, registration, issued, bound, accepted>>
  PROVE  StepOK
<1> USE DEF SignupInv
<1>1. FlowsMove /\ \A j \in Keys : flow'[j].real => flow'[j].state \notin Live
  BY ServingEndsMoves
<1>2. CodesKept
  BY FencedStep
<1>3. /\ ledger' \in [Keys -> LedgerRow]
      /\ \A j \in Keys : ledger'[j] = IF j = k THEN Tombstone("retired") ELSE ledger[j]
  BY TombstoneFacts DEF Tables
<1>4. flow'[k].state \notin Live
  <2>1. ledger[k].linked
    BY LedgerShape DEF Tables
  <2>2. flow[k].real
    BY <2>1 DEF Browsers
  <2> QED BY <1>1, <2>2 DEF FlowsMove
<1>5. LedgerMoves
  BY <1>3, <1>4 DEF LedgerMoves
<1>6. \A j \in Keys : ledger'[j].state = "succeeded" => ledger[j].state = "succeeded"
  BY <1>3, TombstoneFacts
<1> QED BY <1>1, <1>2, <1>5, <1>6, IdleFacts, WorkerGoes DEF Done

LEMMA StartFinalizeStep ==
  ASSUME SignupInv, NEW w \in Workers, NEW k \in Keys, StartFinalize(w, k)
  PROVE  StepOK
<1> USE DEF SignupInv
<1>1. ledger[k].state = "pending" /\ UNCHANGED <<now, registration, issued, bound>>
  BY DEF StartFinalize, At
<1>2. CASE Available
  <2> DEFINE t == [pc |-> "deliver", key |-> k, row |-> ledger[k].row, token |-> 0]
  <2>1. Go(w, t) /\ UNCHANGED <<ledger, flow, code, accepted>>
    BY <1>2 DEF StartFinalize
  <2>2. ledger[k].row \in Codes
    BY <1>1, LedgerShape DEF Tables
  <2>3. WorkerOK(t, accepted)
    BY <2>2, SignupAssumption DEF WorkerOK, WorkerRow
  <2> HIDE DEF t
  <2> QED BY <1>1, <2>1, <2>3, GoOnStep
<1>3. CASE ~ Available
  <2>1. /\ code' = Fenced({ledger[k].row}, "fenced")
        /\ flow' = [j \in Keys |-> IF j \in Serving THEN Ended(j, "expired") ELSE flow[j]]
        /\ ledger' = [ledger EXCEPT ![k] = Tombstone("retired")]
        /\ Done(w) /\ UNCHANGED accepted
    BY <1>3 DEF StartFinalize
  <2> QED BY <1>1, <2>1, RetireStep
<1> QED BY <1>2, <1>3

LEMMA StartDeliveryStep ==
  ASSUME SignupInv, NEW w \in Workers, NEW c \in Codes, StartDelivery(w, c)
  PROVE  StepOK
<1> DEFINE t == [pc |-> "deliver", key |-> NoKey, row |-> c, token |-> 0]
<1>1. /\ Go(w, t) /\ UNCHANGED <<ledger, flow, code, accepted, now, registration, issued, bound>>
  BY DEF StartDelivery, At
<1>2. WorkerOK(t, accepted)
  BY SignupAssumption DEF WorkerOK, WorkerRow
<1> HIDE DEF t
<1> QED BY <1>1, <1>2, GoOnStep

\* A worker that takes another step of the same delivery.
LEMMA PcFacts ==
  ASSUME NEW taken, NEW t, WorkerOK(t, taken), t.row \in Codes,
         NEW p \in {"idle", "refused", "settle", "reconcile"},
         p \in {"settle", "reconcile"} => t.key \in Keys
  PROVE  WorkerOK([t EXCEPT !.pc = p], taken)
<1>1. PICK u : u = [t EXCEPT !.pc = p]
  OBVIOUS
<1>2. u \in WorkerRow /\ u.pc = p /\ u.row = t.row /\ u.key = t.key
  BY <1>1 DEF WorkerOK, WorkerRow
<1>3. WorkerOK(u, taken)
  BY <1>2 DEF WorkerOK
<1> QED BY <1>1, <1>3

LEMMA WorkerKey ==
  ASSUME Tables, NEW w \in Workers
  PROVE  /\ WorkerOK(worker[w], accepted) /\ worker[w].key \in Keys \union {NoKey}
         /\ worker[w].row \in Codes \union {NoCode} /\ worker[w].token \in 0 .. MaxSends
         /\ worker[w].pc # "idle" => worker[w].row \in Codes
  BY DEF Tables, WorkersOK, WorkerOK, WorkerRow

LEMMA ThenFacts ==
  ASSUME Tables, NEW w \in Workers, worker[w].pc # "idle", NEW answered \in BOOLEAN
  PROVE  WorkerOK(Then(w, answered), accepted)
<1>1. /\ WorkerOK(worker[w], accepted) /\ worker[w].row \in Codes
      /\ worker[w].key \in Keys \union {NoKey}
  BY WorkerKey
<1>2. PICK p : p = IF answered THEN "settle" ELSE "idle"
  OBVIOUS
<1>3. worker[w].key # NoKey => WorkerOK([worker[w] EXCEPT !.pc = p], accepted)
  BY <1>1, <1>2, PcFacts
<1> QED BY <1>2, <1>3, IdleFacts DEF Then

LEMMA UnavailableStep ==
  ASSUME SignupInv, NEW w \in Workers, worker[w].pc # "idle", Unavailable(w),
         UNCHANGED <<now, registration, issued, bound>>
  PROVE  StepOK
<1> USE DEF SignupInv
<1> DEFINE t == IF worker[w].key = NoKey THEN Idle ELSE [worker[w] EXCEPT !.pc = "reconcile"]
<1>1. /\ code' = Fenced({worker[w].row}, "fenced")
      /\ flow' = [j \in Keys |-> IF j \in Serving THEN Ended(j, "expired") ELSE flow[j]]
      /\ Go(w, t) /\ UNCHANGED <<ledger, accepted>>
  BY DEF Unavailable
<1>2. WorkerOK(t, accepted)
  <2>1. worker[w].key # NoKey => WorkerOK([worker[w] EXCEPT !.pc = "reconcile"], accepted)
    BY WorkerKey, PcFacts
  <2> QED BY <2>1, IdleFacts
<1> HIDE DEF t
<1>3. FlowsMove
  BY <1>1, ServingEndsMoves
<1>4. CodesKept
  BY <1>1, FencedStep
<1>5. LedgerMoves
  BY <1>1, LedgerStays
<1>6. \A j \in Keys : ledger'[j].state = "succeeded" => ledger[j].state = "succeeded"
  BY <1>1
<1> QED BY <1>1, <1>2, <1>3, <1>4, <1>5, <1>6, WorkerGoes

LEMMA ActiveFacts == Active \in Codes \union {NoCode}
  BY DEF Active, InState

LEMMA DiscardMoves ==
  ASSUME Tables, NEW c \in Codes, Discard(c)
  PROVE  FlowsMove /\ CodesKept
<1>1. CodesKept
  <2>1. code[c] \in CodeRow
    BY DEF Tables
  <2>2. Keeps(code[c], VoidRow(code[c])) /\ code' = [code EXCEPT ![c] = VoidRow(code[c])]
    BY <2>1, VoidFacts DEF Discard
  <2> QED BY <2>2, ReplacedStep
<1>2. CASE code[c].challenge # "pending_delivery"
  <2>1. flow' = flow
    BY <1>2 DEF Discard
  <2> QED BY <1>1, <2>1, FlowsStay
<1>3. CASE code[c].challenge = "pending_delivery"
  <2>1. PICK s : s = IF Active = NoCode THEN "pending" ELSE "code_sent"
    OBVIOUS
  <2>2. PICK y : y = Active
    OBVIOUS
  <2>3. flow' = [k \in Keys |-> IF k \notin Serving THEN flow[k]
                                ELSE [flow[k] EXCEPT !.code = y, !.state = s]]
    BY <1>3, <2>1, <2>2 DEF Discard
  <2>4. y \in Codes \union {NoCode} /\ s \in Live
    BY <2>1, <2>2, ActiveFacts DEF Live
  <2>5. ASSUME NEW k \in Keys
        PROVE  /\ [flow[k] EXCEPT !.code = y, !.state = s] \in FlowRow
               /\ [flow[k] EXCEPT !.code = y, !.state = s].real = flow[k].real
               /\ [flow[k] EXCEPT !.code = y, !.state = s].marker = flow[k].marker
               /\ [flow[k] EXCEPT !.code = y, !.state = s].state = s
    <3>1. flow[k] \in FlowRow
      BY DEF Tables
    <3>2. PICK a : a = [flow[k] EXCEPT !.code = y]
      OBVIOUS
    <3>3. a \in FlowRow /\ a.real = flow[k].real /\ a.marker = flow[k].marker
      BY <2>4, <3>1, <3>2 DEF FlowRow
    <3>4. PICK b : b = [a EXCEPT !.state = s]
      OBVIOUS
    <3>5. b \in FlowRow /\ b.real = flow[k].real /\ b.marker = flow[k].marker /\ b.state = s
      BY <2>4, <3>3, <3>4 DEF FlowRow
    <3>6. b = [flow[k] EXCEPT !.code = y, !.state = s]
      BY <3>2, <3>4
    <3> QED BY <3>5, <3>6
  <2>6. \A k \in Keys : flow'[k] = IF k \notin Serving THEN flow[k]
                                   ELSE [flow[k] EXCEPT !.code = y, !.state = s]
    BY <2>3
  <2>7. \A k \in Keys : flow'[k] \in FlowRow
    BY <2>5, <2>6 DEF Tables
  <2>8. flow' \in [Keys -> FlowRow]
    BY <2>3, <2>7
  <2>9. FlowsMove
    <3>1. \A k \in Serving : k \in Keys /\ flow[k].state \in Live
      BY DEF Serving
    <3> QED BY <2>4, <2>5, <2>6, <2>8, <3>1 DEF FlowsMove, Live
  <2> QED BY <1>1, <2>9
<1> QED BY <1>2, <1>3

LEMMA DiscardStep ==
  ASSUME SignupInv, NEW w \in Workers, NEW c \in Codes, Discard(c), Done(w),
         UNCHANGED <<now, registration, issued, bound, ledger, accepted>>
  PROVE  StepOK
<1> USE DEF SignupInv
<1>1. FlowsMove /\ CodesKept
  BY DiscardMoves
<1>2. LedgerMoves
  BY LedgerStays
<1>3. \A j \in Keys : ledger'[j].state = "succeeded" => ledger[j].state = "succeeded"
  OBVIOUS
<1> QED BY <1>1, <1>2, <1>3, IdleFacts, WorkerGoes DEF Done

\* The claim, and the provider's answer.
LEMMA ClaimStep ==
  ASSUME SignupInv, NEW w \in Workers, NEW c \in Codes, c = worker[w].row,
         worker[w].pc = "deliver", code[c].row \in Relayable, code[c].attempts < MaxSends,
         UNCHANGED <<now, registration, issued, bound, ledger, flow>>,
         code' = [code EXCEPT ![c].row = "claimed", ![c].attempts = @ + 1,
                              ![c].token = code[c].attempts + 1, ![c].lease = now + Lease],
         NEW answer \in {"accepted", "refused"},
         Go(w, [worker[w] EXCEPT !.pc = answer, !.token = code[c].attempts + 1]),
         accepted' = IF answer = "accepted" THEN accepted \union {c} ELSE accepted
  PROVE  StepOK
<1> USE DEF SignupInv
<1> DEFINE n == code[c].attempts + 1
<1>1. code[c] \in CodeRow /\ n \in 0 .. MaxSends /\ now + Lease \in Nat
  BY SignupAssumption DEF Tables, CodeRow
<1>2. /\ code' = [code EXCEPT ![c].row = "claimed", ![c].attempts = n,
                              ![c].token = n, ![c].lease = now + Lease]
      /\ Go(w, [worker[w] EXCEPT !.pc = answer, !.token = n])
  OBVIOUS
<1> HIDE DEF n
<1>3. PICK a : a = [code[c] EXCEPT !.row = "claimed"]
  OBVIOUS
<1>4. a \in CodeRow /\ a.row = "claimed" /\ a.challenge = code[c].challenge
  BY <1>1, <1>3 DEF CodeRow, Relayable
<1>5. PICK b : b = [a EXCEPT !.attempts = n]
  OBVIOUS
<1>6. b \in CodeRow /\ b.row = "claimed" /\ b.challenge = code[c].challenge
  BY <1>1, <1>4, <1>5 DEF CodeRow
<1>7. PICK d : d = [b EXCEPT !.token = n]
  OBVIOUS
<1>8. d \in CodeRow /\ d.row = "claimed" /\ d.challenge = code[c].challenge
  BY <1>1, <1>6, <1>7 DEF CodeRow
<1>9. PICK r : r = [d EXCEPT !.lease = now + Lease]
  OBVIOUS
<1>10. r \in CodeRow /\ r.row = "claimed" /\ r.challenge = code[c].challenge
  BY <1>1, <1>8, <1>9 DEF CodeRow
<1>11. code' = [code EXCEPT ![c] = r]
  BY <1>2, <1>3, <1>5, <1>7, <1>9 DEF Tables
<1>12. Keeps(code[c], r)
  BY <1>10 DEF Keeps, Relayable
<1>13. CodesKept
  BY <1>11, <1>12, ReplacedStep
<1>14. accepted \subseteq accepted' /\ accepted' \subseteq Codes /\ (answer = "accepted" => c \in accepted')
  BY DEF Tables
<1>15. PICK t : t = [worker[w] EXCEPT !.pc = answer]
  OBVIOUS
<1>16. worker[w] \in WorkerRow
  BY DEF Tables, WorkersOK
<1>17. t \in WorkerRow /\ t.pc = answer /\ t.row = c
  BY <1>15, <1>16 DEF WorkerRow
<1>18. PICK u : u = [t EXCEPT !.token = n]
  OBVIOUS
<1>19. u \in WorkerRow /\ u.pc = answer /\ u.row = c
  BY <1>1, <1>17, <1>18 DEF WorkerRow
<1>20. Go(w, u)
  BY <1>2, <1>15, <1>18
<1>21. WorkerOK(u, accepted')
  BY <1>14, <1>19 DEF WorkerOK
<1>22. WorkersOK'
  BY <1>14, <1>20, <1>21, GoStep
<1>23. FlowsMove /\ LedgerMoves
  BY FlowsStay, LedgerStays
<1>24. \A j \in Keys : ledger'[j].state = "succeeded" => ledger[j].state = "succeeded"
  OBVIOUS
<1> QED BY <1>13, <1>14, <1>22, <1>23, <1>24, WorkStep

LEMMA DeliverStep ==
  ASSUME SignupInv, NEW w \in Workers, Deliver(w)
  PROVE  StepOK
<1> USE DEF SignupInv
<1> DEFINE c == worker[w].row
<1>1. worker[w].pc = "deliver" /\ UNCHANGED <<now, registration, issued, bound>>
  BY DEF Deliver, At
<1>2. c \in Codes
  BY <1>1, WorkerKey
<1>3. CASE code[c].row \notin Relayable
  <2> DEFINE t == IF code[c].row = "fenced" /\ worker[w].key # NoKey
                  THEN [worker[w] EXCEPT !.pc = "reconcile"] ELSE Then(w, code[c].row = "sent")
  <2>1. Go(w, t) /\ UNCHANGED <<ledger, flow, code, accepted>>
    BY <1>3 DEF Deliver
  <2>2. worker[w].key # NoKey => WorkerOK([worker[w] EXCEPT !.pc = "reconcile"], accepted)
    BY <1>1, WorkerKey, PcFacts
  <2>3. PICK answered \in BOOLEAN : answered = (code[c].row = "sent")
    OBVIOUS
  <2>4. WorkerOK(Then(w, code[c].row = "sent"), accepted)
    BY <1>1, <2>3, ThenFacts
  <2>5. WorkerOK(t, accepted)
    BY <2>2, <2>4
  <2> HIDE DEF t
  <2> QED BY <1>1, <2>1, <2>5, GoOnStep
<1>4. CASE code[c].row \in Relayable /\ ~ Available
  <2>1. Unavailable(w)
    BY <1>4 DEF Deliver
  <2> QED BY <1>1, <2>1, UnavailableStep
<1>5. CASE code[c].row \in Relayable /\ Available /\ code[c].row = "claimed" /\ code[c].lease > now
  <2>1. Stop(w)
    BY <1>5 DEF Deliver
  <2> QED BY <1>1, <2>1, StopStep
<1>6. CASE /\ code[c].row \in Relayable /\ Available /\ ~ (code[c].row = "claimed" /\ code[c].lease > now)
           /\ ~ Claimable(c)
  <2>1. Discard(c) /\ Done(w) /\ UNCHANGED <<ledger, accepted>>
    BY <1>6 DEF Deliver
  <2> QED BY <1>1, <1>2, <2>1, DiscardStep
<1>7. CASE /\ code[c].row \in Relayable /\ Available /\ ~ (code[c].row = "claimed" /\ code[c].lease > now)
           /\ Claimable(c)
  <2>1. /\ code' = [code EXCEPT ![c].row = "claimed", ![c].attempts = @ + 1,
                                ![c].token = code[c].attempts + 1, ![c].lease = now + Lease]
        /\ UNCHANGED <<ledger, flow>>
        /\ \E answer \in {"accepted", "refused"} :
             /\ Go(w, [worker[w] EXCEPT !.pc = answer, !.token = code[c].attempts + 1])
             /\ accepted' = IF answer = "accepted" THEN accepted \union {c} ELSE accepted
    BY <1>7 DEF Deliver
  <2>2. code[c].attempts < MaxSends
    BY <1>7 DEF Claimable
  <2>3. PICK answer \in {"accepted", "refused"} :
             /\ Go(w, [worker[w] EXCEPT !.pc = answer, !.token = code[c].attempts + 1])
             /\ accepted' = IF answer = "accepted" THEN accepted \union {c} ELSE accepted
    BY <2>1
  <2> QED BY <1>1, <1>2, <1>7, <2>1, <2>2, <2>3, ClaimStep
<1> QED BY <1>3, <1>4, <1>5, <1>6, <1>7

\* The provider's yes, written by the worker that still owns the claim: the
\* only step that makes a code active, for a flow that serves.
LEMMA ActivationStep ==
  ASSUME SignupInv, NEW w \in Workers, NEW c \in Codes, c \in accepted,
         NEW k \in Serving, flow[k].expires > now, NEW deadline \in Nat,
         code' = Activated(c, deadline),
         flow' = [flow EXCEPT ![k].state = "code_sent", ![k].code = c],
         NEW t, Go(w, t), WorkerOK(t, accepted),
         UNCHANGED <<now, registration, issued, bound, ledger, accepted>>
  PROVE  StepOK
<1> USE DEF SignupInv
<1>1. k \in Keys /\ flow[k].real /\ flow[k].state \in Live /\ registration.status = "otp_pending"
  BY ServingIsLinked DEF Serving
<1>2. code[c] \in CodeRow
  BY DEF Tables
<1> DEFINE h == IF code[c].challenge = "pending_delivery" THEN "active" ELSE code[c].challenge
           e == IF code[c].challenge = "pending_delivery" THEN deadline ELSE code[c].expires
           row == [code[c] EXCEPT !.row = "sent", !.token = 0, !.lease = 0, !.challenge = h, !.expires = e]
<1>3. h \in Usable \union {"none", "superseded", "void", "consumed"} /\ e \in Nat
  BY <1>2 DEF CodeRow, Usable
<1>4. Activated(c, deadline) = [d \in Codes |-> IF d = c THEN row
        ELSE IF code[d].challenge = "active" /\ code[c].challenge = "pending_delivery"
             THEN [code[d] EXCEPT !.challenge = "superseded"] ELSE code[d]]
  BY DEF Activated
<1>5. row \in CodeRow
  <2> HIDE DEF h, e
  <2>1. PICK r1 : r1 = [code[c] EXCEPT !.row = "sent"]
    OBVIOUS
  <2>2. r1 \in CodeRow
    BY <1>2, <2>1 DEF CodeRow, Relayable
  <2>3. PICK r2 : r2 = [r1 EXCEPT !.token = 0]
    OBVIOUS
  <2>4. r2 \in CodeRow
    BY <2>2, <2>3, SignupAssumption DEF CodeRow
  <2>5. PICK r3 : r3 = [r2 EXCEPT !.lease = 0]
    OBVIOUS
  <2>6. r3 \in CodeRow
    BY <2>4, <2>5 DEF CodeRow
  <2>7. PICK r4 : r4 = [r3 EXCEPT !.challenge = h]
    OBVIOUS
  <2>8. r4 \in CodeRow
    BY <1>3, <2>6, <2>7 DEF CodeRow
  <2>9. row = [r4 EXCEPT !.expires = e]
    BY <2>1, <2>3, <2>5, <2>7
  <2> QED BY <1>3, <2>8, <2>9 DEF CodeRow
<1> HIDE DEF row, h, e
<1>6. ASSUME NEW d \in Codes
      PROVE  /\ [code[d] EXCEPT !.challenge = "superseded"] \in CodeRow
             /\ [code[d] EXCEPT !.challenge = "superseded"].row = code[d].row
  <2>1. code[d] \in CodeRow
    BY DEF Tables
  <2> QED BY <2>1 DEF CodeRow
<1>7. \A d \in Codes : code'[d] = IF d = c THEN row
        ELSE IF code[d].challenge = "active" /\ code[c].challenge = "pending_delivery"
             THEN [code[d] EXCEPT !.challenge = "superseded"] ELSE code[d]
  BY <1>4
<1>8. \A d \in Codes : code'[d] \in CodeRow
  BY <1>5, <1>6, <1>7 DEF Tables
<1>9. code' \in [Codes -> CodeRow]
  BY <1>4, <1>8
<1>10. \A d \in Codes : d # c => code'[d].row = code[d].row
  BY <1>6, <1>7
<1>11. \A d \in Codes : code'[d].row = "sent" => d \in accepted
  BY <1>10 DEF Tables
<1>12. \A d \in accepted : code[d].row = "sent" => code'[d].row = "sent"
  <2>1. row.row = "sent"
    BY <1>2 DEF row, CodeRow
  <2> QED BY <1>7, <1>10, <2>1 DEF Tables
<1>13. WorkersOK'
  <2>1. WorkerOK(t, accepted') /\ accepted \subseteq accepted'
    OBVIOUS
  <2> QED BY <2>1, GoStep
<1>14. FlowsMove
  <2>1. flow[k] \in FlowRow
    BY <1>1 DEF Tables
  <2>2. PICK a : a = [flow[k] EXCEPT !.state = "code_sent"]
    OBVIOUS
  <2>3. a \in FlowRow /\ a.state = "code_sent" /\ a.real = flow[k].real /\ a.marker = flow[k].marker
    BY <2>1, <2>2 DEF FlowRow, Live
  <2>4. PICK b : b = [a EXCEPT !.code = c]
    OBVIOUS
  <2>5. b \in FlowRow /\ b.state = "code_sent" /\ b.real = flow[k].real /\ b.marker = flow[k].marker
    BY <2>3, <2>4 DEF FlowRow
  <2>6. flow' = [flow EXCEPT ![k] = b]
    BY <1>1, <2>2, <2>4 DEF Tables
  <2>7. flow' \in [Keys -> FlowRow] /\ \A j \in Keys : flow'[j] = IF j = k THEN b ELSE flow[j]
    BY <2>5, <2>6 DEF Tables
  <2> QED BY <1>1, <2>5, <2>7 DEF FlowsMove
<1>15. LedgerMoves
  BY LedgerStays
<1>16. Browsers' /\ Markers' /\ Answers' /\ TombstonesKept
  BY <1>14, <1>15, GraphStep
<1>17. Tables'
  BY <1>9, <1>11, <1>13, <1>14 DEF Tables, FlowsMove
<1>18. SuccessWasDelivered'
  BY <1>12 DEF SuccessWasDelivered
<1>19. NewCodesServe
  BY <1>1 DEF NewCodesServe, FlowLive
<1> QED BY <1>16, <1>17, <1>18, <1>19 DEF StepOK

LEMMA AcceptedStep ==
  ASSUME SignupInv, NEW w \in Workers, Accepted(w)
  PROVE  StepOK
<1> USE DEF SignupInv
<1> DEFINE c == worker[w].row
<1>1. worker[w].pc = "accepted" /\ UNCHANGED <<now, registration, issued, bound>>
  BY DEF Accepted, At
<1>2. c \in Codes /\ c \in accepted
  BY <1>1, WorkerKey DEF WorkerOK
<1>3. WorkerOK(Then(w, TRUE), accepted)
  BY <1>1, ThenFacts
<1>4. CASE ~ OwnsClaim(w)
  <2>1. Go(w, Then(w, TRUE)) /\ UNCHANGED <<ledger, flow, code, accepted>>
    BY <1>4 DEF Accepted
  <2> QED BY <1>1, <1>3, <2>1, GoOnStep
<1>5. CASE OwnsClaim(w) /\ ~ Available
  <2>1. Unavailable(w)
    BY <1>5 DEF Accepted
  <2> QED BY <1>1, <2>1, UnavailableStep
<1>6. CASE OwnsClaim(w) /\ Available
  <2>1. PICK k \in Serving :
            /\ code' = Activated(c, Least(now + ChallengeTTL, flow[k].expires))
            /\ flow' = [flow EXCEPT ![k].state = "code_sent", ![k].code = c]
            /\ Go(w, Then(w, TRUE))
            /\ UNCHANGED <<ledger, accepted>>
    BY <1>6 DEF Accepted
  <2>2. k \in Keys /\ flow[k].expires > now
    BY <1>6 DEF Available, Serving
  <2>3. Least(now + ChallengeTTL, flow[k].expires) \in Nat
    BY <2>2, SignupAssumption DEF Tables, FlowRow, Least
  <2> QED BY <1>1, <1>2, <1>3, <2>1, <2>2, <2>3, ActivationStep
<1> QED BY <1>4, <1>5, <1>6

LEMMA RefusedStep ==
  ASSUME SignupInv, NEW w \in Workers, Refused(w)
  PROVE  StepOK
<1> USE DEF SignupInv
<1> DEFINE c == worker[w].row
<1>1. worker[w].pc = "refused" /\ UNCHANGED <<now, registration, issued, bound>>
  BY DEF Refused, At
<1>2. c \in Codes /\ code[c] \in CodeRow
  BY <1>1, WorkerKey DEF Tables
<1>3. CASE ~ OwnsClaim(w)
  <2>1. Stop(w)
    BY <1>3 DEF Refused
  <2> QED BY <1>1, <2>1, StopStep
<1>4. CASE OwnsClaim(w) /\ ~ Available
  <2>1. Unavailable(w)
    BY <1>4 DEF Refused
  <2> QED BY <1>1, <2>1, UnavailableStep
<1>5. CASE OwnsClaim(w) /\ Available /\ code[c].attempts >= MaxSends
  <2>1. Discard(c) /\ Done(w) /\ UNCHANGED <<ledger, accepted>>
    BY <1>5 DEF Refused
  <2> QED BY <1>1, <1>2, <2>1, DiscardStep
<1>6. CASE OwnsClaim(w) /\ Available /\ ~ (code[c].attempts >= MaxSends)
  <2>1. /\ code' = [code EXCEPT ![c].row = "failed", ![c].token = 0, ![c].lease = 0]
        /\ UNCHANGED flow /\ Done(w) /\ UNCHANGED <<ledger, accepted>>
    BY <1>6 DEF Refused
  <2>2. PICK a : a = [code[c] EXCEPT !.row = "failed"]
    OBVIOUS
  <2>3. a \in CodeRow /\ a.row = "failed" /\ a.challenge = code[c].challenge
    BY <1>2, <2>2 DEF CodeRow, Relayable
  <2>4. PICK b : b = [a EXCEPT !.token = 0]
    OBVIOUS
  <2>5. b \in CodeRow /\ b.row = "failed" /\ b.challenge = code[c].challenge
    BY <2>3, <2>4, SignupAssumption DEF CodeRow
  <2>6. PICK r : r = [b EXCEPT !.lease = 0]
    OBVIOUS
  <2>7. r \in CodeRow /\ r.row = "failed" /\ r.challenge = code[c].challenge
    BY <2>5, <2>6 DEF CodeRow
  <2>8. code' = [code EXCEPT ![c] = r]
    BY <2>1, <2>2, <2>4, <2>6 DEF Tables
  <2>9. code[c].row = "claimed"
    BY <1>6 DEF OwnsClaim
  <2>10. Keeps(code[c], r)
    BY <2>7, <2>9 DEF Keeps
  <2>11. CodesKept
    BY <1>2, <2>8, <2>10, ReplacedStep
  <2>12. FlowsMove /\ LedgerMoves
    BY <2>1, FlowsStay, LedgerStays
  <2>13. \A j \in Keys : ledger'[j].state = "succeeded" => ledger[j].state = "succeeded"
    BY <2>1
  <2> QED BY <1>1, <2>1, <2>11, <2>12, <2>13, IdleFacts, WorkerGoes DEF Done
<1> QED BY <1>3, <1>4, <1>5, <1>6

LEMMA SettleStep ==
  ASSUME SignupInv, NEW w \in Workers, Settle(w)
  PROVE  StepOK
<1> USE DEF SignupInv
<1> DEFINE k == worker[w].key
<1>1. worker[w].pc = "settle" /\ UNCHANGED <<now, registration, issued, bound>>
  BY DEF Settle, At
<1>2. k \in Keys /\ worker[w].row \in Codes
  BY <1>1, WorkerKey DEF WorkerOK
<1>3. CASE ~ StillWaits(w) \/ (Available /\ ~ Delivered(worker[w].row))
  <2>1. Stop(w)
    BY <1>3 DEF Settle
  <2> QED BY <1>1, <2>1, StopStep
<1>4. CASE StillWaits(w) /\ ~ Available
  <2>1. Retire(w) /\ ledger[k].state = "pending"
    BY <1>4 DEF Settle, StillWaits
  <2>2. /\ code' = Fenced({worker[w].row}, "fenced")
        /\ flow' = [j \in Keys |-> IF j \in Serving THEN Ended(j, "expired") ELSE flow[j]]
        /\ ledger' = [ledger EXCEPT ![k] = Tombstone("retired")]
        /\ Done(w) /\ UNCHANGED accepted
    BY <2>1 DEF Retire
  <2> HIDE DEF k
  <2> QED BY <1>1, <1>2, <2>1, <2>2, RetireStep
<1>5. CASE StillWaits(w) /\ Available /\ Delivered(worker[w].row)
  <2>1. /\ ledger' = [ledger EXCEPT ![k] = [ledger[k] EXCEPT !.state = "succeeded", !.row = NoCode]]
        /\ Done(w) /\ UNCHANGED <<flow, code, accepted>>
    BY <1>5 DEF Settle
  <2>2. ledger[k].state = "pending" /\ code[worker[w].row].row = "sent"
    BY <1>5 DEF StillWaits, Delivered
  <2>3. worker[w].row \in accepted
    BY <1>2, <2>2 DEF Tables
  <2> HIDE DEF k
  <2>4. ledger[k] \in [state : {"pending"}, content : Contents, linked : {TRUE}, row : Codes]
    BY <1>2, <2>2 DEF Tables, LedgerRow
  <2>5. PICK a : a = [ledger[k] EXCEPT !.state = "succeeded"]
    OBVIOUS
  <2>6. /\ a \in [state : {"succeeded"}, content : Contents, linked : {TRUE}, row : Codes]
        /\ a.content = ledger[k].content
    BY <2>4, <2>5
  <2>7. PICK b : b = [a EXCEPT !.row = NoCode]
    OBVIOUS
  <2>8. /\ b \in [state : {"succeeded"}, content : Contents, linked : {TRUE}, row : {NoCode}]
        /\ b.content = ledger[k].content /\ b.state = "succeeded"
    BY <2>6, <2>7
  <2>9. b \in LedgerRow
    BY <2>8 DEF LedgerRow
  <2>10. ledger' = [ledger EXCEPT ![k] = b]
    BY <2>1, <2>5, <2>7
  <2>11. /\ ledger' \in [Keys -> LedgerRow]
         /\ \A j \in Keys : ledger'[j] = IF j = k THEN b ELSE ledger[j]
    BY <2>9, <2>10 DEF Tables
  <2>12. LedgerMoves
    BY <2>2, <2>8, <2>11 DEF LedgerMoves
  <2>13. FlowsMove /\ CodesKept
    BY <2>1, FlowsStay, CodesStay
  <2>14. WorkersOK'
    BY <2>1, DoneStep
  <2>15. now' \in 1 .. MaxTime /\ issued' \in 0 .. now'
    BY <1>1 DEF Tables
  <2>16. \E c \in accepted : code[c].row = "sent"
    BY <2>2, <2>3
  <2> QED BY <1>1, <2>1, <2>12, <2>13, <2>14, <2>15, <2>16, QuietStep DEF Tables
<1> QED BY <1>3, <1>4, <1>5

LEMMA ReconcileStep ==
  ASSUME SignupInv, NEW w \in Workers, Reconcile(w)
  PROVE  StepOK
<1> USE DEF SignupInv
<1> DEFINE k == worker[w].key
<1>1. worker[w].pc = "reconcile" /\ UNCHANGED <<now, registration, issued, bound>>
  BY DEF Reconcile, At
<1>2. k \in Keys
  BY <1>1, WorkerKey DEF WorkerOK
<1>3. CASE StillWaits(w) /\ ~ Available
  <2>1. Retire(w) /\ ledger[k].state = "pending"
    BY <1>3 DEF Reconcile, StillWaits
  <2>2. /\ code' = Fenced({worker[w].row}, "fenced")
        /\ flow' = [j \in Keys |-> IF j \in Serving THEN Ended(j, "expired") ELSE flow[j]]
        /\ ledger' = [ledger EXCEPT ![k] = Tombstone("retired")]
        /\ Done(w) /\ UNCHANGED accepted
    BY <2>1 DEF Retire
  <2> HIDE DEF k
  <2> QED BY <1>1, <1>2, <2>1, <2>2, RetireStep
<1>4. CASE ~ (StillWaits(w) /\ ~ Available)
  <2>1. Stop(w)
    BY <1>4 DEF Reconcile
  <2> QED BY <1>1, <2>1, StopStep
<1> QED BY <1>3, <1>4

LEMMA CrashStep ==
  ASSUME SignupInv, NEW w \in Workers, Crash(w)
  PROVE  StepOK
  BY StopStep DEF Crash, At

-----------------------------------------------------------------------------
(* Retention and time.                                                      *)

Erases == registration.status = "otp_pending" /\ ((\E k \in Late : flow[k].real) \/ Overdue)

LEMMA PurgeStep ==
  ASSUME SignupInv, Purge
  PROVE  StepOK
<1> USE DEF SignupInv
<1>1. /\ registration' = IF Erases THEN NoRegistration ELSE registration
      /\ flow' = [k \in Keys |-> IF flow[k].real /\ Erases THEN NoFlow
                                 ELSE IF k \in Late THEN Ended(k, "expired") ELSE flow[k]]
      /\ ledger' = [k \in Keys |-> IF ledger[k].linked /\ Erases THEN Tombstone("erased")
                                   ELSE IF k \in Late THEN Tombstone("retired") ELSE ledger[k]]
      /\ code' = [c \in Codes |-> IF Erases /\ code[c] # FreshCode THEN Erased
                                  ELSE IF \E k \in Late : ClosedCode(k) = c THEN VoidRow(code[c])
                                  ELSE code[c]]
      /\ issued' = IF Erases THEN 0 ELSE issued
      /\ UNCHANGED <<now, worker, accepted, bound>>
  BY DEF Purge, Erases
<1>2. WorkersOK'
  BY <1>1, WorkersStay
<1>3. /\ \A k \in Keys : flow'[k] = IF flow[k].real /\ Erases THEN NoFlow
                                    ELSE IF k \in Late THEN Ended(k, "expired") ELSE flow[k]
      /\ \A k \in Keys : ledger'[k] = IF ledger[k].linked /\ Erases THEN Tombstone("erased")
                                      ELSE IF k \in Late THEN Tombstone("retired") ELSE ledger[k]
  BY <1>1
<1>4. \A k \in Keys : flow[k] \in FlowRow /\ ledger[k] \in LedgerRow
  BY DEF Tables
<1>5. /\ NoFlow \in FlowRow /\ NoFlow.state = "none" /\ NoFlow.marker = NoContent
      /\ Tombstone("erased") \in LedgerRow /\ Tombstone("erased").state = "erased"
      /\ Tombstone("retired") \in LedgerRow /\ Tombstone("retired").state = "retired"
      /\ Tombstone("erased").linked = FALSE /\ Tombstone("retired").linked = FALSE
  BY TombstoneFacts DEF NoFlow, FlowRow
<1>6. flow' \in [Keys -> FlowRow] /\ ledger' \in [Keys -> LedgerRow]
  <2>1. \A k \in Keys : flow'[k] \in FlowRow /\ ledger'[k] \in LedgerRow
    BY <1>3, <1>4, <1>5, EndedFacts
  <2> QED BY <1>1, <2>1
<1>7. \A k \in Late : /\ k \in Keys /\ flow[k].state \in Live
                      /\ flow[k].real => ledger[k].linked
                      /\ ledger[k].state \in {"pending", "succeeded", "neutralized"}
  BY <1>4, LedgerShape DEF Late, Browsers
<1>8. /\ code' \in [Codes -> CodeRow]
      /\ \A c \in Codes : code'[c].row = "sent" => ~ Erases /\ code[c].row = "sent"
      /\ \A c \in Codes : ~ Erases => Keeps(code[c], code'[c])
      /\ \A c \in Codes : code'[c].challenge = "active" => code[c].challenge = "active"
  <2>1. \A c \in Codes : code[c] \in CodeRow /\ Keeps(code[c], VoidRow(code[c])) /\ Keeps(code[c], code[c])
    BY VoidFacts, KeepsItself DEF Tables
  <2>2. \A c \in Codes : code'[c] = IF Erases /\ code[c] # FreshCode THEN Erased
                                    ELSE IF \E k \in Late : ClosedCode(k) = c THEN VoidRow(code[c])
                                    ELSE code[c]
    BY <1>1
  <2>3. \A c \in Codes : code'[c] \in CodeRow
    BY <2>1, <2>2, ErasedFacts DEF Keeps
  <2>4. code' \in [Codes -> CodeRow]
    BY <1>1, <2>3
  <2>5. ASSUME NEW c \in Codes
        PROVE  /\ code'[c].row = "sent" => ~ Erases /\ code[c].row = "sent"
               /\ ~ Erases => Keeps(code[c], code'[c])
               /\ code'[c].challenge = "active" => code[c].challenge = "active"
    BY <2>1, <2>2, ErasedFacts, FreshFacts DEF Keeps
  <2> QED BY <2>4, <2>5
<1>9. CASE Erases
  <2>1. registration' = NoRegistration /\ issued' = 0
    BY <1>1, <1>9
  <2>2. Tables'
    <3>1. NoRegistration \in RegistrationRow
      BY DEF NoRegistration, RegistrationRow
    <3> QED BY <1>1, <1>2, <1>6, <1>8, <2>1, <3>1 DEF Tables
  <2>3. \A k \in Keys : /\ ~ ledger'[k].linked /\ ledger'[k].state # "succeeded"
                        /\ flow'[k].state \in Live => /\ ~ flow'[k].real /\ flow'[k] = flow[k]
                                                      /\ k \notin Late
    BY <1>3, <1>4, <1>5, <1>9, EndedFacts, LedgerShape DEF Live
  <2>4. Browsers'
    <3>1. ASSUME NEW k \in Keys, flow'[k].state \in Live
          PROVE  ~ flow'[k].real /\ ledger'[k].state = "neutralized"
      <4>1. ~ flow[k].real /\ flow[k].state \in Live /\ k \notin Late
        BY <2>3, <3>1
      <4>2. ledger[k].state = "neutralized" /\ ~ ledger[k].linked
        BY <1>4, <4>1, LedgerShape DEF Browsers
      <4> QED BY <1>3, <2>3, <3>1, <4>1, <4>2
    <3> QED BY <2>3, <3>1 DEF Browsers
  <2>5. Markers'
    <3>1. \A k \in Keys : flow'[k].marker = NoContent
      BY <1>3, <1>5, <1>9, EndedFacts DEF Markers
    <3> QED BY <3>1 DEF Markers
  <2>6. Answers'
    <3>1. ASSUME NEW k \in Keys
          PROVE  ledger'[k] = ledger[k] \/ ledger'[k].state \in {"retired", "erased"}
      BY <1>3, <1>5
    <3> QED BY <1>1, <3>1 DEF Answers
  <2>7. SuccessWasDelivered'
    BY <2>3 DEF SuccessWasDelivered
  <2>8. TombstonesKept
    BY <1>3, <1>4, <1>7, LedgerShape DEF TombstonesKept
  <2>9. NewCodesServe
    BY <1>8 DEF NewCodesServe
  <2> QED BY <2>2, <2>4, <2>5, <2>6, <2>7, <2>8, <2>9 DEF StepOK
<1>10. CASE ~ Erases
  <2>1. registration' = registration /\ now' \in 1 .. MaxTime /\ issued' \in 0 .. now'
    BY <1>1, <1>10 DEF Tables
  <2>2. FlowsMove
    BY <1>3, <1>6, <1>10, EndedFacts DEF FlowsMove, Live
  <2>3. LedgerMoves
    <3>1. \A k \in Late : flow'[k].state \notin Live
      BY <1>3, <1>7, <1>10, EndedFacts DEF Live
    <3> QED BY <1>3, <1>6, <1>7, <1>10, <3>1 DEF LedgerMoves
  <2>4. CodesKept
    BY <1>8, <1>10 DEF CodesKept
  <2>5. \A k \in Keys : ledger'[k].state = "succeeded" => ledger[k].state = "succeeded"
    BY <1>3, <1>5, <1>10
  <2> QED BY <1>1, <1>2, <2>1, <2>2, <2>3, <2>4, <2>5, QuietStep DEF Tables
<1> QED BY <1>9, <1>10

LEMMA TickStep ==
  ASSUME SignupInv, Tick
  PROVE  StepOK
<1> USE DEF SignupInv
<1>1. /\ now < MaxTime /\ now' = now + 1
      /\ UNCHANGED <<ledger, registration, flow, code, issued, worker, accepted, bound>>
  BY DEF Tick
<1>2. now' \in 1 .. MaxTime /\ issued' \in 0 .. now'
  BY <1>1, SignupAssumption DEF Tables
<1>3. WorkersOK' /\ FlowsMove /\ LedgerMoves /\ CodesKept
  BY <1>1, WorkersStay, FlowsStay, LedgerStays, CodesStay
<1>4. \A k \in Keys : ledger'[k].state = "succeeded" => ledger[k].state = "succeeded"
  BY <1>1
<1> QED BY <1>1, <1>2, <1>3, <1>4, QuietStep DEF Tables

-----------------------------------------------------------------------------
(* The invariant and what follows from it.                                  *)

LEMMA SignupInitInv == SignupInit => SignupInv
<1> SUFFICES ASSUME SignupInit PROVE SignupInv
  OBVIOUS
<1> USE DEF SignupInit
<1>1. NoLedger \in LedgerRow /\ NoLedger.state = "none" /\ NoLedger.linked = FALSE
  BY DEF NoLedger, LedgerRow
<1>2. NoFlow \in FlowRow /\ NoFlow.state = "none" /\ NoFlow.marker = NoContent
  BY DEF NoFlow, FlowRow
<1>3. NoRegistration \in RegistrationRow
  BY DEF NoRegistration, RegistrationRow
<1>4. WorkersOK
  BY IdleFacts DEF WorkersOK, WorkerOK
<1>5. Tables
  BY <1>1, <1>2, <1>3, <1>4, FreshFacts, SignupAssumption DEF Tables
<1>6. Browsers /\ Markers
  BY <1>1, <1>2 DEF Browsers, Markers, Live
<1>7. Answers /\ SuccessWasDelivered
  BY <1>1 DEF Answers, SuccessWasDelivered
<1> QED BY <1>5, <1>6, <1>7 DEF SignupInv

LEMMA SignupStep == SignupInv /\ [SignupNext]_signupVars => StepOK
<1> SUFFICES ASSUME SignupInv, [SignupNext]_signupVars PROVE StepOK
  OBVIOUS
<1>1. CASE Browser
  BY <1>1, ReplayStep, DecoyStep, RegisterStep, RestartStep, ResendStep, VerifyStep, CancelStep DEF Browser
<1>2. CASE Purge \/ Tick
  BY <1>2, PurgeStep, TickStep
<1>3. ASSUME NEW w \in Workers, Work(w) PROVE StepOK
  BY <1>3, DeliverStep, AcceptedStep, RefusedStep, SettleStep, ReconcileStep DEF Work
<1>4. ASSUME NEW w \in Workers, Relay(w) \/ Crash(w) PROVE StepOK
  BY <1>4, StartFinalizeStep, StartDeliveryStep, CrashStep DEF Relay
<1>5. CASE UNCHANGED signupVars
  <2>1. UNCHANGED <<now, ledger, registration, flow, code, issued, worker, accepted, bound>>
    BY <1>5 DEF signupVars
  <2>2. WorkersOK' /\ FlowsMove /\ LedgerMoves /\ CodesKept
    BY <2>1, WorkersStay, FlowsStay, LedgerStays, CodesStay DEF SignupInv
  <2>3. \A k \in Keys : ledger'[k].state = "succeeded" => ledger[k].state = "succeeded"
    BY <2>1
  <2> QED BY <2>1, <2>2, <2>3, WorkStep DEF SignupInv, Tables
<1> QED BY <1>1, <1>2, <1>3, <1>4, <1>5 DEF SignupNext

LEMMA SignupInvHolds == SignupSpec => []SignupInv
<1>1. SignupInv /\ [SignupNext]_signupVars => SignupInv'
  BY SignupStep DEF StepOK
<1> QED BY <1>1, SignupInitInv, PTL DEF SignupSpec

\* Rows have the shapes of their tables, whatever order the handlers come in.
THEOREM SignupTyped == SignupSpec => []SignupTypeOK
<1>1. SignupInv => SignupTypeOK
  BY WorkerKey DEF SignupInv, Tables, SignupTypeOK
<1> QED BY <1>1, SignupInvHolds, PTL

\* A set whose members are all equal has at most one.
LEMMA AtMostOne ==
  ASSUME NEW S, \A x, y \in S : x = y
  PROVE  Cardinality(S) <= 1
<1>1. CASE S = {}
  BY <1>1, FS_EmptySet
<1>2. CASE S # {}
  <2>1. PICK x \in S : TRUE
    BY <1>2
  <2>2. S = {x}
    BY <2>1
  <2> QED BY <2>2, FS_Singleton
<1> QED BY <1>1, <1>2

\* One browser drives the unfinished registration, whatever keys are replayed,
\* cancelled and restarted.
THEOREM OneBrowserAtATime == SignupSpec => []OneBrowserPerSignup
<1>1. ASSUME SignupInv PROVE OneBrowserPerSignup
  <2>1. Serving \subseteq Linked /\ \A j, k \in Serving : j = k
    BY <1>1, ServingIsLinked DEF SignupInv
  <2>2. \A j, k \in Linked : j = k
    BY <1>1 DEF SignupInv, Browsers, Linked
  <2>3. Cardinality(Serving) <= 1 /\ Cardinality(Linked) <= 1
    BY <2>1, <2>2, AtMostOne
  <2> QED BY <1>1, <2>1, <2>3 DEF OneBrowserPerSignup, SignupInv, Browsers, Linked
<1> QED BY <1>1, SignupInvHolds, PTL

\* A key answers for one content, for good.
THEOREM KeysKeepContent == SignupSpec => []KeyKeepsContent
<1>1. ASSUME SignupInv PROVE KeyKeepsContent
  BY <1>1, AtMostOne DEF SignupInv, Answers, KeyKeepsContent
<1> QED BY <1>1, SignupInvHolds, PTL

\* Success is reported only of a signup whose code was delivered.
THEOREM SuccessIsEarned == SignupSpec => []SuccessWasDelivered
<1>1. SignupInv => SuccessWasDelivered
  BY DEF SignupInv
<1> QED BY <1>1, SignupInvHolds, PTL

\* A late delivery does not revive a signup that is over.
THEOREM TombstonesStand == SignupSpec => RetiredStaysRetired
<1>1. SignupInv /\ [SignupNext]_signupVars => TombstonesKept
  BY SignupStep DEF StepOK
<1> QED BY <1>1, SignupInvHolds, PTL DEF SignupSpec, RetiredStaysRetired, TombstonesKept

\* A code becomes valid only for an unfinished registration with a live flow.
THEOREM CodesServeSignups == SignupSpec => NoCodeAfterTheEnd
<1>1. SignupInv /\ [SignupNext]_signupVars => NewCodesServe
  BY SignupStep DEF StepOK
<1> QED BY <1>1, SignupInvHolds, PTL DEF SignupSpec, NoCodeAfterTheEnd, NewCodesServe
=============================================================================
