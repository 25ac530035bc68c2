--------------------------- MODULE MentorCeremony ---------------------------
(***************************************************************************)
(* A mentor's way to a session with a student's data, and out of it again: *)
(* invitation, ceremony, identity provider, session generations, the       *)
(* step-up that deletes all authority of a mentor, privacy requests of the *)
(* student, expiry (mentor_ceremony.py, workers/mentor_identity_relay.py). *)
(*                                                                         *)
(* A handler takes one advisory lock and the rows it decides on, so it is  *)
(* one step; the relay is not: it claims a transaction, asks the provider  *)
(* without a lock, and settles the answer later, or never.                 *)
(*                                                                         *)
(* Any cookie ever issued may be presented at any time: a tab may be old   *)
(* and a response lost.  A replay under an idempotency key changes nothing *)
(* and is left out, as is every refusal: by the rate budget, by the        *)
(* session the actor has as a student, or because the student may not or   *)
(* does not want to share any more.                                        *)
(***************************************************************************)
EXTENDS Naturals, FiniteSets

CONSTANTS Actors,       \* mentors; the provider knows each by one subject
          Purposes, Invitations, Ceremonies, StepUps,
          NoActor, NoPurpose, NoInvitation, NoCeremony,   \* SQL NULL
          CeremonyTTL, ProviderTTL, SessionTTL, IdleTTL, StepUpTTL,
          MaxGeneration,  \* mentor_session_max_generation
          MaxSessions,    \* bound: sessions that are ever opened
          MaxRejected,    \* bound: denials reject nothing once so many transactions are
          MaxTime         \* bound: the clock stops there

ASSUME CeremonyAssumption ==
  /\ NoActor \notin Actors /\ NoPurpose \notin Purposes /\ NoInvitation \notin Invitations
  /\ NoCeremony \notin Ceremonies
  /\ {CeremonyTTL, ProviderTTL, SessionTTL, IdleTTL, StepUpTTL, MaxGeneration} \subseteq Nat \ {0}
  /\ MaxSessions \in Nat /\ MaxRejected \in Nat /\ MaxTime \in Nat \ {0}

VARIABLES now,
          proof,       \* proof[a]: state of the actor's tutor_profile_ownership_proofs row
          invitation,  \* mentor_invitations, with consents and engagement, which share its fate
          ceremony,    \* mentor_ceremonies, with bootstrap and provider result
          session,     \* mentor_sessions
          stepUp,      \* mentor_authority_step_ups
          ended        \* sessions whose revoke or logout was answered: done, or nothing left to do

ceremonyVars == <<now, proof, invitation, ceremony, session, stepUp, ended>>

-----------------------------------------------------------------------------
\* Sessions are numbered in the order in which they are opened.
Sessions == 1 .. MaxSessions
NoSession == 0

LiveCeremony == {"challenge_issued", "proof_verified"}
Unsettled == {"pending", "dispatched", "verified"}

InvitationRow == [state : {"none", "pending", "accepted", "expired", "deleted"},
                  actor : Actors \union {NoActor}, purpose : Purposes \union {NoPurpose}, until : Nat]
CeremonyRow ==
  [state : LiveCeremony \union {"none", "bootstrap", "exchanged", "expired", "revoked", "deleted"},
   intent : {"none", "session", "recovery", "stepUp"}, purpose : Purposes \union {NoPurpose},
   actor : Actors \union {NoActor}, invitation : Invitations \union {NoInvitation},
   source : Sessions \union {NoSession},  \* metadata mentorSessionId
   marked : SUBSET Sessions,              \* metadata mandatoryRevocationSessionIds
   until : Nat,
   provider : Unsettled \union {"none", "consumed", "rejected", "expired"},
   subject : Actors \union {NoActor}, answerUntil : Nat]
SessionRow ==
  [state : {"none", "active", "rotated_out", "expired", "revoked", "logged_out", "deleted"},
   actor : Actors \union {NoActor}, purpose : Purposes \union {NoPurpose},
   invitation : Invitations \union {NoInvitation}, ceremony : Ceremonies \union {NoCeremony},
   generation : 0 .. MaxGeneration, seen : Nat, until : Nat, next : Sessions \union {NoSession}]
StepUpRow == [state : {"none", "active", "consumed", "expired", "revoked", "deleted"},
              ceremony : Ceremonies \union {NoCeremony}, session : Sessions \union {NoSession},
              until : Nat]

FreshInvitation == [state |-> "none", actor |-> NoActor, purpose |-> NoPurpose, until |-> 0]
FreshCeremony ==
  [state |-> "none", intent |-> "none", purpose |-> NoPurpose, actor |-> NoActor,
   invitation |-> NoInvitation, source |-> NoSession, marked |-> {}, until |-> 0,
   provider |-> "none", subject |-> NoActor, answerUntil |-> 0]
FreshSession == [state |-> "none", actor |-> NoActor, purpose |-> NoPurpose,
                 invitation |-> NoInvitation, ceremony |-> NoCeremony, generation |-> 0,
                 seen |-> 0, until |-> 0, next |-> NoSession]
FreshStepUp == [state |-> "none", ceremony |-> NoCeremony, session |-> NoSession, until |-> 0]

CeremonyInit ==
  /\ now = 1
  /\ proof = [a \in Actors |-> "current"]
  /\ invitation = [i \in Invitations |-> FreshInvitation]
  /\ ceremony = [c \in Ceremonies |-> FreshCeremony]
  /\ session = [s \in Sessions |-> FreshSession]
  /\ stepUp = [t \in StepUps |-> FreshStepUp]
  /\ ended = {}

-----------------------------------------------------------------------------
Least(a, b) == IF a < b THEN a ELSE b

SessionsOf(a) == {s \in Sessions : session[s].actor = a}
NextSession == 1 + Cardinality({s \in Sessions : session[s].state # "none"})
ActiveOf(a) == {s \in SessionsOf(a) : session[s].state = "active"}
\* _session_expiry_boundary; last_seen_at moves only with a rotation.
Elapsed(s) == Least(session[s].until, session[s].seen + IdleTTL) <= now
Presentable(s) == session[s].state = "active" /\ ~ Elapsed(s)

\* _validate_live_session_graph.  The student's consent expires with the
\* invitation, accepted or not.
GraphLive(s) ==
  /\ proof[session[s].actor] = "current"
  /\ invitation[session[s].invitation].state = "accepted"
  /\ invitation[session[s].invitation].until > now
  /\ ceremony[session[s].ceremony].state = "exchanged"
  /\ ceremony[session[s].ceremony].provider = "consumed"

\* Authority that is taken away, row by row.
DroppedSession(s, state) == [session[s] EXCEPT !.state = state]
DroppedStepUp(t, state) == [stepUp[t] EXCEPT !.state = state]
DroppedCeremony(c, state) ==
  [ceremony[c] EXCEPT !.state = state, !.provider = IF @ \in Unsettled THEN "rejected" ELSE @]

-----------------------------------------------------------------------------
\* create_owner_mentor_prerequisites: the student invites a matched mentor and
\* consents; one invitation per mentor and purpose is pending.
Invite(i, a, p) ==
  /\ invitation[i].state = "none" /\ proof[a] = "current"
  /\ \A j \in Invitations : invitation[j].state = "pending" => invitation[j].actor # a \/ invitation[j].purpose # p
  /\ invitation' = [invitation EXCEPT ![i] = [state |-> "pending", actor |-> a, purpose |-> p,
                                              until |-> now + CeremonyTTL]]
  /\ UNCHANGED <<now, proof, ceremony, session, stepUp, ended>>

IssueBootstrap(c) ==
  /\ ceremony[c].state = "none"
  /\ ceremony' = [ceremony EXCEPT ![c].state = "bootstrap", ![c].until = now + CeremonyTTL]
  /\ UNCHANGED <<now, proof, invitation, session, stepUp, ended>>

\* The ceremony and its provider transaction.
Begun(intent, p, a, s) ==
  [state |-> "challenge_issued", intent |-> intent, purpose |-> p, actor |-> a,
   invitation |-> NoInvitation, source |-> s, marked |-> {}, until |-> now + CeremonyTTL,
   provider |-> "pending", subject |-> NoActor,
   answerUntil |-> now + Least(ProviderTTL, CeremonyTTL)]

\* initiate, and recover for a lost session.
Begin(c, intent, p) ==
  /\ intent \in {"session", "recovery"}
  /\ ceremony[c].state = "bootstrap" /\ ceremony[c].until > now
  /\ ceremony' = [ceremony EXCEPT ![c] = Begun(intent, p, NoActor, NoSession)]
  /\ UNCHANGED <<now, proof, invitation, session, stepUp, ended>>

\* recover, for the step-up before a deletion.
BeginStepUp(c, s) ==
  /\ ceremony[c].state = "none" /\ Presentable(s)
  /\ ceremony' = [ceremony EXCEPT ![c] = Begun("stepUp", session[s].purpose, session[s].actor, s)]
  /\ UNCHANGED <<now, proof, invitation, session, stepUp, ended>>

-----------------------------------------------------------------------------
(* The relay.                                                              *)

ClaimProviderStart(c) ==
  /\ ceremony[c].provider = "pending" /\ ceremony[c].answerUntil > now
  /\ ceremony' = [ceremony EXCEPT ![c].provider = "dispatched"]
  /\ UNCHANGED <<now, proof, invitation, session, stepUp, ended>>

\* settle_provider_result; the answer may live shorter than the transaction.
SettleProviderResult(c, a) ==
  /\ ceremony[c].provider = "dispatched"
  /\ \E until \in (now + 1) .. ceremony[c].answerUntil :
       ceremony' = [ceremony EXCEPT ![c].provider = "verified", ![c].subject = a,
                                    ![c].answerUntil = until]
  /\ UNCHANGED <<now, proof, invitation, session, stepUp, ended>>

\* _deny_provider_result: a faulty answer, or one that comes late or twice, is
\* counted, and the one at the circuit breaker's limit rejects the transaction,
\* whatever its state.  The counter is abstracted: any denial may be at the limit.
\* A transaction rejected before a session rests on it is as one never answered,
\* and nothing reads it after that session, so only the time between is modelled.
DenyProviderResult(c) ==
  /\ ceremony[c].provider = "consumed"
  /\ \E s \in Sessions : session[s].ceremony = c /\ session[s].state = "active"
  /\ Cardinality({d \in Ceremonies : ceremony[d].provider = "rejected"}) < MaxRejected
  /\ ceremony' = [ceremony EXCEPT ![c].provider = "rejected"]
  /\ UNCHANGED <<now, proof, invitation, session, stepUp, ended>>

-----------------------------------------------------------------------------
\* _derive_current_authority: the provider's answer leads to one mentor and,
\* for a session, to the one invitation that waits for him.
Waiting(c) == {i \in Invitations : /\ invitation[i].state = "pending"
                                   /\ invitation[i].actor = ceremony[c].subject
                                   /\ invitation[i].purpose = ceremony[c].purpose}
Verify(c) ==
  LET a == ceremony[c].subject IN
  /\ ceremony[c].state = "challenge_issued" /\ ceremony[c].until > now
  /\ ceremony[c].provider = "verified" /\ ceremony[c].answerUntil > now
  /\ proof[a] = "current"
  /\ \E i \in IF ceremony[c].intent = "stepUp" THEN {NoInvitation} ELSE Waiting(c) :
       /\ i # NoInvitation => invitation[i].until > now
       /\ ceremony' = [ceremony EXCEPT
            ![c] = [@ EXCEPT !.state = "proof_verified", !.provider = "consumed", !.actor = a,
                      !.invitation = i,
                      !.marked = IF ceremony[c].intent = "recovery"
                                 THEN ActiveOf(a) ELSE ceremony[c].marked]]
  /\ UNCHANGED <<now, proof, invitation, session, stepUp, ended>>

\* A faulty form: a session that has elapsed does not count.
ConflictsAlive(c) ==
  {s \in ActiveOf(ceremony[c].actor) : session[s].purpose = ceremony[c].purpose /\ ~ Elapsed(s)}
Conflicts(c) ==
  {s \in ActiveOf(ceremony[c].actor) : session[s].purpose = ceremony[c].purpose}

\* The sessions a recovery saw at verification are the ones there are.
MarkedAreActive(c) == ceremony[c].marked \subseteq ActiveOf(ceremony[c].actor)
MarkedAreAll(c) == ceremony[c].marked = ActiveOf(ceremony[c].actor)

\* _current_proof: the answer that proved the mentor has not been rejected since.
ProofStands(c) == proof[ceremony[c].actor] = "current" /\ ceremony[c].provider = "consumed"

Generation(c) ==
  LET used == {session[s].generation : s \in SessionsOf(ceremony[c].actor)} IN
  IF ceremony[c].intent = "recovery" /\ used # {}
  THEN 1 + CHOOSE g \in used : \A h \in used : h <= g ELSE 1

Exchange(c) ==
  LET i == ceremony[c].invitation IN
  /\ ceremony[c].state = "proof_verified" /\ ceremony[c].until > now
  /\ ceremony[c].intent # "stepUp"
  /\ NextSession \in Sessions
  /\ ProofStands(c)
  /\ invitation[i].state = "pending" /\ invitation[i].until > now
  /\ IF ceremony[c].intent = "recovery" THEN MarkedAreAll(c) ELSE Conflicts(c) = {}
  /\ Generation(c) <= MaxGeneration
  /\ session' = [r \in Sessions |->
       IF r = NextSession
       THEN [state |-> "active", actor |-> ceremony[c].actor, purpose |-> ceremony[c].purpose,
             invitation |-> i, ceremony |-> c, generation |-> Generation(c),
             seen |-> now, until |-> now + SessionTTL, next |-> NoSession]
       ELSE IF r \in ceremony[c].marked THEN DroppedSession(r, "revoked") ELSE session[r]]
  /\ invitation' = [invitation EXCEPT ![i].state = "accepted"]
  /\ ceremony' = [ceremony EXCEPT ![c].state = "exchanged"]
  /\ UNCHANGED <<now, proof, stepUp, ended>>

\* The session presented need not be the one the ceremony began in.
ExchangeStepUp(c, s, t) ==
  /\ ceremony[c].state = "proof_verified" /\ ceremony[c].until > now
  /\ ceremony[c].intent = "stepUp"
  /\ ProofStands(c)
  /\ Presentable(s) /\ session[s].actor = ceremony[c].actor
  /\ stepUp[t].state = "none"
  /\ \A u \in StepUps : stepUp[u].state = "active" => session[stepUp[u].session].actor # session[s].actor
  /\ stepUp' = [stepUp EXCEPT ![t] = [state |-> "active", ceremony |-> c, session |-> s,
                                      until |-> now + StepUpTTL]]
  /\ ceremony' = [ceremony EXCEPT ![c].state = "exchanged"]
  /\ UNCHANGED <<now, proof, invitation, session, ended>>

-----------------------------------------------------------------------------
Rotate(s) ==
  /\ Presentable(s) /\ GraphLive(s)
  /\ session[s].generation < MaxGeneration /\ NextSession \in Sessions
  /\ session' = [session EXCEPT
       ![s] = [@ EXCEPT !.state = "rotated_out", !.next = NextSession],
       ![NextSession] = [session[s] EXCEPT !.generation = @ + 1, !.seen = now,
                                 !.until = Least(@, now + SessionTTL)]]
  /\ UNCHANGED <<now, proof, invitation, ceremony, stepUp, ended>>

\* _retirement_target_from_presented_generation; a faulty form takes the
\* session as it was presented.
TargetAsPresented(s) == s
Target(s) ==
  LET follow[r \in Sessions] == IF session[r].state = "rotated_out" THEN follow[session[r].next] ELSE r
  IN follow[s]

\* _end_session: revoke and logout, with the step-up that rests on the session.
\* Any other session presented is refused: it ended without a successor.
EndSession(s, state) ==
  LET e == Target(s) IN
  /\ state \in {"revoked", "logged_out"}
  /\ Presentable(s) \/ session[s].state = "rotated_out"
  /\ ended' = ended \union {s}
  /\ IF session[e].state # "active" THEN UNCHANGED <<ceremony, session, stepUp>>
     ELSE /\ session' = [session EXCEPT ![e] = DroppedSession(e, state)]
          /\ ceremony' = [c \in Ceremonies |->
               IF ceremony[c].state \in LiveCeremony /\ ceremony[c].source = e
                  /\ ceremony[c].actor = session[e].actor
               THEN DroppedCeremony(c, "revoked") ELSE ceremony[c]]
          /\ stepUp' = [t \in StepUps |->
               IF stepUp[t].state = "active" /\ stepUp[t].session = e
               THEN DroppedStepUp(t, "revoked") ELSE stepUp[t]]
  /\ UNCHANGED <<now, proof, invitation>>

\* delete_authority erases the invitations of the mentor's engagements and
\* those still matched to his proof.  A faulty form has only the former.
EngagedInvitations(a) == {session[s].invitation : s \in SessionsOf(a)}
ErasedInvitations(a) == {i \in Invitations : invitation[i].actor = a}

DeleteAuthority(s, t) ==
  LET a == session[s].actor
      mine(c) == ceremony[c].actor = a \/ ceremony[c].subject = a
  IN
  /\ Presentable(s) /\ GraphLive(s)
  /\ stepUp[t].state = "active" /\ stepUp[t].session = s /\ stepUp[t].until > now
  /\ session' = [r \in Sessions |->
       IF r \in SessionsOf(a) /\ session[r].state \in {"active", "rotated_out"}
       THEN DroppedSession(r, "deleted") ELSE session[r]]
  /\ proof' = [proof EXCEPT ![a] = "deleted"]
  /\ invitation' = [i \in Invitations |->
       IF i \in ErasedInvitations(a) THEN [invitation[i] EXCEPT !.state = "deleted"] ELSE invitation[i]]
  /\ ceremony' = [c \in Ceremonies |-> IF mine(c) THEN DroppedCeremony(c, "deleted") ELSE ceremony[c]]
  /\ stepUp' = [u \in StepUps |->
       IF stepUp[u].state = "none" \/ session[stepUp[u].session].actor # a THEN stepUp[u]
       ELSE DroppedStepUp(u, IF u = t THEN "consumed" ELSE "deleted")]
  /\ UNCHANGED <<now, ended>>

\* retire_subject_mentor_authority_for_privacy_request: what hangs on an
\* invitation of the student.  A faulty form finds only the ceremonies of sessions.
GraphSessions(i) == {s \in Sessions : session[s].invitation = i}
GraphStepUps(i) == {t \in StepUps : stepUp[t].session \in GraphSessions(i)}
CeremoniesOfSessions(i) ==
  {session[s].ceremony : s \in GraphSessions(i)} \union {stepUp[t].ceremony : t \in GraphStepUps(i)}
GraphCeremonies(i) == CeremoniesOfSessions(i) \union {c \in Ceremonies : ceremony[c].invitation = i}

RetireSubject(i) ==
  /\ invitation[i].state # "none"
  /\ invitation' = [invitation EXCEPT ![i].state = "deleted"]
  /\ session' = [s \in Sessions |->
       IF s \in GraphSessions(i) THEN DroppedSession(s, "deleted") ELSE session[s]]
  /\ ceremony' = [c \in Ceremonies |->
       IF c \in GraphCeremonies(i) THEN DroppedCeremony(c, "deleted") ELSE ceremony[c]]
  /\ stepUp' = [t \in StepUps |->
       IF t \in GraphStepUps(i) THEN DroppedStepUp(t, "deleted") ELSE stepUp[t]]
  /\ UNCHANGED <<now, proof, ended>>

-----------------------------------------------------------------------------
\* A cookie whose row has elapsed ends it: _session_from_cookie, _find_ceremony.
ElapsedSession(s) == session[s].state = "active" /\ Elapsed(s)
ElapsedCeremony(c) == ceremony[c].state \in LiveCeremony /\ ceremony[c].until <= now

ExpireSession(s) ==
  /\ ElapsedSession(s)
  /\ session' = [session EXCEPT ![s] = DroppedSession(s, "expired")]
  /\ UNCHANGED <<now, proof, invitation, ceremony, stepUp, ended>>

ExpireCeremony(c) ==
  /\ ElapsedCeremony(c)
  /\ ceremony' = [ceremony EXCEPT ![c].state = "expired"]
  /\ UNCHANGED <<now, proof, invitation, session, stepUp, ended>>

\* run_mentor_retention: _materialize_mentor_expirations, within one batch.
Sweep ==
  /\ session' = [s \in Sessions |-> IF ElapsedSession(s) THEN DroppedSession(s, "expired") ELSE session[s]]
  /\ ceremony' = [c \in Ceremonies |-> [ceremony[c] EXCEPT
       !.state = IF ElapsedCeremony(c) \/ (@ = "bootstrap" /\ ceremony[c].until <= now)
                 THEN "expired" ELSE @,
       !.provider = IF @ \in Unsettled /\ ceremony[c].answerUntil <= now THEN "expired" ELSE @]]
  /\ invitation' = [i \in Invitations |-> [invitation[i] EXCEPT
       !.state = IF @ \in {"pending", "accepted"} /\ invitation[i].until <= now THEN "expired" ELSE @]]
  /\ stepUp' = [t \in StepUps |-> IF stepUp[t].state = "active" /\ stepUp[t].until <= now
                                  THEN DroppedStepUp(t, "expired") ELSE stepUp[t]]
  /\ UNCHANGED <<now, proof, ended>>

Expire == \/ \E s \in Sessions : ExpireSession(s)
          \/ \E c \in Ceremonies : ExpireCeremony(c)
          \/ Sweep

Tick == /\ now < MaxTime /\ now' = now + 1
        /\ UNCHANGED <<proof, invitation, ceremony, session, stepUp, ended>>

Student == \E i \in Invitations : \/ \E a \in Actors, p \in Purposes : Invite(i, a, p)
                                 \/ RetireSubject(i)
Relay == \E c \in Ceremonies : \/ ClaimProviderStart(c)
                              \/ DenyProviderResult(c)
                              \/ \E a \in Actors : SettleProviderResult(c, a)
Ceremony == \E c \in Ceremonies :
  \/ IssueBootstrap(c)
  \/ \E intent \in {"session", "recovery"}, p \in Purposes : Begin(c, intent, p)
  \/ Verify(c)
  \/ Exchange(c)
  \/ \E s \in Sessions : \/ BeginStepUp(c, s)
                        \/ \E t \in StepUps : ExchangeStepUp(c, s, t)
Mentor == \E s \in Sessions :
  \/ Rotate(s)
  \/ \E state \in {"revoked", "logged_out"} : EndSession(s, state)
  \/ \E t \in StepUps : DeleteAuthority(s, t)

CeremonyNext == Student \/ Relay \/ Ceremony \/ Mentor \/ Expire \/ Tick
CeremonySpec == CeremonyInit /\ [][CeremonyNext]_ceremonyVars

-----------------------------------------------------------------------------
\* Rows have the states and links the tables allow.
CeremonyTypeOK ==
  /\ now \in 1 .. MaxTime
  /\ proof \in [Actors -> {"current", "deleted"}]
  /\ invitation \in [Invitations -> InvitationRow]
  /\ ceremony \in [Ceremonies -> CeremonyRow]
  /\ session \in [Sessions -> SessionRow]
  /\ stepUp \in [StepUps -> StepUpRow]
  /\ ended \subseteq Sessions

\* A mentor has one session for a purpose, whatever logins, recoveries and
\* rotations cross each other: the unique index over active sessions, which the
\* model does without, never has to refuse a handler that passed its checks.
OneLiveSession ==
  \A r, s \in Sessions :
    r # s /\ session[r].state = "active" /\ session[s].state = "active"
      => session[r].actor # session[s].actor \/ session[r].purpose # session[s].purpose

\* A mentor whose revoke or logout was answered, from however old a tab, has no
\* session left that grew out of that login: a rotation that won the race does
\* not carry it on.
EndReachesSuccessor ==
  \A e \in ended, s \in Sessions :
    session[s].state = "active" => session[s].ceremony # session[e].ceremony

\* A recovery leaves the mentor exactly the session it opens: one that was
\* opened, rotated or ended after the recovery was verified is not overlooked.
RecoveryTakesOver ==
  [][\A c \in Ceremonies :
       ceremony[c].intent = "recovery" /\ ceremony[c].state # "exchanged" /\ ceremony'[c].state = "exchanged"
         => \A s \in Sessions : session'[s].state = "active" /\ session'[s].actor = ceremony[c].actor
                                  => session'[s].ceremony = c]_ceremonyVars

\* Once a mentor has deleted his authority nothing is left that could become
\* a session again: not an invitation that still waits, a ceremony half way
\* through in another tab, a rotated generation or a second step-up.
NothingOutlivesDeletion ==
  \A a \in Actors : proof[a] = "deleted" =>
    /\ \A s \in SessionsOf(a) : session[s].state \notin {"active", "rotated_out"}
    /\ \A i \in Invitations : invitation[i].actor = a => invitation[i].state = "deleted"
    /\ \A c \in Ceremonies : ceremony[c].actor = a => ceremony[c].state \notin LiveCeremony
    /\ \A t \in StepUps : stepUp[t].state = "active" => session[stepUp[t].session].actor # a

\* Once a student has asked for erasure no mentor holds, or can still reach, a
\* session with the student's data, wherever in the ceremony the request came.
RetiredSubjectIsClosed ==
  \A i \in Invitations : invitation[i].state = "deleted" =>
    /\ \A s \in Sessions : session[s].invitation = i => session[s].state # "active"
    /\ \A c \in Ceremonies : ceremony[c].invitation = i => ceremony[c].state # "proof_verified"
    /\ \A t \in StepUps : stepUp[t].state = "active" => session[stepUp[t].session].invitation # i
=============================================================================
