------------------------ MODULE MentorCeremonyProofs ------------------------
(* The mentor's ceremony for any number of mentors, purposes, invitations,  *)
(* ceremonies, step-ups and sessions, and any times to live.                *)
EXTENDS MentorCeremony, FiniteSetTheorems, WellFoundedInduction, TLAPS

Used(s) == session[s].state # "none"
SpentCeremony == {"exchanged", "deleted"}

\* Sessions are opened in order.
OpenedInOrder ==
  /\ \E n \in 0 .. MaxSessions : \A s \in Sessions : Used(s) <=> s <= n
  /\ \A s \in Sessions : ~ Used(s) => session[s].invitation = NoInvitation

\* A session stands on the invitation of the ceremony that opened it, and that
\* ceremony is over; a rotated session names its successor, a later one.
SessionLinks ==
  \A s \in Sessions : Used(s) =>
    /\ session[s].actor \in Actors
    /\ session[s].invitation \in Invitations /\ session[s].ceremony \in Ceremonies
    /\ invitation[session[s].invitation].state # "none"
    /\ invitation[session[s].invitation].actor = session[s].actor
    /\ ceremony[session[s].ceremony].state \in SpentCeremony
    /\ ceremony[session[s].ceremony].invitation = session[s].invitation

Successors ==
  \A s \in Sessions : session[s].state = "rotated_out" =>
    /\ session[s].next \in Sessions /\ session[s].next > s
    /\ Used(session[s].next)
    /\ session[session[s].next].ceremony = session[s].ceremony

\* What a ceremony that may still open a session or a step-up rests on.
CeremonyRowOK(row) ==
  /\ row.provider = "verified" => row.subject \in Actors
  /\ row.intent # "recovery" => row.marked = {}
  /\ row.invitation \in Invitations => invitation[row.invitation].state # "none"
  /\ row.state = "proof_verified" => row.actor \in Actors
  /\ row.state = "proof_verified" /\ row.intent # "stepUp" => row.invitation \in Invitations
  /\ row.state = "proof_verified" /\ row.invitation \in Invitations =>
       row.actor = invitation[row.invitation].actor
CeremonyLinks == \A c \in Ceremonies : CeremonyRowOK(ceremony[c])

StepUpLinks == \A t \in StepUps :
                 IF stepUp[t].state = "none" THEN stepUp[t].session = NoSession
                 ELSE stepUp[t].session \in Sessions /\ Used(stepUp[t].session)

\* The generations of one login: when one is active, the others rotated out.
OneTip == \A r, s \in Sessions :
  r # s /\ session[r].state = "active" /\ Used(s) /\ session[s].ceremony = session[r].ceremony
    => session[s].state = "rotated_out"

EndedAreUsed == \A e \in ended : Used(e)

MentorInv == /\ CeremonyTypeOK
             /\ OpenedInOrder /\ SessionLinks /\ Successors /\ CeremonyLinks /\ StepUpLinks
             /\ OneTip /\ EndedAreUsed
             /\ OneLiveSession /\ EndReachesSuccessor
             /\ NothingOutlivesDeletion /\ RetiredSubjectIsClosed

-----------------------------------------------------------------------------
(* Order.                                                                  *)

LEMMA LeastElement ==
  ASSUME NEW T, T \subseteq Nat, T # {}
  PROVE  \E x \in T : \A y \in T : x <= y
<1> DEFINE R == OpToRel(<, Nat)
<1>1. IsWellFoundedOn(R, Nat)
  BY NatLessThanWellFounded
<1>2. ASSUME NEW x \in Nat, NEW y \in Nat, x < y
      PROVE  <<x, y>> \in R
  BY <1>2 DEF OpToRel
<1> HIDE DEF R
<1>3. PICK x \in T : \A y \in T : ~ (<<y, x>> \in R)
  BY <1>1, WFMin
<1>4. \A y \in T : x <= y
  <2> TAKE y \in T
  <2>1. x \in Nat /\ y \in Nat
    OBVIOUS
  <2>2. ~ (y < x)
    BY <1>2, <1>3, <2>1
  <2> QED BY <2>1, <2>2
<1> QED BY <1>4

LEMMA GreatestElement ==
  ASSUME NEW n \in Nat, NEW T, T \subseteq 0 .. n, T # {}
  PROVE  \E x \in T : \A y \in T : y <= x
<1> DEFINE U == {m \in Nat : \A y \in T : y <= m}
<1>1. U \subseteq Nat /\ n \in U
  OBVIOUS
<1>2. PICK x \in U : \A m \in U : x <= m
  <2> HIDE DEF U
  <2> QED BY <1>1, LeastElement
<1>3. x \in T
  <2> SUFFICES ASSUME x \notin T PROVE FALSE
    OBVIOUS
  <2>1. PICK t \in T : TRUE
    OBVIOUS
  <2>2. x - 1 \in U
    BY <2>1
  <2> QED BY <2>2, <1>2
<1> QED BY <1>3

\* The next session is the first one not used.
LEMMA NextIsUnused ==
  ASSUME CeremonyTypeOK, OpenedInOrder, NextSession \in Sessions
  PROVE  /\ ~ Used(NextSession)
         /\ \A s \in Sessions : Used(s) <=> s < NextSession
<1>1. MaxSessions \in Nat
  BY CeremonyAssumption
<1>2. PICK n \in 0 .. MaxSessions : \A s \in Sessions : Used(s) <=> s <= n
  BY DEF OpenedInOrder
<1> DEFINE U == {s \in Sessions : session[s].state # "none"}
<1>3. NextSession = 1 + Cardinality(U)
  BY DEF NextSession
<1>4. U = 1 .. n
  BY <1>1, <1>2 DEF Sessions, Used
<1> HIDE DEF U
<1>5. Cardinality(U) = n
  BY <1>1, <1>4, FS_Interval
<1>6. NextSession = n + 1
  BY <1>3, <1>5
<1> QED BY <1>1, <1>2, <1>6 DEF Sessions

-----------------------------------------------------------------------------
(* What a step that opens nothing leaves of each table.                    *)

SessionsReduced ==
  /\ \A s \in Sessions :
       /\ session'[s].actor = session[s].actor /\ session'[s].purpose = session[s].purpose
       /\ session'[s].invitation = session[s].invitation
       /\ session'[s].ceremony = session[s].ceremony /\ session'[s].next = session[s].next
       /\ session'[s].state # session[s].state =>
            Used(s) /\ session'[s].state \in {"expired", "revoked", "logged_out", "deleted"}
  /\ \A r, s \in Sessions :
       session'[r].state = "active" /\ session[s].state = "rotated_out"
         /\ session[s].ceremony = session[r].ceremony => session'[s].state = "rotated_out"

InvitationsKept ==
  \A i \in Invitations : invitation[i].state # "none" =>
    /\ invitation'[i].state # "none" /\ invitation'[i].actor = invitation[i].actor
    /\ invitation[i].state = "deleted" => invitation'[i].state = "deleted"

SpentKept ==
  \A c \in Ceremonies : ceremony[c].state \in SpentCeremony =>
    /\ ceremony'[c].state \in SpentCeremony
    /\ ceremony'[c].invitation = ceremony[c].invitation

CeremoniesReduced ==
  \A c \in Ceremonies :
    /\ ceremony'[c].intent = ceremony[c].intent /\ ceremony'[c].actor = ceremony[c].actor
    /\ ceremony'[c].invitation = ceremony[c].invitation
    /\ ceremony'[c].marked = ceremony[c].marked /\ ceremony'[c].subject = ceremony[c].subject
    /\ ceremony'[c].state # ceremony[c].state =>
         /\ ceremony'[c].state \notin LiveCeremony
         /\ ceremony[c].state \in SpentCeremony => ceremony'[c].state \in SpentCeremony
    /\ ceremony'[c].provider # ceremony[c].provider => ceremony'[c].provider # "verified"

StepUpsReduced ==
  \A t \in StepUps :
    /\ stepUp'[t].session = stepUp[t].session
    /\ stepUp'[t].state # stepUp[t].state =>
         stepUp[t].state # "none" /\ stepUp'[t].state \notin {"none", "active"}

LEMMA SessionsOnlyReduced ==
  ASSUME MentorInv, SessionsReduced
  PROVE  /\ OpenedInOrder' /\ Successors' /\ OneTip' /\ OneLiveSession'
         /\ \A s \in Sessions : Used(s)' <=> Used(s)
<1> USE DEF MentorInv, SessionsReduced
<1>1. \A s \in Sessions : Used(s)' <=> Used(s)
  BY DEF Used
<1>2. \A s \in Sessions : /\ session'[s].state = "active" => session[s].state = "active"
                          /\ session'[s].state = "rotated_out" => session[s].state = "rotated_out"
  OBVIOUS
<1>3. OpenedInOrder'
  BY <1>1 DEF OpenedInOrder, Used
<1>4. Successors'
  BY <1>1, <1>2 DEF Successors, Used
<1>5. OneTip'
  BY <1>1, <1>2 DEF OneTip, Used
<1>6. OneLiveSession'
  BY <1>2 DEF OneLiveSession
<1> QED BY <1>1, <1>3, <1>4, <1>5, <1>6

LEMMA LinksKept ==
  ASSUME MentorInv, SessionsReduced, InvitationsKept, SpentKept
  PROVE  SessionLinks'
<1>1. \A s \in Sessions : Used(s)' <=> Used(s)
  BY SessionsOnlyReduced
<1> QED BY <1>1 DEF MentorInv, SessionLinks, SessionsReduced, InvitationsKept, SpentKept, Used

LEMMA RowsStayOK ==
  ASSUME MentorInv, InvitationsKept, CeremoniesReduced
  PROVE  CeremonyLinks' /\ SpentKept
<1>1. SpentKept
  BY DEF CeremoniesReduced, SpentKept
<1>2. CeremonyLinks'
  <2> SUFFICES ASSUME NEW c \in Ceremonies
               PROVE  CeremonyRowOK(ceremony[c])'
    BY DEF CeremonyLinks
  <2>1. CeremonyRowOK(ceremony[c])
    BY DEF MentorInv, CeremonyLinks
  <2>2. /\ ceremony'[c].provider = "verified" => ceremony[c].provider = "verified"
        /\ ceremony'[c].state = "proof_verified" => ceremony[c].state = "proof_verified"
    BY DEF CeremoniesReduced, LiveCeremony
  <2> QED BY <2>1, <2>2 DEF CeremonyRowOK, CeremoniesReduced, InvitationsKept
<1> QED BY <1>1, <1>2

LEMMA StepUpsKeepSession ==
  ASSUME MentorInv, SessionsReduced, StepUpsReduced
  PROVE  StepUpLinks'
<1>1. \A s \in Sessions : Used(s)' <=> Used(s)
  BY SessionsOnlyReduced
<1> QED BY <1>1 DEF MentorInv, StepUpLinks, StepUpsReduced, Used

LEMMA EndedStay ==
  ASSUME MentorInv, SessionsReduced, ended' = ended
  PROVE  EndedAreUsed' /\ EndReachesSuccessor'
<1>1. \A s \in Sessions : Used(s)' <=> Used(s)
  BY SessionsOnlyReduced
<1>2. ended \subseteq Sessions
  BY DEF MentorInv, CeremonyTypeOK
<1>3. EndedAreUsed'
  BY <1>1, <1>2 DEF MentorInv, EndedAreUsed, Used
<1>4. EndReachesSuccessor'
  BY <1>2 DEF MentorInv, EndReachesSuccessor, SessionsReduced
<1> QED BY <1>3, <1>4

LEMMA InvitationsStay ==
  ASSUME UNCHANGED invitation PROVE InvitationsKept
BY DEF InvitationsKept

LEMMA SessionsStay ==
  ASSUME UNCHANGED session PROVE SessionsReduced
BY DEF SessionsReduced

LEMMA StepUpsStay ==
  ASSUME UNCHANGED stepUp PROVE StepUpsReduced
BY DEF StepUpsReduced

LEMMA DeletionStands ==
  ASSUME MentorInv, SessionsReduced, StepUpsReduced, InvitationsKept, UNCHANGED proof,
         \A i \in Invitations : invitation'[i].actor = invitation[i].actor,
         \A c \in Ceremonies :
           ceremony'[c].state \in LiveCeremony /\ ceremony'[c].actor \in Actors =>
             proof[ceremony'[c].actor] # "deleted"
  PROVE  NothingOutlivesDeletion'
<1> SUFFICES ASSUME NEW a \in Actors, proof[a] = "deleted"
             PROVE  /\ \A s \in Sessions : session'[s].actor = a =>
                         session'[s].state \notin {"active", "rotated_out"}
                    /\ \A i \in Invitations : invitation'[i].actor = a =>
                         invitation'[i].state = "deleted"
                    /\ \A c \in Ceremonies : ceremony'[c].actor = a =>
                         ceremony'[c].state \notin LiveCeremony
                    /\ \A t \in StepUps : stepUp'[t].state = "active" =>
                         session'[stepUp'[t].session].actor # a
  BY DEF NothingOutlivesDeletion, SessionsOf
<1>1. /\ \A s \in Sessions : session[s].actor = a =>
           session[s].state \notin {"active", "rotated_out"}
      /\ \A i \in Invitations : invitation[i].actor = a => invitation[i].state = "deleted"
      /\ \A t \in StepUps : stepUp[t].state = "active" => session[stepUp[t].session].actor # a
  BY DEF MentorInv, NothingOutlivesDeletion, SessionsOf
<1>2. \A t \in StepUps : stepUp'[t].state = "active" =>
        stepUp[t].state = "active" /\ stepUp[t].session \in Sessions
  BY DEF MentorInv, StepUpLinks, StepUpsReduced
<1> QED BY <1>1, <1>2 DEF SessionsReduced, StepUpsReduced, InvitationsKept

LEMMA ErasureStands ==
  ASSUME MentorInv, SessionsReduced, StepUpsReduced,
         \A i \in Invitations : invitation'[i].state = "deleted" => invitation[i].state = "deleted",
         \A c \in Ceremonies :
           ceremony'[c].state = "proof_verified" /\ ceremony'[c].invitation \in Invitations =>
             invitation[ceremony'[c].invitation].state # "deleted"
  PROVE  RetiredSubjectIsClosed'
<1>1. \A t \in StepUps : stepUp'[t].state = "active" =>
        stepUp[t].state = "active" /\ stepUp[t].session \in Sessions
  BY DEF MentorInv, StepUpLinks, StepUpsReduced
<1> QED BY <1>1 DEF MentorInv, RetiredSubjectIsClosed, SessionsReduced, StepUpsReduced

\* A step of one ceremony that opens nothing yet.
LEMMA OneCeremonyStep ==
  ASSUME MentorInv, NEW c \in Ceremonies, NEW row, row \in CeremonyRow,
         ceremony' = [ceremony EXCEPT ![c] = row],
         UNCHANGED <<now, proof, invitation, session, stepUp, ended>>,
         CeremonyRowOK(row),
         ceremony[c].state \in SpentCeremony =>
           row.state \in SpentCeremony /\ row.invitation = ceremony[c].invitation,
         row.state \in LiveCeremony /\ row.actor \in Actors => proof[row.actor] # "deleted",
         row.state = "proof_verified" /\ row.invitation \in Invitations =>
           invitation[row.invitation].state # "deleted"
  PROVE  MentorInv'
<1>1. InvitationsKept /\ SessionsReduced /\ StepUpsReduced
  BY InvitationsStay, SessionsStay, StepUpsStay
<1>2. CeremonyTypeOK'
  BY DEF MentorInv, CeremonyTypeOK
<1>3. ceremony'[c] = row /\ \A d \in Ceremonies : d # c => ceremony'[d] = ceremony[d]
  BY DEF MentorInv, CeremonyTypeOK
<1>4. SpentKept
  BY <1>3 DEF SpentKept
<1>5. CeremonyLinks'
  BY <1>3 DEF MentorInv, CeremonyLinks, CeremonyRowOK
<1>6. \A d \in Ceremonies : ceremony[d].state \in LiveCeremony /\ ceremony[d].actor \in Actors =>
        proof[ceremony[d].actor] # "deleted"
  BY DEF MentorInv, NothingOutlivesDeletion
<1>7. \A d \in Ceremonies :
        ceremony[d].state = "proof_verified" /\ ceremony[d].invitation \in Invitations =>
          invitation[ceremony[d].invitation].state # "deleted"
  BY DEF MentorInv, RetiredSubjectIsClosed
<1>8. NothingOutlivesDeletion'
  BY <1>1, <1>3, <1>6, DeletionStands
<1>9. RetiredSubjectIsClosed'
  BY <1>1, <1>3, <1>7, ErasureStands
<1> QED BY <1>1, <1>2, <1>4, <1>5, <1>8, <1>9, SessionsOnlyReduced, LinksKept,
           StepUpsKeepSession, EndedStay DEF MentorInv

-----------------------------------------------------------------------------
(* The beginning, and the steps of a ceremony.                             *)

LEMMA InitHolds ==
  ASSUME CeremonyInit PROVE MentorInv
<1> USE DEF CeremonyInit
<1> USE CeremonyAssumption
<1>1. CeremonyTypeOK
  BY DEF CeremonyTypeOK, InvitationRow, CeremonyRow, SessionRow, StepUpRow, FreshInvitation,
         FreshCeremony, FreshSession, FreshStepUp
<1>2. \A s \in Sessions : ~ Used(s) /\ session[s] = FreshSession
  BY DEF Used, FreshSession
<1>3. OpenedInOrder
  <2>1. 0 \in 0 .. MaxSessions /\ \A s \in Sessions : ~ (s <= 0)
    BY DEF Sessions
  <2> QED BY <1>2, <2>1 DEF OpenedInOrder, FreshSession
<1>4. SessionLinks /\ Successors /\ OneTip
  BY <1>2 DEF SessionLinks, Successors, OneTip, FreshSession
<1>5. CeremonyLinks
  BY DEF CeremonyLinks, CeremonyRowOK, FreshCeremony
<1>6. StepUpLinks /\ EndedAreUsed
  BY DEF StepUpLinks, EndedAreUsed, FreshStepUp
<1>7. OneLiveSession /\ EndReachesSuccessor
  BY <1>2 DEF OneLiveSession, EndReachesSuccessor, FreshSession
<1>8. NothingOutlivesDeletion /\ RetiredSubjectIsClosed
  BY DEF NothingOutlivesDeletion, RetiredSubjectIsClosed, FreshInvitation
<1> QED BY <1>1, <1>3, <1>4, <1>5, <1>6, <1>7, <1>8 DEF MentorInv

LEMMA BootstrapKeeps ==
  ASSUME MentorInv, NEW c \in Ceremonies, IssueBootstrap(c)
  PROVE  MentorInv'
<1> USE CeremonyAssumption DEF MentorInv, CeremonyTypeOK, IssueBootstrap
<1> DEFINE u == now + CeremonyTTL
           mid == [ceremony[c] EXCEPT !.state = "bootstrap"]
           row == [mid EXCEPT !.until = u]
<1>1. ceremony[c] \in CeremonyRow /\ CeremonyRowOK(ceremony[c]) /\ u \in Nat
  BY DEF CeremonyLinks
<1>2. ceremony' = [ceremony EXCEPT ![c] = row]
  OBVIOUS
<1>3. mid \in CeremonyRow /\ mid.state = "bootstrap" /\ CeremonyRowOK(mid)
  BY <1>1 DEF CeremonyRow, CeremonyRowOK
<1> HIDE DEF u, mid
<1>4. row \in CeremonyRow /\ row.state = "bootstrap" /\ CeremonyRowOK(row)
  BY <1>1, <1>3 DEF CeremonyRow, CeremonyRowOK
<1> HIDE DEF row
<1> QED BY <1>2, <1>4, OneCeremonyStep DEF SpentCeremony, LiveCeremony

LEMMA BegunRow ==
  ASSUME CeremonyTypeOK, NEW intent \in {"session", "recovery", "stepUp"},
         NEW p \in Purposes \union {NoPurpose}, NEW a \in Actors \union {NoActor},
         NEW s \in Sessions \union {NoSession}
  PROVE  /\ Begun(intent, p, a, s) \in CeremonyRow
         /\ Begun(intent, p, a, s).state = "challenge_issued"
         /\ Begun(intent, p, a, s).actor = a
         /\ CeremonyRowOK(Begun(intent, p, a, s))
<1> USE CeremonyAssumption DEF CeremonyTypeOK
<1> DEFINE u == now + CeremonyTTL
           v == now + Least(ProviderTTL, CeremonyTTL)
<1>1. u \in Nat /\ v \in Nat
  BY DEF Least
<1>2. Begun(intent, p, a, s) =
        [state |-> "challenge_issued", intent |-> intent, purpose |-> p, actor |-> a,
         invitation |-> NoInvitation, source |-> s, marked |-> {}, until |-> u,
         provider |-> "pending", subject |-> NoActor, answerUntil |-> v]
  BY DEF Begun, FreshCeremony
<1> HIDE DEF u, v
<1> QED BY <1>1, <1>2 DEF CeremonyRow, LiveCeremony, Unsettled, CeremonyRowOK

LEMMA BeginKeeps ==
  ASSUME MentorInv, NEW c \in Ceremonies, NEW intent, NEW p \in Purposes, Begin(c, intent, p)
  PROVE  MentorInv'
<1> DEFINE row == Begun(intent, p, NoActor, NoSession)
<1>1. ceremony[c].state = "bootstrap" /\ ceremony' = [ceremony EXCEPT ![c] = row]
      /\ UNCHANGED <<now, proof, invitation, session, stepUp, ended>>
  BY DEF Begin
<1>2. row \in CeremonyRow /\ row.state = "challenge_issued" /\ row.actor = NoActor
      /\ CeremonyRowOK(row)
  BY BegunRow DEF Begin, MentorInv
<1> HIDE DEF row
<1>3. NoActor \notin Actors
  BY CeremonyAssumption
<1> QED BY <1>1, <1>2, <1>3, OneCeremonyStep DEF SpentCeremony, LiveCeremony

LEMMA BeginStepUpKeeps ==
  ASSUME MentorInv, NEW c \in Ceremonies, NEW s \in Sessions, BeginStepUp(c, s)
  PROVE  MentorInv'
<1> DEFINE row == Begun("stepUp", session[s].purpose, session[s].actor, s)
<1>1. ceremony[c].state = "none" /\ ceremony' = [ceremony EXCEPT ![c] = row]
      /\ UNCHANGED <<now, proof, invitation, session, stepUp, ended>>
  BY DEF BeginStepUp
<1>2. session[s] \in SessionRow
  BY DEF MentorInv, CeremonyTypeOK
<1>3. session[s].purpose \in Purposes \union {NoPurpose} /\ session[s].actor \in Actors \union {NoActor}
  BY <1>2 DEF SessionRow
<1>4. row \in CeremonyRow /\ row.state = "challenge_issued" /\ row.actor = session[s].actor
      /\ CeremonyRowOK(row)
  BY <1>3, BegunRow DEF MentorInv
<1>5. session[s].actor \in Actors => proof[session[s].actor] # "deleted"
  BY DEF BeginStepUp, Presentable, MentorInv, NothingOutlivesDeletion, SessionsOf
<1> HIDE DEF row
<1> QED BY <1>1, <1>4, <1>5, OneCeremonyStep DEF SpentCeremony, LiveCeremony

LEMMA ClaimKeeps ==
  ASSUME MentorInv, NEW c \in Ceremonies, ClaimProviderStart(c)
  PROVE  MentorInv'
<1> USE DEF MentorInv, CeremonyTypeOK, ClaimProviderStart
<1> DEFINE row == [ceremony[c] EXCEPT !.provider = "dispatched"]
<1>1. ceremony[c] \in CeremonyRow /\ CeremonyRowOK(ceremony[c])
  BY DEF CeremonyLinks
<1>2. ceremony' = [ceremony EXCEPT ![c] = row]
  OBVIOUS
<1>3. row \in CeremonyRow /\ CeremonyRowOK(row)
      /\ row.state = ceremony[c].state /\ row.invitation = ceremony[c].invitation
      /\ row.actor = ceremony[c].actor
  BY <1>1 DEF CeremonyRow, CeremonyRowOK, Unsettled
<1> HIDE DEF row
<1>4. ceremony[c].state \in LiveCeremony /\ ceremony[c].actor \in Actors =>
        proof[ceremony[c].actor] # "deleted"
  BY DEF NothingOutlivesDeletion
<1>5. ceremony[c].state = "proof_verified" /\ ceremony[c].invitation \in Invitations =>
        invitation[ceremony[c].invitation].state # "deleted"
  BY DEF RetiredSubjectIsClosed
<1> QED BY <1>2, <1>3, <1>4, <1>5, OneCeremonyStep

LEMMA DenyKeeps ==
  ASSUME MentorInv, NEW c \in Ceremonies, DenyProviderResult(c)
  PROVE  MentorInv'
<1> USE DEF MentorInv, CeremonyTypeOK, DenyProviderResult
<1> DEFINE row == [ceremony[c] EXCEPT !.provider = "rejected"]
<1>1. ceremony[c] \in CeremonyRow /\ CeremonyRowOK(ceremony[c])
  BY DEF CeremonyLinks
<1>2. ceremony' = [ceremony EXCEPT ![c] = row]
  OBVIOUS
<1>3. row \in CeremonyRow /\ CeremonyRowOK(row)
      /\ row.state = ceremony[c].state /\ row.invitation = ceremony[c].invitation
      /\ row.actor = ceremony[c].actor
  BY <1>1 DEF CeremonyRow, CeremonyRowOK, Unsettled
<1> HIDE DEF row
<1>4. ceremony[c].state \in LiveCeremony /\ ceremony[c].actor \in Actors =>
        proof[ceremony[c].actor] # "deleted"
  BY DEF NothingOutlivesDeletion
<1>5. ceremony[c].state = "proof_verified" /\ ceremony[c].invitation \in Invitations =>
        invitation[ceremony[c].invitation].state # "deleted"
  BY DEF RetiredSubjectIsClosed
<1> QED BY <1>2, <1>3, <1>4, <1>5, OneCeremonyStep

LEMMA SettleKeeps ==
  ASSUME MentorInv, NEW c \in Ceremonies, NEW a \in Actors, SettleProviderResult(c, a)
  PROVE  MentorInv'
<1> USE DEF MentorInv, CeremonyTypeOK
<1>1. PICK until \in (now + 1) .. ceremony[c].answerUntil :
        ceremony' = [ceremony EXCEPT ![c].provider = "verified", ![c].subject = a,
                                     ![c].answerUntil = until]
  BY DEF SettleProviderResult
<1> DEFINE one == [ceremony[c] EXCEPT !.provider = "verified"]
           two == [one EXCEPT !.subject = a]
           row == [two EXCEPT !.answerUntil = until]
<1>2. ceremony' = [ceremony EXCEPT ![c] = row]
  BY <1>1
<1>3. ceremony[c] \in CeremonyRow /\ CeremonyRowOK(ceremony[c]) /\ until \in Nat
  BY DEF CeremonyLinks, CeremonyRow
<1>4. one \in CeremonyRow /\ one.state = ceremony[c].state /\ one.actor = ceremony[c].actor
      /\ one.invitation = ceremony[c].invitation /\ one.intent = ceremony[c].intent
      /\ one.marked = ceremony[c].marked
  BY <1>3 DEF CeremonyRow, Unsettled
<1> HIDE DEF one
<1>5. two \in CeremonyRow /\ two.state = ceremony[c].state /\ two.actor = ceremony[c].actor
      /\ two.invitation = ceremony[c].invitation /\ two.intent = ceremony[c].intent
      /\ two.marked = ceremony[c].marked /\ two.subject = a
  BY <1>4 DEF CeremonyRow
<1> HIDE DEF two
<1>6. row \in CeremonyRow /\ row.state = ceremony[c].state /\ row.actor = ceremony[c].actor
      /\ row.invitation = ceremony[c].invitation /\ row.intent = ceremony[c].intent
      /\ row.marked = ceremony[c].marked /\ row.subject = a
  BY <1>3, <1>5 DEF CeremonyRow
<1> HIDE DEF row
<1>7. CeremonyRowOK(row)
  BY <1>3, <1>6 DEF CeremonyRowOK
<1>8. ceremony[c].state \in LiveCeremony /\ ceremony[c].actor \in Actors =>
        proof[ceremony[c].actor] # "deleted"
  BY DEF NothingOutlivesDeletion
<1>9. ceremony[c].state = "proof_verified" /\ ceremony[c].invitation \in Invitations =>
        invitation[ceremony[c].invitation].state # "deleted"
  BY DEF RetiredSubjectIsClosed
<1>10. UNCHANGED <<now, proof, invitation, session, stepUp, ended>>
  BY DEF SettleProviderResult
<1> QED BY <1>2, <1>6, <1>7, <1>8, <1>9, <1>10, OneCeremonyStep

LEMMA VerifyKeeps ==
  ASSUME MentorInv, NEW c \in Ceremonies, Verify(c)
  PROVE  MentorInv'
<1> USE DEF MentorInv, CeremonyTypeOK
<1> DEFINE a == ceremony[c].subject
           m == IF ceremony[c].intent = "recovery" THEN ActiveOf(a) ELSE ceremony[c].marked
<1>1. PICK i \in IF ceremony[c].intent = "stepUp" THEN {NoInvitation} ELSE Waiting(c) :
        ceremony' = [ceremony EXCEPT
            ![c] = [@ EXCEPT !.state = "proof_verified", !.provider = "consumed", !.actor = a,
                      !.invitation = i, !.marked = m]]
  BY DEF Verify
<1> DEFINE one == [ceremony[c] EXCEPT !.state = "proof_verified"]
           two == [one EXCEPT !.provider = "consumed"]
           three == [two EXCEPT !.actor = a]
           four == [three EXCEPT !.invitation = i]
           row == [four EXCEPT !.marked = m]
<1>2. ceremony' = [ceremony EXCEPT ![c] = row]
  BY <1>1
<1>3. ceremony[c] \in CeremonyRow /\ CeremonyRowOK(ceremony[c])
  BY DEF CeremonyLinks
<1>4. ceremony[c].state = "challenge_issued" /\ a \in Actors /\ proof[a] = "current"
      /\ UNCHANGED <<now, proof, invitation, session, stepUp, ended>>
  BY <1>3 DEF Verify, CeremonyRowOK
<1>5. /\ i \in Invitations \union {NoInvitation}
      /\ i \in Invitations => invitation[i].state = "pending" /\ invitation[i].actor = a
      /\ ceremony[c].intent # "stepUp" => i \in Invitations
  BY <1>1, CeremonyAssumption DEF Waiting
<1>6. m \in SUBSET Sessions /\ (ceremony[c].intent # "recovery" => m = {})
  BY <1>3 DEF CeremonyRow, CeremonyRowOK, ActiveOf, SessionsOf
<1> HIDE DEF a, m
<1>7. one \in CeremonyRow /\ one.state = "proof_verified" /\ one.intent = ceremony[c].intent
  BY <1>3 DEF CeremonyRow, LiveCeremony
<1> HIDE DEF one
<1>8. two \in CeremonyRow /\ two.state = "proof_verified" /\ two.intent = ceremony[c].intent
      /\ two.provider = "consumed"
  BY <1>7 DEF CeremonyRow
<1> HIDE DEF two
<1>9. three \in CeremonyRow /\ three.state = "proof_verified" /\ three.intent = ceremony[c].intent
      /\ three.provider = "consumed" /\ three.actor = a
  BY <1>4, <1>8 DEF CeremonyRow
<1> HIDE DEF three
<1>10. four \in CeremonyRow /\ four.state = "proof_verified" /\ four.intent = ceremony[c].intent
      /\ four.provider = "consumed" /\ four.actor = a /\ four.invitation = i
  BY <1>5, <1>9 DEF CeremonyRow
<1> HIDE DEF four
<1>11. row \in CeremonyRow /\ row.state = "proof_verified" /\ row.intent = ceremony[c].intent
      /\ row.provider = "consumed" /\ row.actor = a /\ row.invitation = i /\ row.marked = m
  BY <1>6, <1>10 DEF CeremonyRow
<1> HIDE DEF row
<1>12. CeremonyRowOK(row)
  BY <1>4, <1>5, <1>6, <1>11 DEF CeremonyRowOK
<1> QED BY <1>2, <1>4, <1>5, <1>11, <1>12, OneCeremonyStep DEF SpentCeremony

LEMMA ExpireCeremonyKeeps ==
  ASSUME MentorInv, NEW c \in Ceremonies, ExpireCeremony(c)
  PROVE  MentorInv'
<1> USE DEF MentorInv, CeremonyTypeOK, ExpireCeremony, ElapsedCeremony
<1> DEFINE row == [ceremony[c] EXCEPT !.state = "expired"]
<1>1. ceremony[c] \in CeremonyRow /\ CeremonyRowOK(ceremony[c])
  BY DEF CeremonyLinks
<1>2. ceremony' = [ceremony EXCEPT ![c] = row] /\ ceremony[c].state \in LiveCeremony
  OBVIOUS
<1>3. row \in CeremonyRow /\ CeremonyRowOK(row) /\ row.state = "expired"
  BY <1>1 DEF CeremonyRow, CeremonyRowOK
<1> HIDE DEF row
<1> QED BY <1>2, <1>3, OneCeremonyStep DEF LiveCeremony, SpentCeremony

LEMMA TickKeeps ==
  ASSUME MentorInv, Tick PROVE MentorInv'
<1> USE DEF Tick
<1>1. CeremonyTypeOK'
  BY CeremonyAssumption DEF MentorInv, CeremonyTypeOK
<1>2. InvitationsKept /\ SessionsReduced /\ StepUpsReduced
  BY InvitationsStay, SessionsStay, StepUpsStay
<1>3. SpentKept /\ CeremonyLinks'
  BY DEF MentorInv, SpentKept, CeremonyLinks, CeremonyRowOK
<1>4. NothingOutlivesDeletion' /\ RetiredSubjectIsClosed'
  BY DEF MentorInv, NothingOutlivesDeletion, RetiredSubjectIsClosed, SessionsOf
<1> QED BY <1>1, <1>2, <1>3, <1>4, SessionsOnlyReduced, LinksKept, StepUpsKeepSession, EndedStay
        DEF MentorInv

LEMMA InviteKeeps ==
  ASSUME MentorInv, NEW i \in Invitations, NEW a \in Actors, NEW p \in Purposes, Invite(i, a, p)
  PROVE  MentorInv'
<1> DEFINE u == now + CeremonyTTL
           row == [state |-> "pending", actor |-> a, purpose |-> p, until |-> u]
<1>1. invitation' = [invitation EXCEPT ![i] = row] /\ invitation[i].state = "none"
      /\ proof[a] = "current" /\ UNCHANGED <<now, proof, ceremony, session, stepUp, ended>>
  BY DEF Invite
<1>2. u \in Nat
  BY CeremonyAssumption DEF MentorInv, CeremonyTypeOK
<1> HIDE DEF u
<1>3. row \in InvitationRow /\ row.state = "pending" /\ row.actor = a
  BY <1>2 DEF InvitationRow
<1> HIDE DEF row
<1>4. CeremonyTypeOK'
  BY <1>1, <1>3 DEF MentorInv, CeremonyTypeOK
<1>5. invitation'[i] = row /\ \A j \in Invitations : j # i => invitation'[j] = invitation[j]
  BY <1>1 DEF MentorInv, CeremonyTypeOK
<1>6. InvitationsKept /\ SessionsReduced /\ StepUpsReduced
  BY <1>1, <1>5, SessionsStay, StepUpsStay DEF InvitationsKept
<1>7. SpentKept /\ CeremonyLinks'
  BY <1>1, <1>5 DEF MentorInv, SpentKept, CeremonyLinks, CeremonyRowOK
<1>8. NothingOutlivesDeletion'
  BY <1>1, <1>3, <1>5 DEF MentorInv, NothingOutlivesDeletion, SessionsOf
<1>9. RetiredSubjectIsClosed'
  BY <1>1, <1>3, <1>5 DEF MentorInv, RetiredSubjectIsClosed
<1> QED BY <1>1, <1>4, <1>6, <1>7, <1>8, <1>9, SessionsOnlyReduced, LinksKept,
           StepUpsKeepSession, EndedStay DEF MentorInv

LEMMA ExchangeStepUpKeeps ==
  ASSUME MentorInv, NEW c \in Ceremonies, NEW s \in Sessions, NEW t \in StepUps,
         ExchangeStepUp(c, s, t)
  PROVE  MentorInv'
<1> DEFINE u == now + StepUpTTL
           new == [state |-> "active", ceremony |-> c, session |-> s, until |-> u]
           row == [ceremony[c] EXCEPT !.state = "exchanged"]
<1>1. /\ stepUp' = [stepUp EXCEPT ![t] = new] /\ ceremony' = [ceremony EXCEPT ![c] = row]
      /\ ceremony[c].state = "proof_verified" /\ session[s].state = "active"
      /\ stepUp[t].state = "none" /\ UNCHANGED <<now, proof, invitation, session, ended>>
  BY DEF ExchangeStepUp, Presentable, MentorInv, CeremonyTypeOK
<1>2. u \in Nat
  BY CeremonyAssumption DEF MentorInv, CeremonyTypeOK
<1> HIDE DEF u
<1>3. new \in StepUpRow /\ new.state = "active" /\ new.session = s
  BY <1>2 DEF StepUpRow
<1> HIDE DEF new
<1>4. ceremony[c] \in CeremonyRow /\ CeremonyRowOK(ceremony[c])
  BY DEF MentorInv, CeremonyTypeOK, CeremonyLinks
<1>5. row \in CeremonyRow /\ row.state = "exchanged" /\ row.invitation = ceremony[c].invitation
      /\ row.actor = ceremony[c].actor /\ CeremonyRowOK(row)
  BY <1>4 DEF CeremonyRow, CeremonyRowOK
<1> HIDE DEF row
<1>6. CeremonyTypeOK'
  BY <1>1, <1>3, <1>5 DEF MentorInv, CeremonyTypeOK
<1>7. ceremony'[c] = row /\ \A d \in Ceremonies : d # c => ceremony'[d] = ceremony[d]
  BY <1>1 DEF MentorInv, CeremonyTypeOK
<1>8. stepUp'[t] = new /\ \A v \in StepUps : v # t => stepUp'[v] = stepUp[v]
  BY <1>1 DEF MentorInv, CeremonyTypeOK
<1>9. InvitationsKept /\ SessionsReduced
  BY <1>1, InvitationsStay, SessionsStay
<1>10. SpentKept
  BY <1>1, <1>5, <1>7 DEF SpentKept, SpentCeremony
<1>11. CeremonyLinks'
  BY <1>1, <1>5, <1>7 DEF MentorInv, CeremonyLinks, CeremonyRowOK
<1>12. StepUpLinks'
  BY <1>1, <1>3, <1>8 DEF MentorInv, StepUpLinks, Used
<1>13. session[s].actor \in Actors /\ session[s].invitation \in Invitations
  BY <1>1 DEF MentorInv, SessionLinks, Used
<1>14. NothingOutlivesDeletion'
  <2>1. \A a \in Actors : proof[a] = "deleted" => session[s].actor # a
    BY <1>1 DEF MentorInv, NothingOutlivesDeletion, SessionsOf
  <2> QED BY <1>1, <1>3, <1>5, <1>7, <1>8, <2>1
          DEF MentorInv, NothingOutlivesDeletion, SessionsOf, LiveCeremony
<1>15. RetiredSubjectIsClosed'
  <2>1. \A i \in Invitations : invitation[i].state = "deleted" => session[s].invitation # i
    BY <1>1 DEF MentorInv, RetiredSubjectIsClosed
  <2> QED BY <1>1, <1>3, <1>5, <1>7, <1>8, <2>1 DEF MentorInv, RetiredSubjectIsClosed
<1> QED BY <1>1, <1>6, <1>9, <1>10, <1>11, <1>12, <1>14, <1>15, SessionsOnlyReduced, LinksKept,
           EndedStay DEF MentorInv

-----------------------------------------------------------------------------
(* Taking away.                                                            *)

LEMMA DroppedSessionRow ==
  ASSUME CeremonyTypeOK, NEW s \in Sessions,
         NEW state \in {"expired", "revoked", "logged_out", "deleted"}
  PROVE  /\ DroppedSession(s, state) \in SessionRow
         /\ DroppedSession(s, state).state = state
         /\ DroppedSession(s, state).actor = session[s].actor
         /\ DroppedSession(s, state).purpose = session[s].purpose
         /\ DroppedSession(s, state).invitation = session[s].invitation
         /\ DroppedSession(s, state).ceremony = session[s].ceremony
         /\ DroppedSession(s, state).next = session[s].next
BY DEF CeremonyTypeOK, DroppedSession, SessionRow

LEMMA DroppedStepUpRow ==
  ASSUME CeremonyTypeOK, NEW t \in StepUps,
         NEW state \in {"consumed", "expired", "revoked", "deleted"}
  PROVE  /\ DroppedStepUp(t, state) \in StepUpRow
         /\ DroppedStepUp(t, state).state = state
         /\ DroppedStepUp(t, state).session = stepUp[t].session
BY DEF CeremonyTypeOK, DroppedStepUp, StepUpRow

LEMMA DroppedCeremonyRow ==
  ASSUME CeremonyTypeOK, NEW c \in Ceremonies, NEW state \in {"revoked", "deleted"}
  PROVE  /\ DroppedCeremony(c, state) \in CeremonyRow
         /\ DroppedCeremony(c, state).state = state
         /\ DroppedCeremony(c, state).intent = ceremony[c].intent
         /\ DroppedCeremony(c, state).actor = ceremony[c].actor
         /\ DroppedCeremony(c, state).invitation = ceremony[c].invitation
         /\ DroppedCeremony(c, state).marked = ceremony[c].marked
         /\ DroppedCeremony(c, state).subject = ceremony[c].subject
         /\ DroppedCeremony(c, state).provider \in {ceremony[c].provider, "rejected"}
<1> DEFINE mid == [ceremony[c] EXCEPT !.state = state]
           v == IF ceremony[c].provider \in Unsettled THEN "rejected" ELSE ceremony[c].provider
           row == [mid EXCEPT !.provider = v]
<1>1. ceremony[c] \in CeremonyRow
  BY DEF CeremonyTypeOK
<1>2. DroppedCeremony(c, state) = row
  BY <1>1 DEF DroppedCeremony, CeremonyRow
<1>3. mid \in CeremonyRow /\ mid.state = state /\ mid.intent = ceremony[c].intent
      /\ mid.actor = ceremony[c].actor /\ mid.invitation = ceremony[c].invitation
      /\ mid.marked = ceremony[c].marked /\ mid.subject = ceremony[c].subject
  BY <1>1 DEF CeremonyRow
<1>4. v \in {ceremony[c].provider, "rejected"} /\ v \in Unsettled \union {"none", "consumed", "rejected", "expired"}
  BY <1>1 DEF CeremonyRow
<1> HIDE DEF mid, v
<1>5. row \in CeremonyRow /\ row.state = state /\ row.intent = ceremony[c].intent
      /\ row.actor = ceremony[c].actor /\ row.invitation = ceremony[c].invitation
      /\ row.marked = ceremony[c].marked /\ row.subject = ceremony[c].subject /\ row.provider = v
  BY <1>3, <1>4 DEF CeremonyRow
<1> QED BY <1>2, <1>4, <1>5

\* What has not been taken away was live before, and is as closed as it was.
LEMMA NothingReopened ==
  ASSUME MentorInv, CeremoniesReduced
  PROVE  /\ \A c \in Ceremonies :
              ceremony'[c].state \in LiveCeremony /\ ceremony'[c].actor \in Actors =>
                proof[ceremony'[c].actor] # "deleted"
         /\ \A c \in Ceremonies :
              ceremony'[c].state = "proof_verified" /\ ceremony'[c].invitation \in Invitations =>
                invitation[ceremony'[c].invitation].state # "deleted"
<1>1. \A c \in Ceremonies : ceremony'[c].state \in LiveCeremony => ceremony'[c].state = ceremony[c].state
  BY DEF CeremoniesReduced
<1> QED BY <1>1 DEF MentorInv, NothingOutlivesDeletion, RetiredSubjectIsClosed, CeremoniesReduced,
                    LiveCeremony

LEMMA ExpireSessionKeeps ==
  ASSUME MentorInv, NEW s \in Sessions, ExpireSession(s)
  PROVE  MentorInv'
<1> DEFINE row == DroppedSession(s, "expired")
<1>1. session' = [session EXCEPT ![s] = row] /\ session[s].state = "active"
      /\ UNCHANGED <<now, proof, invitation, ceremony, stepUp, ended>>
  BY DEF ExpireSession, ElapsedSession
<1>2. row \in SessionRow /\ row.state = "expired" /\ row.actor = session[s].actor
      /\ row.purpose = session[s].purpose /\ row.invitation = session[s].invitation
      /\ row.ceremony = session[s].ceremony /\ row.next = session[s].next
  BY DroppedSessionRow DEF MentorInv
<1> HIDE DEF row
<1>3. session'[s] = row /\ \A r \in Sessions : r # s => session'[r] = session[r]
  BY <1>1 DEF MentorInv, CeremonyTypeOK
<1>4. CeremonyTypeOK'
  BY <1>1, <1>2 DEF MentorInv, CeremonyTypeOK
<1>5. SessionsReduced
  BY <1>1, <1>2, <1>3 DEF SessionsReduced, Used
<1>6. InvitationsKept /\ StepUpsReduced
  BY <1>1, InvitationsStay, StepUpsStay
<1>7. CeremoniesReduced
  BY <1>1 DEF CeremoniesReduced
<1>8. NothingOutlivesDeletion'
  BY <1>1, <1>5, <1>6, <1>7, NothingReopened, DeletionStands
<1>9. RetiredSubjectIsClosed'
  BY <1>1, <1>5, <1>6, <1>7, NothingReopened, ErasureStands
<1> QED BY <1>1, <1>4, <1>5, <1>6, <1>7, <1>8, <1>9, SessionsOnlyReduced, LinksKept, RowsStayOK,
           StepUpsKeepSession, EndedStay DEF MentorInv

\* The rows a sweep leaves.
LEMMA SweptCeremonyRow ==
  ASSUME MentorInv, Sweep, NEW c \in Ceremonies
  PROVE  /\ ceremony'[c] \in CeremonyRow
         /\ ceremony'[c].intent = ceremony[c].intent /\ ceremony'[c].actor = ceremony[c].actor
         /\ ceremony'[c].invitation = ceremony[c].invitation
         /\ ceremony'[c].marked = ceremony[c].marked /\ ceremony'[c].subject = ceremony[c].subject
         /\ ceremony'[c].state # ceremony[c].state =>
              ceremony'[c].state = "expired" /\ ceremony[c].state \notin SpentCeremony
         /\ ceremony'[c].provider # ceremony[c].provider => ceremony'[c].provider = "expired"
<1> DEFINE u == IF ElapsedCeremony(c) \/ (ceremony[c].state = "bootstrap" /\ ceremony[c].until <= now)
                THEN "expired" ELSE ceremony[c].state
           v == IF ceremony[c].provider \in Unsettled /\ ceremony[c].answerUntil <= now
                THEN "expired" ELSE ceremony[c].provider
           mid == [ceremony[c] EXCEPT !.state = u]
           row == [mid EXCEPT !.provider = v]
<1>1. ceremony[c] \in CeremonyRow
  BY DEF MentorInv, CeremonyTypeOK
<1>2. ceremony'[c] = row
  BY <1>1 DEF Sweep, CeremonyRow
<1>3. /\ u \in LiveCeremony \union {"none", "bootstrap", "exchanged", "expired", "revoked", "deleted"}
      /\ u # ceremony[c].state => u = "expired" /\ ceremony[c].state \notin SpentCeremony
  BY <1>1 DEF CeremonyRow, ElapsedCeremony, LiveCeremony, SpentCeremony
<1>4. /\ v \in Unsettled \union {"none", "consumed", "rejected", "expired"}
      /\ v # ceremony[c].provider => v = "expired"
  BY <1>1 DEF CeremonyRow
<1> HIDE DEF u, v
<1>5. mid \in CeremonyRow /\ mid.state = u /\ mid.intent = ceremony[c].intent
      /\ mid.actor = ceremony[c].actor /\ mid.invitation = ceremony[c].invitation
      /\ mid.marked = ceremony[c].marked /\ mid.subject = ceremony[c].subject
      /\ mid.provider = ceremony[c].provider
  BY <1>1, <1>3 DEF CeremonyRow
<1> HIDE DEF mid
<1>6. row \in CeremonyRow /\ row.state = u /\ row.intent = ceremony[c].intent
      /\ row.actor = ceremony[c].actor /\ row.invitation = ceremony[c].invitation
      /\ row.marked = ceremony[c].marked /\ row.subject = ceremony[c].subject
      /\ row.provider = v
  BY <1>4, <1>5 DEF CeremonyRow
<1> HIDE DEF row
<1> QED BY <1>2, <1>3, <1>4, <1>6

LEMMA SweptInvitationRow ==
  ASSUME MentorInv, Sweep, NEW i \in Invitations
  PROVE  /\ invitation'[i] \in InvitationRow /\ invitation'[i].actor = invitation[i].actor
         /\ invitation'[i].state # invitation[i].state =>
              invitation'[i].state = "expired" /\ invitation[i].state \in {"pending", "accepted"}
<1> DEFINE u == IF invitation[i].state \in {"pending", "accepted"} /\ invitation[i].until <= now
                THEN "expired" ELSE invitation[i].state
           row == [invitation[i] EXCEPT !.state = u]
<1>1. invitation[i] \in InvitationRow
  BY DEF MentorInv, CeremonyTypeOK
<1>2. invitation'[i] = row
  BY <1>1 DEF Sweep, InvitationRow
<1>3. u \in {invitation[i].state, "expired"}
      /\ (u # invitation[i].state => u = "expired" /\ invitation[i].state \in {"pending", "accepted"})
  OBVIOUS
<1> HIDE DEF u
<1> QED BY <1>1, <1>2, <1>3 DEF InvitationRow

LEMMA SweepKeeps ==
  ASSUME MentorInv, Sweep PROVE MentorInv'
<1>1. \A s \in Sessions :
        session'[s] = IF ElapsedSession(s) THEN DroppedSession(s, "expired") ELSE session[s]
  BY DEF Sweep
<1>2. \A t \in StepUps :
        stepUp'[t] = IF stepUp[t].state = "active" /\ stepUp[t].until <= now
                     THEN DroppedStepUp(t, "expired") ELSE stepUp[t]
  BY DEF Sweep
<1>3. UNCHANGED <<now, proof, ended>>
  BY DEF Sweep
<1>4. CeremonyTypeOK'
  <2>1. \A s \in Sessions : session'[s] \in SessionRow
    BY <1>1, DroppedSessionRow DEF MentorInv, CeremonyTypeOK
  <2>2. \A t \in StepUps : stepUp'[t] \in StepUpRow
    BY <1>2, DroppedStepUpRow DEF MentorInv, CeremonyTypeOK
  <2>3. \A c \in Ceremonies : ceremony'[c] \in CeremonyRow
    BY SweptCeremonyRow
  <2>4. \A i \in Invitations : invitation'[i] \in InvitationRow
    BY SweptInvitationRow
  <2>5. /\ session' = [s \in Sessions |-> session'[s]] /\ stepUp' = [t \in StepUps |-> stepUp'[t]]
        /\ ceremony' = [c \in Ceremonies |-> ceremony'[c]]
        /\ invitation' = [i \in Invitations |-> invitation'[i]]
    BY DEF Sweep
  <2> QED BY <1>3, <2>1, <2>2, <2>3, <2>4, <2>5 DEF MentorInv, CeremonyTypeOK
<1>5. SessionsReduced
  <2>1. \A s \in Sessions :
          /\ session'[s].actor = session[s].actor /\ session'[s].purpose = session[s].purpose
          /\ session'[s].invitation = session[s].invitation
          /\ session'[s].ceremony = session[s].ceremony /\ session'[s].next = session[s].next
          /\ session'[s].state # session[s].state =>
               session[s].state = "active" /\ session'[s].state = "expired"
    BY <1>1, DroppedSessionRow DEF MentorInv, ElapsedSession
  <2> QED BY <2>1 DEF SessionsReduced, Used
<1>6. StepUpsReduced
  BY <1>2, DroppedStepUpRow DEF StepUpsReduced, MentorInv
<1>7. /\ InvitationsKept
      /\ \A i \in Invitations : invitation'[i].actor = invitation[i].actor
      /\ \A i \in Invitations : invitation'[i].state = "deleted" => invitation[i].state = "deleted"
  BY SweptInvitationRow DEF InvitationsKept
<1>8. CeremoniesReduced
  BY SweptCeremonyRow DEF CeremoniesReduced, LiveCeremony
<1>9. NothingOutlivesDeletion'
  BY <1>3, <1>5, <1>6, <1>7, <1>8, NothingReopened, DeletionStands
<1>10. RetiredSubjectIsClosed'
  BY <1>3, <1>5, <1>6, <1>7, <1>8, NothingReopened, ErasureStands
<1> QED BY <1>3, <1>4, <1>5, <1>6, <1>7, <1>8, <1>9, <1>10, SessionsOnlyReduced, LinksKept,
           RowsStayOK, StepUpsKeepSession, EndedStay DEF MentorInv

\* Sessions of one login have one invitation, and with it one mentor.
LEMMA OneLoginOneMentor ==
  ASSUME MentorInv, NEW r \in Sessions, NEW s \in Sessions, Used(r), Used(s),
         session[r].ceremony = session[s].ceremony
  PROVE  session[r].invitation = session[s].invitation /\ session[r].actor = session[s].actor
BY DEF MentorInv, SessionLinks

LEMMA DeleteAuthorityKeeps ==
  ASSUME MentorInv, NEW p \in Sessions, NEW q \in StepUps, DeleteAuthority(p, q)
  PROVE  MentorInv'
<1> DEFINE a == session[p].actor
<1>1. session[p].state = "active" /\ a \in Actors
  BY DEF DeleteAuthority, Presentable, MentorInv, SessionLinks, Used
<1>2. \A s \in Sessions :
        session'[s] = IF session[s].actor = a /\ session[s].state \in {"active", "rotated_out"}
                      THEN DroppedSession(s, "deleted") ELSE session[s]
  BY DEF DeleteAuthority, SessionsOf
<1>3. \A i \in Invitations :
        invitation'[i] = IF invitation[i].actor = a
                         THEN [invitation[i] EXCEPT !.state = "deleted"] ELSE invitation[i]
  BY DEF DeleteAuthority, ErasedInvitations
<1>4. \A c \in Ceremonies :
        ceremony'[c] = IF ceremony[c].actor = a \/ ceremony[c].subject = a
                       THEN DroppedCeremony(c, "deleted") ELSE ceremony[c]
  BY DEF DeleteAuthority
<1>5. \A t \in StepUps :
        stepUp'[t] = IF stepUp[t].state = "none" \/ session[stepUp[t].session].actor # a
                     THEN stepUp[t]
                     ELSE DroppedStepUp(t, IF t = q THEN "consumed" ELSE "deleted")
  BY DEF DeleteAuthority
<1>6. proof' = [proof EXCEPT ![a] = "deleted"] /\ UNCHANGED <<now, ended>>
  BY DEF DeleteAuthority
<1>7. /\ session' = [s \in Sessions |-> session'[s]] /\ stepUp' = [t \in StepUps |-> stepUp'[t]]
      /\ ceremony' = [c \in Ceremonies |-> ceremony'[c]]
      /\ invitation' = [i \in Invitations |-> invitation'[i]]
  BY DEF DeleteAuthority
<1> HIDE DEF a
<1>8. \A i \in Invitations :
        /\ invitation'[i] \in InvitationRow /\ invitation'[i].actor = invitation[i].actor
        /\ invitation'[i].state = IF invitation[i].actor = a THEN "deleted" ELSE invitation[i].state
  BY <1>3 DEF MentorInv, CeremonyTypeOK, InvitationRow
<1>9. CeremonyTypeOK'
  <2>1. \A s \in Sessions : session'[s] \in SessionRow
    BY <1>2, DroppedSessionRow DEF MentorInv, CeremonyTypeOK
  <2>2. \A t \in StepUps : stepUp'[t] \in StepUpRow
    BY <1>5, DroppedStepUpRow DEF MentorInv, CeremonyTypeOK
  <2>3. \A c \in Ceremonies : ceremony'[c] \in CeremonyRow
    BY <1>4, DroppedCeremonyRow DEF MentorInv, CeremonyTypeOK
  <2>4. proof' \in [Actors -> {"current", "deleted"}]
    BY <1>6 DEF MentorInv, CeremonyTypeOK
  <2> QED BY <1>6, <1>7, <1>8, <2>1, <2>2, <2>3, <2>4 DEF MentorInv, CeremonyTypeOK
<1>10. \A s \in Sessions :
         /\ session'[s].actor = session[s].actor /\ session'[s].purpose = session[s].purpose
         /\ session'[s].invitation = session[s].invitation
         /\ session'[s].ceremony = session[s].ceremony /\ session'[s].next = session[s].next
         /\ session'[s].state = IF session[s].actor = a /\ session[s].state \in {"active", "rotated_out"}
                                THEN "deleted" ELSE session[s].state
  BY <1>2, DroppedSessionRow DEF MentorInv
<1>11. SessionsReduced
  <2>1. \A r, s \in Sessions :
          session'[r].state = "active" /\ session[s].state = "rotated_out"
            /\ session[s].ceremony = session[r].ceremony => session'[s].state = "rotated_out"
    <3> SUFFICES ASSUME NEW r \in Sessions, NEW s \in Sessions, session'[r].state = "active",
                        session[s].state = "rotated_out", session[s].ceremony = session[r].ceremony
                 PROVE  session'[s].state = "rotated_out"
      OBVIOUS
    <3>1. session[r].state = "active" /\ session[r].actor # a
      BY <1>10
    <3>2. session[s].actor = session[r].actor
      BY <3>1, OneLoginOneMentor DEF Used
    <3> QED BY <1>10, <3>1, <3>2
  <2> QED BY <1>10, <2>1 DEF SessionsReduced, Used
<1>12. \A t \in StepUps :
         /\ stepUp'[t].session = stepUp[t].session
         /\ stepUp'[t].state # stepUp[t].state =>
              stepUp[t].state # "none" /\ stepUp'[t].state \notin {"none", "active"}
         /\ stepUp'[t].state = "active" => session[stepUp[t].session].actor # a
  BY <1>5, DroppedStepUpRow DEF MentorInv
<1>13. StepUpsReduced
  BY <1>12 DEF StepUpsReduced
<1>14. InvitationsKept
  BY <1>8 DEF InvitationsKept
<1>15. CeremoniesReduced
  BY <1>4, DroppedCeremonyRow DEF CeremoniesReduced, MentorInv, LiveCeremony, SpentCeremony
<1>16. \A c \in Ceremonies : ceremony'[c].state \in LiveCeremony => ceremony[c].actor # a
  BY <1>4, DroppedCeremonyRow DEF MentorInv, LiveCeremony
<1>17. NothingOutlivesDeletion'
  <2> SUFFICES ASSUME NEW b \in Actors, proof'[b] = "deleted"
               PROVE  /\ \A s \in Sessions : session'[s].actor = b =>
                           session'[s].state \notin {"active", "rotated_out"}
                      /\ \A i \in Invitations : invitation'[i].actor = b =>
                           invitation'[i].state = "deleted"
                      /\ \A c \in Ceremonies : ceremony'[c].actor = b =>
                           ceremony'[c].state \notin LiveCeremony
                      /\ \A t \in StepUps : stepUp'[t].state = "active" =>
                           session'[stepUp'[t].session].actor # b
    BY DEF NothingOutlivesDeletion, SessionsOf
  <2>1. \A t \in StepUps : stepUp'[t].state = "active" =>
          stepUp[t].state = "active" /\ stepUp[t].session \in Sessions
    BY <1>12 DEF MentorInv, StepUpLinks
  <2>2. CASE b = a
    BY <1>8, <1>10, <1>12, <1>15, <1>16, <2>1, <2>2 DEF CeremoniesReduced
  <2>3. CASE b # a
    <3>1. proof[b] = "deleted"
      BY <1>6, <2>3 DEF MentorInv, CeremonyTypeOK
    <3>2. /\ \A s \in Sessions : session[s].actor = b => session[s].state \notin {"active", "rotated_out"}
          /\ \A i \in Invitations : invitation[i].actor = b => invitation[i].state = "deleted"
          /\ \A c \in Ceremonies : ceremony[c].actor = b => ceremony[c].state \notin LiveCeremony
          /\ \A t \in StepUps : stepUp[t].state = "active" => session[stepUp[t].session].actor # b
      BY <3>1 DEF MentorInv, NothingOutlivesDeletion, SessionsOf
    <3> QED BY <1>8, <1>10, <1>12, <1>15, <2>1, <3>2 DEF CeremoniesReduced
  <2> QED BY <2>2, <2>3
<1>18. RetiredSubjectIsClosed'
  <2> SUFFICES ASSUME NEW i \in Invitations, invitation'[i].state = "deleted"
               PROVE  /\ \A s \in Sessions : session'[s].invitation = i => session'[s].state # "active"
                      /\ \A c \in Ceremonies : ceremony'[c].invitation = i =>
                           ceremony'[c].state # "proof_verified"
                      /\ \A t \in StepUps : stepUp'[t].state = "active" =>
                           session'[stepUp'[t].session].invitation # i
    BY DEF RetiredSubjectIsClosed
  <2>1. \A t \in StepUps : stepUp'[t].state = "active" =>
          stepUp[t].state = "active" /\ stepUp[t].session \in Sessions /\ Used(stepUp[t].session)
    BY <1>12 DEF MentorInv, StepUpLinks
  <2>2. CASE invitation[i].actor = a
    <3>1. \A s \in Sessions : Used(s) /\ session[s].invitation = i => session[s].actor = a
      BY <2>2 DEF MentorInv, SessionLinks
    <3>2. \A s \in Sessions : session'[s].invitation = i => session'[s].state # "active"
      BY <1>10, <3>1 DEF Used
    <3>3. \A c \in Ceremonies : ceremony[c].invitation = i /\ ceremony[c].state = "proof_verified" =>
            ceremony[c].actor = a
      BY <2>2 DEF MentorInv, CeremonyLinks, CeremonyRowOK
    <3>4. \A c \in Ceremonies : ceremony'[c].invitation = i => ceremony'[c].state # "proof_verified"
      BY <1>15, <1>16, <3>3 DEF CeremoniesReduced, LiveCeremony
    <3>5. \A t \in StepUps : stepUp'[t].state = "active" => session'[stepUp'[t].session].invitation # i
      BY <1>10, <1>12, <2>1, <3>1
    <3> QED BY <3>2, <3>4, <3>5
  <2>3. CASE invitation[i].actor # a
    <3>1. invitation[i].state = "deleted"
      BY <1>8, <2>3
    <3>2. /\ \A s \in Sessions : session[s].invitation = i => session[s].state # "active"
          /\ \A c \in Ceremonies : ceremony[c].invitation = i => ceremony[c].state # "proof_verified"
          /\ \A t \in StepUps : stepUp[t].state = "active" => session[stepUp[t].session].invitation # i
      BY <3>1 DEF MentorInv, RetiredSubjectIsClosed
    <3> QED BY <1>10, <1>12, <1>15, <2>1, <3>2 DEF CeremoniesReduced, LiveCeremony
  <2> QED BY <2>2, <2>3
<1> QED BY <1>6, <1>9, <1>11, <1>13, <1>14, <1>15, <1>17, <1>18, SessionsOnlyReduced, LinksKept,
           RowsStayOK, StepUpsKeepSession, EndedStay DEF MentorInv

LEMMA RetireSubjectKeeps ==
  ASSUME MentorInv, NEW k \in Invitations, RetireSubject(k)
  PROVE  MentorInv'
<1>1. invitation[k].state # "none" /\ UNCHANGED <<now, proof, ended>>
  BY DEF RetireSubject
<1>2. \A s \in Sessions :
        session'[s] = IF session[s].invitation = k THEN DroppedSession(s, "deleted") ELSE session[s]
  BY DEF RetireSubject, GraphSessions
<1>3. \A i \in Invitations :
        invitation'[i] = IF i = k THEN [invitation[i] EXCEPT !.state = "deleted"] ELSE invitation[i]
  BY DEF RetireSubject, MentorInv, CeremonyTypeOK
<1>4. \A c \in Ceremonies :
        /\ ceremony'[c] \in {ceremony[c], DroppedCeremony(c, "deleted")}
        /\ ceremony[c].invitation = k => ceremony'[c] = DroppedCeremony(c, "deleted")
  BY DEF RetireSubject, GraphCeremonies
<1>5. \A t \in StepUps :
        stepUp'[t] = IF stepUp[t].session \in Sessions /\ session[stepUp[t].session].invitation = k
                     THEN DroppedStepUp(t, "deleted") ELSE stepUp[t]
  BY DEF RetireSubject, GraphStepUps, GraphSessions
<1>6. /\ session' = [s \in Sessions |-> session'[s]] /\ stepUp' = [t \in StepUps |-> stepUp'[t]]
      /\ ceremony' = [c \in Ceremonies |-> ceremony'[c]]
      /\ invitation' = [i \in Invitations |-> invitation'[i]]
  BY DEF RetireSubject, MentorInv, CeremonyTypeOK
<1>7. \A i \in Invitations :
        /\ invitation'[i] \in InvitationRow /\ invitation'[i].actor = invitation[i].actor
        /\ invitation'[i].state = IF i = k THEN "deleted" ELSE invitation[i].state
  BY <1>3 DEF MentorInv, CeremonyTypeOK, InvitationRow
<1>8. CeremonyTypeOK'
  <2>1. \A s \in Sessions : session'[s] \in SessionRow
    BY <1>2, DroppedSessionRow DEF MentorInv, CeremonyTypeOK
  <2>2. \A t \in StepUps : stepUp'[t] \in StepUpRow
    BY <1>5, DroppedStepUpRow DEF MentorInv, CeremonyTypeOK
  <2>3. \A c \in Ceremonies : ceremony'[c] \in CeremonyRow
    BY <1>4, DroppedCeremonyRow DEF MentorInv, CeremonyTypeOK
  <2> QED BY <1>1, <1>6, <1>7, <2>1, <2>2, <2>3 DEF MentorInv, CeremonyTypeOK
<1>9. \A s \in Sessions :
        /\ session'[s].actor = session[s].actor /\ session'[s].purpose = session[s].purpose
        /\ session'[s].invitation = session[s].invitation
        /\ session'[s].ceremony = session[s].ceremony /\ session'[s].next = session[s].next
        /\ session'[s].state = IF session[s].invitation = k THEN "deleted" ELSE session[s].state
  BY <1>2, DroppedSessionRow DEF MentorInv
\* No session that was never opened hangs on the invitation.
<1>10. \A s \in Sessions : session[s].invitation = k => Used(s)
  BY CeremonyAssumption DEF MentorInv, OpenedInOrder
<1>11. SessionsReduced
  <2>1. \A r, s \in Sessions :
          session'[r].state = "active" /\ session[s].state = "rotated_out"
            /\ session[s].ceremony = session[r].ceremony => session'[s].state = "rotated_out"
    <3> SUFFICES ASSUME NEW r \in Sessions, NEW s \in Sessions, session'[r].state = "active",
                        session[s].state = "rotated_out", session[s].ceremony = session[r].ceremony
                 PROVE  session'[s].state = "rotated_out"
      OBVIOUS
    <3>1. session[r].state = "active" /\ session[r].invitation # k
      BY <1>9
    <3>2. session[s].invitation = session[r].invitation
      BY <3>1, OneLoginOneMentor DEF Used
    <3> QED BY <1>9, <3>1, <3>2
  <2> QED BY <1>9, <1>10, <2>1 DEF SessionsReduced
<1>12. \A t \in StepUps :
         /\ stepUp'[t].session = stepUp[t].session
         /\ stepUp'[t].state # stepUp[t].state =>
              stepUp[t].state # "none" /\ stepUp'[t].state \notin {"none", "active"}
         /\ stepUp'[t].state = "active" => session[stepUp[t].session].invitation # k
  <2> SUFFICES ASSUME NEW t \in StepUps
               PROVE  /\ stepUp'[t].session = stepUp[t].session
                      /\ stepUp'[t].state # stepUp[t].state =>
                           stepUp[t].state # "none" /\ stepUp'[t].state \notin {"none", "active"}
                      /\ stepUp'[t].state = "active" => session[stepUp[t].session].invitation # k
    OBVIOUS
  <2>1. /\ stepUp[t].state = "none" => stepUp[t].session \notin Sessions
        /\ stepUp[t].state # "none" => stepUp[t].session \in Sessions
    BY DEF MentorInv, StepUpLinks, Sessions, NoSession
  <2> QED BY <1>5, <2>1, DroppedStepUpRow DEF MentorInv
<1>13. StepUpsReduced
  BY <1>12 DEF StepUpsReduced
<1>14. InvitationsKept
  BY <1>1, <1>7 DEF InvitationsKept
<1>15. CeremoniesReduced
  BY <1>4, DroppedCeremonyRow DEF CeremoniesReduced, MentorInv, LiveCeremony, SpentCeremony
<1>16. \A c \in Ceremonies : ceremony'[c].state = "proof_verified" =>
         ceremony[c].state = "proof_verified" /\ ceremony[c].invitation # k
  BY <1>4, <1>15, DroppedCeremonyRow DEF MentorInv, CeremoniesReduced, LiveCeremony
<1>17. NothingOutlivesDeletion'
  <2>1. \A i \in Invitations : invitation'[i].actor = invitation[i].actor
    BY <1>7
  <2> QED BY <1>1, <1>11, <1>13, <1>14, <1>15, <2>1, NothingReopened, DeletionStands
<1>18. RetiredSubjectIsClosed'
  <2> SUFFICES ASSUME NEW i \in Invitations, invitation'[i].state = "deleted"
               PROVE  /\ \A s \in Sessions : session'[s].invitation = i => session'[s].state # "active"
                      /\ \A c \in Ceremonies : ceremony'[c].invitation = i =>
                           ceremony'[c].state # "proof_verified"
                      /\ \A t \in StepUps : stepUp'[t].state = "active" =>
                           session'[stepUp'[t].session].invitation # i
    BY DEF RetiredSubjectIsClosed
  <2>1. \A t \in StepUps : stepUp'[t].state = "active" =>
          stepUp[t].state = "active" /\ stepUp[t].session \in Sessions
    BY <1>12 DEF MentorInv, StepUpLinks
  <2>2. CASE i = k
    BY <1>9, <1>12, <1>15, <1>16, <2>1, <2>2 DEF CeremoniesReduced
  <2>3. CASE i # k
    <3>1. invitation[i].state = "deleted"
      BY <1>7, <2>3
    <3>2. /\ \A s \in Sessions : session[s].invitation = i => session[s].state # "active"
          /\ \A c \in Ceremonies : ceremony[c].invitation = i => ceremony[c].state # "proof_verified"
          /\ \A t \in StepUps : stepUp[t].state = "active" => session[stepUp[t].session].invitation # i
      BY <3>1 DEF MentorInv, RetiredSubjectIsClosed
    <3> QED BY <1>9, <1>12, <1>15, <1>16, <2>1, <3>2 DEF CeremoniesReduced
  <2> QED BY <2>2, <2>3
<1> QED BY <1>1, <1>8, <1>11, <1>13, <1>14, <1>15, <1>17, <1>18, SessionsOnlyReduced, LinksKept,
           RowsStayOK, StepUpsKeepSession, EndedStay DEF MentorInv

-----------------------------------------------------------------------------
(* Opening a session.                                                      *)

LEMMA GenerationIsNatural ==
  ASSUME CeremonyTypeOK, NEW c \in Ceremonies, Generation(c) <= MaxGeneration
  PROVE  Generation(c) \in 0 .. MaxGeneration
<1> DEFINE used == {session[s].generation : s \in SessionsOf(ceremony[c].actor)}
<1>1. MaxGeneration \in Nat /\ 1 <= MaxGeneration
  BY CeremonyAssumption
<1>2. used \subseteq 0 .. MaxGeneration
  BY DEF CeremonyTypeOK, SessionRow, SessionsOf
<1>3. Generation(c) = IF ceremony[c].intent = "recovery" /\ used # {}
                      THEN 1 + CHOOSE g \in used : \A h \in used : h <= g ELSE 1
  BY DEF Generation
<1> HIDE DEF used
<1>4. CASE ceremony[c].intent = "recovery" /\ used # {}
  <2> DEFINE top == CHOOSE g \in used : \A h \in used : h <= g
  <2>1. \E g \in used : \A h \in used : h <= g
    BY <1>1, <1>2, <1>4, GreatestElement
  <2>2. top \in used
    BY <2>1
  <2>3. Generation(c) = 1 + top
    BY <1>3, <1>4
  <2> HIDE DEF top
  <2>4. top \in 0 .. MaxGeneration
    BY <1>2, <2>2
  <2> QED BY <1>1, <2>3, <2>4
<1>5. CASE ~ (ceremony[c].intent = "recovery" /\ used # {})
  BY <1>1, <1>3, <1>5
<1> QED BY <1>4, <1>5

LEMMA ExchangeKeeps ==
  ASSUME MentorInv, NEW c \in Ceremonies, Exchange(c)
  PROVE  MentorInv'
<1> DEFINE n == NextSession
           i == ceremony[c].invitation
           a == ceremony[c].actor
           p == ceremony[c].purpose
           m == ceremony[c].marked
           g == Generation(c)
           u == now + SessionTTL
           new == [state |-> "active", actor |-> a, purpose |-> p, invitation |-> i, ceremony |-> c,
                   generation |-> g, seen |-> now, until |-> u, next |-> NoSession]
<1>1. /\ ceremony[c].state = "proof_verified" /\ ceremony[c].intent # "stepUp"
      /\ n \in Sessions /\ proof[a] = "current"
      /\ invitation[i].state = "pending" /\ UNCHANGED <<now, proof, stepUp, ended>>
  BY DEF Exchange, ProofStands
<1>2. ceremony[c] \in CeremonyRow /\ CeremonyRowOK(ceremony[c])
  BY DEF MentorInv, CeremonyTypeOK, CeremonyLinks
<1>3. a \in Actors /\ i \in Invitations /\ invitation[i].actor = a
      /\ p \in Purposes \union {NoPurpose} /\ m \in SUBSET Sessions
  BY <1>1, <1>2 DEF CeremonyRowOK, CeremonyRow
<1>4. \A r \in Sessions :
        session'[r] = IF r = n THEN new
                      ELSE IF r \in m THEN DroppedSession(r, "revoked") ELSE session[r]
  BY DEF Exchange
<1>5. m \subseteq ActiveOf(a) /\ (ceremony[c].intent = "recovery" => m = ActiveOf(a))
  BY <1>2 DEF Exchange, MarkedAreAll, CeremonyRowOK
<1>6. ceremony[c].intent # "recovery" => Conflicts(c) = {}
  BY DEF Exchange
<1>7. /\ session' = [r \in Sessions |-> session'[r]]
      /\ invitation' = [invitation EXCEPT ![i].state = "accepted"]
      /\ ceremony' = [ceremony EXCEPT ![c].state = "exchanged"]
  BY DEF Exchange
<1>8. ~ Used(n) /\ \A s \in Sessions : Used(s) <=> s < n
  BY <1>1, NextIsUnused DEF MentorInv
<1>9. g \in 0 .. MaxGeneration
  BY GenerationIsNatural DEF Exchange, MentorInv
<1>10. u \in Nat /\ now \in Nat
  BY CeremonyAssumption DEF MentorInv, CeremonyTypeOK
<1>11. ActiveOf(a) = {s \in Sessions : session[s].actor = a /\ session[s].state = "active"}
  BY DEF ActiveOf, SessionsOf
<1>12. Conflicts(c) = {s \in ActiveOf(a) : session[s].purpose = p}
  BY DEF Conflicts
<1> HIDE DEF n, i, a, p, m, g, u
<1>13. /\ new \in SessionRow /\ new.state = "active" /\ new.actor = a /\ new.purpose = p
       /\ new.invitation = i /\ new.ceremony = c /\ new.next = NoSession
  BY <1>3, <1>9, <1>10 DEF SessionRow
<1> HIDE DEF new
<1>14. \A r \in Sessions : r # n =>
         /\ session'[r].actor = session[r].actor /\ session'[r].purpose = session[r].purpose
         /\ session'[r].invitation = session[r].invitation
         /\ session'[r].ceremony = session[r].ceremony /\ session'[r].next = session[r].next
         /\ session'[r].state = IF r \in m THEN "revoked" ELSE session[r].state
  BY <1>4, DroppedSessionRow DEF MentorInv
<1>15. session'[n] = new
  BY <1>1, <1>4
<1>16. \A r \in m : r # n /\ session[r].state = "active" /\ session[r].actor = a /\ r \in Sessions
  BY <1>5, <1>8, <1>11 DEF Used
<1>17. /\ invitation'[i].state = "accepted"
       /\ \A j \in Invitations : invitation'[j].actor = invitation[j].actor
       /\ \A j \in Invitations : j # i => invitation'[j] = invitation[j]
       /\ invitation' \in [Invitations -> InvitationRow]
  BY <1>3, <1>7 DEF MentorInv, CeremonyTypeOK, InvitationRow
<1>18. /\ ceremony' \in [Ceremonies -> CeremonyRow]
       /\ ceremony'[c].state = "exchanged" /\ ceremony'[c].invitation = i
       /\ ceremony'[c].actor = a
       /\ \A d \in Ceremonies : d # c => ceremony'[d] = ceremony[d]
  <2> DEFINE row == [ceremony[c] EXCEPT !.state = "exchanged"]
  <2>1. row \in CeremonyRow /\ row.state = "exchanged" /\ row.invitation = i /\ row.actor = a
    BY <1>2 DEF CeremonyRow, i, a
  <2>2. ceremony' = [ceremony EXCEPT ![c] = row]
    BY <1>7 DEF MentorInv, CeremonyTypeOK
  <2> HIDE DEF row
  <2> QED BY <2>1, <2>2 DEF MentorInv, CeremonyTypeOK
<1>19. CeremonyTypeOK'
  <2>1. \A r \in Sessions : session'[r] \in SessionRow
    BY <1>4, <1>13, DroppedSessionRow DEF MentorInv, CeremonyTypeOK
  <2> QED BY <1>1, <1>7, <1>17, <1>18, <2>1 DEF MentorInv, CeremonyTypeOK
\* The ceremony opens its first session.
<1>20. \A s \in Sessions : Used(s) => session[s].ceremony # c
  BY <1>1 DEF MentorInv, SessionLinks, SpentCeremony
<1>21. \A s \in Sessions : Used(s)' <=> Used(s) \/ s = n
  BY <1>13, <1>14, <1>15, <1>16 DEF Used
<1>22. OpenedInOrder'
  <2>1. n \in 0 .. MaxSessions /\ \A s \in Sessions : Used(s)' <=> s <= n
    BY <1>1, <1>8, <1>21, CeremonyAssumption DEF Sessions
  <2>2. \A s \in Sessions : ~ Used(s)' => session'[s].invitation = NoInvitation
    BY <1>14, <1>21 DEF MentorInv, OpenedInOrder
  <2> QED BY <2>1, <2>2 DEF OpenedInOrder, Used
<1>23. SessionLinks'
  <2> SUFFICES ASSUME NEW s \in Sessions, Used(s)'
               PROVE  /\ session'[s].actor \in Actors
                      /\ session'[s].invitation \in Invitations /\ session'[s].ceremony \in Ceremonies
                      /\ invitation'[session'[s].invitation].state # "none"
                      /\ invitation'[session'[s].invitation].actor = session'[s].actor
                      /\ ceremony'[session'[s].ceremony].state \in SpentCeremony
                      /\ ceremony'[session'[s].ceremony].invitation = session'[s].invitation
    BY DEF SessionLinks, Used
  <2>1. CASE s = n
    BY <1>3, <1>13, <1>15, <1>17, <1>18, <2>1 DEF SpentCeremony
  <2>2. CASE s # n
    <3>1. Used(s)
      BY <1>21, <2>2
    <3> QED BY <1>14, <1>17, <1>18, <1>20, <2>2, <3>1 DEF MentorInv, SessionLinks
  <2> QED BY <2>1, <2>2
<1>24. Successors'
  <2> SUFFICES ASSUME NEW s \in Sessions, session'[s].state = "rotated_out"
               PROVE  /\ session'[s].next \in Sessions /\ session'[s].next > s
                      /\ Used(session[s].next)' /\ session'[session'[s].next].ceremony = session'[s].ceremony
    BY DEF Successors, Used
  <2>1. s # n /\ session[s].state = "rotated_out"
    BY <1>13, <1>14, <1>15
  <2>2. /\ session[s].next \in Sessions /\ session[s].next > s /\ Used(session[s].next)
        /\ session[session[s].next].ceremony = session[s].ceremony
    BY <2>1 DEF MentorInv, Successors
  <2>3. session[s].next # n
    BY <1>8, <2>2
  <2>4. session'[s].next = session[s].next /\ session'[s].ceremony = session[s].ceremony
    BY <1>14, <2>1
  <2> QED BY <1>14, <1>21, <2>2, <2>3, <2>4 DEF Used
<1>25. OneTip'
  <2> SUFFICES ASSUME NEW r \in Sessions, NEW s \in Sessions, r # s, session'[r].state = "active",
                      Used(s)', session'[s].ceremony = session'[r].ceremony
               PROVE  session'[s].state = "rotated_out"
    BY DEF OneTip, Used
  <2>1. r # n /\ s # n
    BY <1>13, <1>14, <1>15, <1>20, <1>21 DEF Used
  <2>2. session[r].state = "active" /\ Used(s) /\ session[s].ceremony = session[r].ceremony
    BY <1>14, <1>21, <2>1
  <2>3. session[s].state = "rotated_out"
    BY <2>2 DEF MentorInv, OneTip
  <2> QED BY <1>14, <1>16, <2>1, <2>3
<1>26. OneLiveSession'
  <2>1. \A r \in Sessions : r # n /\ session'[r].state = "active" =>
          session'[r].actor # a \/ session'[r].purpose # p
    BY <1>5, <1>6, <1>11, <1>12, <1>14
  <2>2. \A r \in Sessions : r # n /\ session'[r].state = "active" => session[r].state = "active"
    BY <1>14
  <2> QED BY <1>13, <1>14, <1>15, <2>1, <2>2 DEF MentorInv, OneLiveSession
<1>27. ended \subseteq Sessions /\ EndedAreUsed'
  BY <1>1, <1>21 DEF MentorInv, CeremonyTypeOK, EndedAreUsed, Used
<1>28. EndReachesSuccessor'
  <2> SUFFICES ASSUME NEW e \in ended, NEW s \in Sessions, session'[s].state = "active"
               PROVE  session'[s].ceremony # session'[e].ceremony
    BY <1>1 DEF EndReachesSuccessor
  <2>1. e \in Sessions /\ e # n /\ Used(e)
    BY <1>8, <1>27 DEF MentorInv, EndedAreUsed
  <2>2. CASE s = n
    BY <1>13, <1>14, <1>15, <1>20, <2>1, <2>2
  <2>3. CASE s # n
    BY <1>14, <2>1, <2>3 DEF MentorInv, EndReachesSuccessor
  <2> QED BY <2>2, <2>3
<1>29. CeremonyLinks'
  <2> SUFFICES ASSUME NEW d \in Ceremonies PROVE CeremonyRowOK(ceremony[d])'
    BY DEF CeremonyLinks
  <2>1. CeremonyRowOK(ceremony[d])
    BY DEF MentorInv, CeremonyLinks
  <2>2. /\ ceremony'[d].provider = ceremony[d].provider /\ ceremony'[d].subject = ceremony[d].subject
        /\ ceremony'[d].intent = ceremony[d].intent /\ ceremony'[d].marked = ceremony[d].marked
        /\ ceremony'[d].invitation = ceremony[d].invitation /\ ceremony'[d].actor = ceremony[d].actor
        /\ ceremony'[d].state = IF d = c THEN "exchanged" ELSE ceremony[d].state
    BY <1>7 DEF MentorInv, CeremonyTypeOK, CeremonyRow
  <2>3. ceremony[d].invitation \in Invitations => invitation'[ceremony[d].invitation].state # "none"
    BY <1>17, <2>1 DEF CeremonyRowOK
  <2> QED BY <1>17, <2>1, <2>2, <2>3 DEF CeremonyRowOK
<1>30. StepUpLinks'
  BY <1>1, <1>21 DEF MentorInv, StepUpLinks, Used
<1>31. \A t \in StepUps : stepUp[t].state = "active" =>
         stepUp[t].session \in Sessions /\ stepUp[t].session # n
  BY <1>8 DEF MentorInv, StepUpLinks
<1>32. NothingOutlivesDeletion'
  <2> SUFFICES ASSUME NEW b \in Actors, proof[b] = "deleted"
               PROVE  /\ \A s \in Sessions : session'[s].actor = b =>
                           session'[s].state \notin {"active", "rotated_out"}
                      /\ \A j \in Invitations : invitation'[j].actor = b =>
                           invitation'[j].state = "deleted"
                      /\ \A d \in Ceremonies : ceremony'[d].actor = b =>
                           ceremony'[d].state \notin LiveCeremony
                      /\ \A t \in StepUps : stepUp[t].state = "active" =>
                           session'[stepUp[t].session].actor # b
    BY <1>1 DEF NothingOutlivesDeletion, SessionsOf
  <2>1. b # a
    BY <1>1
  <2>2. /\ \A s \in Sessions : session[s].actor = b => session[s].state \notin {"active", "rotated_out"}
        /\ \A j \in Invitations : invitation[j].actor = b => invitation[j].state = "deleted"
        /\ \A d \in Ceremonies : ceremony[d].actor = b => ceremony[d].state \notin LiveCeremony
        /\ \A t \in StepUps : stepUp[t].state = "active" => session[stepUp[t].session].actor # b
    BY DEF MentorInv, NothingOutlivesDeletion, SessionsOf
  <2>3. \A s \in Sessions : session'[s].actor = b => session'[s].state \notin {"active", "rotated_out"}
    BY <1>13, <1>14, <1>15, <2>1, <2>2
  <2>4. \A j \in Invitations : invitation'[j].actor = b => invitation'[j].state = "deleted"
    BY <1>3, <1>17, <2>1, <2>2
  <2>5. \A d \in Ceremonies : ceremony'[d].actor = b => ceremony'[d].state \notin LiveCeremony
    BY <1>18, <2>1, <2>2
  <2>6. \A t \in StepUps : stepUp[t].state = "active" => session'[stepUp[t].session].actor # b
    BY <1>14, <1>31, <2>2
  <2> QED BY <2>3, <2>4, <2>5, <2>6
<1>33. RetiredSubjectIsClosed'
  <2> SUFFICES ASSUME NEW j \in Invitations, invitation'[j].state = "deleted"
               PROVE  /\ \A s \in Sessions : session'[s].invitation = j => session'[s].state # "active"
                      /\ \A d \in Ceremonies : ceremony'[d].invitation = j =>
                           ceremony'[d].state # "proof_verified"
                      /\ \A t \in StepUps : stepUp[t].state = "active" =>
                           session'[stepUp[t].session].invitation # j
    BY <1>1 DEF RetiredSubjectIsClosed
  <2>1. j # i /\ invitation[j].state = "deleted"
    BY <1>17
  <2>2. /\ \A s \in Sessions : session[s].invitation = j => session[s].state # "active"
        /\ \A d \in Ceremonies : ceremony[d].invitation = j => ceremony[d].state # "proof_verified"
        /\ \A t \in StepUps : stepUp[t].state = "active" => session[stepUp[t].session].invitation # j
    BY <2>1 DEF MentorInv, RetiredSubjectIsClosed
  <2>3. \A s \in Sessions : session'[s].invitation = j => session'[s].state # "active"
    BY <1>13, <1>14, <1>15, <2>1, <2>2
  <2>4. \A d \in Ceremonies : ceremony'[d].invitation = j => ceremony'[d].state # "proof_verified"
    BY <1>18, <2>1, <2>2
  <2>5. \A t \in StepUps : stepUp[t].state = "active" => session'[stepUp[t].session].invitation # j
    BY <1>14, <1>31, <2>2
  <2> QED BY <2>3, <2>4, <2>5
<1> QED BY <1>19, <1>22, <1>23, <1>24, <1>25, <1>26, <1>27, <1>28, <1>29, <1>30, <1>32, <1>33
        DEF MentorInv

LEMMA RotateKeeps ==
  ASSUME MentorInv, NEW p \in Sessions, Rotate(p)
  PROVE  MentorInv'
<1> DEFINE n == NextSession
           g == session[p].generation + 1
           u == Least(session[p].until, now + SessionTTL)
           out == [session[p] EXCEPT !.state = "rotated_out"]
           old == [out EXCEPT !.next = n]
           one == [session[p] EXCEPT !.generation = g]
           two == [one EXCEPT !.seen = now]
           new == [two EXCEPT !.until = u]
<1>1. /\ session[p].state = "active" /\ session[p].generation < MaxGeneration
      /\ n \in Sessions /\ UNCHANGED <<now, proof, invitation, ceremony, stepUp, ended>>
  BY DEF Rotate, Presentable
<1>2. session[p] \in SessionRow
  BY DEF MentorInv, CeremonyTypeOK
<1>3. session' = [session EXCEPT ![p] = old, ![n] = new]
  BY <1>2 DEF Rotate, SessionRow
<1>4. ~ Used(n) /\ \A s \in Sessions : Used(s) <=> s < n
  BY <1>1, NextIsUnused DEF MentorInv
<1>5. g \in 0 .. MaxGeneration
  BY <1>1, <1>2, CeremonyAssumption DEF SessionRow
<1>6. u \in Nat /\ now \in Nat
  BY <1>2, CeremonyAssumption DEF MentorInv, CeremonyTypeOK, SessionRow, Least
<1> HIDE DEF n, g, u
<1>7. /\ out \in SessionRow /\ out.state = "rotated_out" /\ out.actor = session[p].actor
      /\ out.purpose = session[p].purpose /\ out.invitation = session[p].invitation
      /\ out.ceremony = session[p].ceremony
  BY <1>2 DEF SessionRow
<1> HIDE DEF out
<1>8. /\ old \in SessionRow /\ old.state = "rotated_out" /\ old.actor = session[p].actor
      /\ old.purpose = session[p].purpose /\ old.invitation = session[p].invitation
      /\ old.ceremony = session[p].ceremony /\ old.next = n
  BY <1>1, <1>7 DEF SessionRow
<1> HIDE DEF old
<1>9. /\ one \in SessionRow /\ one.state = session[p].state /\ one.actor = session[p].actor
      /\ one.purpose = session[p].purpose /\ one.invitation = session[p].invitation
      /\ one.ceremony = session[p].ceremony
  BY <1>2, <1>5 DEF SessionRow
<1> HIDE DEF one
<1>10. /\ two \in SessionRow /\ two.state = session[p].state /\ two.actor = session[p].actor
       /\ two.purpose = session[p].purpose /\ two.invitation = session[p].invitation
       /\ two.ceremony = session[p].ceremony
  BY <1>6, <1>9 DEF SessionRow
<1> HIDE DEF two
<1>11. /\ new \in SessionRow /\ new.state = "active" /\ new.actor = session[p].actor
       /\ new.purpose = session[p].purpose /\ new.invitation = session[p].invitation
       /\ new.ceremony = session[p].ceremony
  BY <1>1, <1>6, <1>10 DEF SessionRow
<1> HIDE DEF new
<1>12. p # n
  BY <1>1, <1>4 DEF Used
<1>13. /\ session'[p] = old /\ session'[n] = new
       /\ \A r \in Sessions : r # p /\ r # n => session'[r] = session[r]
       /\ session' \in [Sessions -> SessionRow]
  BY <1>1, <1>3, <1>8, <1>11, <1>12 DEF MentorInv, CeremonyTypeOK
<1> HIDE <1>3
<1>14. CeremonyTypeOK'
  BY <1>1, <1>13 DEF MentorInv, CeremonyTypeOK
<1>15. Used(p) /\ \A s \in Sessions : Used(s)' <=> Used(s) \/ s = n
  BY <1>1, <1>8, <1>11, <1>13 DEF Used
\* Every row but the new one stands on the login it stood on.
<1>16. \A s \in Sessions : s # n =>
         /\ session'[s].actor = session[s].actor /\ session'[s].purpose = session[s].purpose
         /\ session'[s].invitation = session[s].invitation
         /\ session'[s].ceremony = session[s].ceremony
         /\ session'[s].state = IF s = p THEN "rotated_out" ELSE session[s].state
  BY <1>8, <1>13
<1>17. OpenedInOrder'
  <2>1. n \in 0 .. MaxSessions /\ \A s \in Sessions : Used(s)' <=> s <= n
    BY <1>1, <1>4, <1>15, CeremonyAssumption DEF Sessions
  <2>2. \A s \in Sessions : ~ Used(s)' => session'[s].invitation = NoInvitation
    BY <1>15, <1>16 DEF MentorInv, OpenedInOrder
  <2> QED BY <2>1, <2>2 DEF OpenedInOrder, Used
<1>18. SessionLinks'
  <2> SUFFICES ASSUME NEW s \in Sessions, Used(s)'
               PROVE  /\ session'[s].actor \in Actors
                      /\ session'[s].invitation \in Invitations /\ session'[s].ceremony \in Ceremonies
                      /\ invitation[session'[s].invitation].state # "none"
                      /\ invitation[session'[s].invitation].actor = session'[s].actor
                      /\ ceremony[session'[s].ceremony].state \in SpentCeremony
                      /\ ceremony[session'[s].ceremony].invitation = session'[s].invitation
    BY <1>1 DEF SessionLinks, Used
  <2>1. CASE s = n
    BY <1>11, <1>13, <1>15, <2>1 DEF MentorInv, SessionLinks
  <2>2. CASE s # n
    BY <1>15, <1>16, <2>2 DEF MentorInv, SessionLinks
  <2> QED BY <2>1, <2>2
<1>19. Successors'
  <2> SUFFICES ASSUME NEW s \in Sessions, session'[s].state = "rotated_out"
               PROVE  /\ session'[s].next \in Sessions /\ session'[s].next > s
                      /\ Used(session[s].next)' /\ session'[session'[s].next].ceremony = session'[s].ceremony
    BY DEF Successors, Used
  <2>1. s # n
    BY <1>11, <1>13
  <2>2. CASE s = p
    <3>1. session'[s].next = n /\ n > s
      BY <1>1, <1>4, <1>8, <1>13, <1>15, <2>2 DEF Sessions
    <3> QED BY <1>1, <1>8, <1>11, <1>13, <2>2, <3>1 DEF Used
  <2>3. CASE s # p
    <3>1. session'[s] = session[s] /\ session[s].state = "rotated_out"
      BY <1>13, <2>1, <2>3
    <3>2. /\ session[s].next \in Sessions /\ session[s].next > s /\ Used(session[s].next)
          /\ session[session[s].next].ceremony = session[s].ceremony
      BY <3>1 DEF MentorInv, Successors
    <3>3. session[s].next # n
      BY <1>4, <3>2
    <3> QED BY <1>15, <1>16, <3>1, <3>2, <3>3 DEF Used
  <2> QED BY <2>2, <2>3
\* The other generations of this login had rotated out before.
<1>20. \A s \in Sessions : Used(s) /\ s # p /\ session[s].ceremony = session[p].ceremony =>
         session[s].state = "rotated_out"
  BY <1>1 DEF MentorInv, OneTip
<1>21. OneTip'
  <2> SUFFICES ASSUME NEW r \in Sessions, NEW s \in Sessions, r # s, session'[r].state = "active",
                      Used(s)', session'[s].ceremony = session'[r].ceremony
               PROVE  session'[s].state = "rotated_out"
    BY DEF OneTip, Used
  <2>1. CASE r = n
    BY <1>11, <1>13, <1>15, <1>16, <1>20, <2>1
  <2>2. CASE r # n
    <3>1. r # p /\ session[r].state = "active" /\ Used(r)
      BY <1>16, <2>2 DEF Used
    <3>2. session[r].ceremony # session[p].ceremony
      BY <1>20, <3>1
    <3>3. s # n /\ Used(s) /\ session[s].ceremony = session[r].ceremony
      BY <1>11, <1>13, <1>15, <1>16, <2>2, <3>2
    <3>4. session[s].state = "rotated_out"
      BY <3>1, <3>3 DEF MentorInv, OneTip
    <3> QED BY <1>16, <3>3, <3>4
  <2> QED BY <2>1, <2>2
<1>22. OneLiveSession'
  <2>1. \A r \in Sessions : r # n /\ session'[r].state = "active" => session[r].state = "active" /\ r # p
    BY <1>16
  <2> QED BY <1>1, <1>11, <1>13, <1>16, <2>1 DEF MentorInv, OneLiveSession
<1>23. ended \subseteq Sessions /\ EndedAreUsed'
  BY <1>1, <1>15 DEF MentorInv, CeremonyTypeOK, EndedAreUsed, Used
<1>24. EndReachesSuccessor'
  <2> SUFFICES ASSUME NEW e \in ended, NEW s \in Sessions, session'[s].state = "active"
               PROVE  session'[s].ceremony # session'[e].ceremony
    BY <1>1 DEF EndReachesSuccessor
  <2>1. e \in Sessions /\ e # n
    BY <1>4, <1>23 DEF MentorInv, EndedAreUsed
  <2>2. session[p].ceremony # session[e].ceremony
    BY <1>1 DEF MentorInv, EndReachesSuccessor
  <2>3. CASE s = n
    BY <1>11, <1>13, <1>16, <2>1, <2>2, <2>3
  <2>4. CASE s # n
    BY <1>16, <2>1, <2>4 DEF MentorInv, EndReachesSuccessor
  <2> QED BY <2>3, <2>4
<1>25. CeremonyLinks'
  BY <1>1 DEF MentorInv, CeremonyLinks, CeremonyRowOK
<1>26. StepUpLinks'
  BY <1>1, <1>15 DEF MentorInv, StepUpLinks, Used
<1>27. \A t \in StepUps : stepUp[t].state = "active" =>
         stepUp[t].session \in Sessions /\ stepUp[t].session # n
  BY <1>4 DEF MentorInv, StepUpLinks
<1>28. NothingOutlivesDeletion'
  <2> SUFFICES ASSUME NEW b \in Actors, proof[b] = "deleted"
               PROVE  /\ \A s \in Sessions : session'[s].actor = b =>
                           session'[s].state \notin {"active", "rotated_out"}
                      /\ \A j \in Invitations : invitation[j].actor = b => invitation[j].state = "deleted"
                      /\ \A d \in Ceremonies : ceremony[d].actor = b => ceremony[d].state \notin LiveCeremony
                      /\ \A t \in StepUps : stepUp[t].state = "active" =>
                           session'[stepUp[t].session].actor # b
    BY <1>1 DEF NothingOutlivesDeletion, SessionsOf
  <2>1. /\ \A s \in Sessions : session[s].actor = b => session[s].state \notin {"active", "rotated_out"}
        /\ \A j \in Invitations : invitation[j].actor = b => invitation[j].state = "deleted"
        /\ \A d \in Ceremonies : ceremony[d].actor = b => ceremony[d].state \notin LiveCeremony
        /\ \A t \in StepUps : stepUp[t].state = "active" => session[stepUp[t].session].actor # b
    BY DEF MentorInv, NothingOutlivesDeletion, SessionsOf
  <2>2. session[p].actor # b
    BY <1>1, <2>1
  <2>3. \A s \in Sessions : session'[s].actor = b => session'[s].state \notin {"active", "rotated_out"}
    BY <1>11, <1>13, <1>16, <2>1, <2>2
  <2>4. \A t \in StepUps : stepUp[t].state = "active" => session'[stepUp[t].session].actor # b
    BY <1>16, <1>27, <2>1
  <2> QED BY <2>1, <2>3, <2>4
<1>29. RetiredSubjectIsClosed'
  <2> SUFFICES ASSUME NEW j \in Invitations, invitation[j].state = "deleted"
               PROVE  /\ \A s \in Sessions : session'[s].invitation = j => session'[s].state # "active"
                      /\ \A d \in Ceremonies : ceremony[d].invitation = j => ceremony[d].state # "proof_verified"
                      /\ \A t \in StepUps : stepUp[t].state = "active" =>
                           session'[stepUp[t].session].invitation # j
    BY <1>1 DEF RetiredSubjectIsClosed
  <2>1. /\ \A s \in Sessions : session[s].invitation = j => session[s].state # "active"
        /\ \A d \in Ceremonies : ceremony[d].invitation = j => ceremony[d].state # "proof_verified"
        /\ \A t \in StepUps : stepUp[t].state = "active" => session[stepUp[t].session].invitation # j
    BY DEF MentorInv, RetiredSubjectIsClosed
  <2>2. session[p].invitation # j
    BY <1>1, <2>1
  <2>3. \A s \in Sessions : session'[s].invitation = j => session'[s].state # "active"
    BY <1>11, <1>13, <1>16, <2>1, <2>2
  <2>4. \A t \in StepUps : stepUp[t].state = "active" => session'[stepUp[t].session].invitation # j
    BY <1>16, <1>27, <2>1
  <2> QED BY <2>1, <2>3, <2>4
<1> QED BY <1>14, <1>17, <1>18, <1>19, <1>21, <1>22, <1>23, <1>24, <1>25, <1>26, <1>28, <1>29
        DEF MentorInv

-----------------------------------------------------------------------------
(* From a rotated generation to the last one.                              *)

LEMMA TargetIsLastGeneration ==
  ASSUME MentorInv, NEW s \in Sessions, Used(s)
  PROVE  /\ Target(s) \in Sessions /\ Used(Target(s))
         /\ session[Target(s)].ceremony = session[s].ceremony
         /\ session[Target(s)].state # "rotated_out"
<1> DEFINE Step(f, r) == IF session[r].state = "rotated_out" THEN f[session[r].next] ELSE r
           T == {n \in 1 .. MaxSessions + 1 : \E f : \A r \in n .. MaxSessions : f[r] = Step(f, r)}
<1>1. MaxSessions \in Nat
  BY CeremonyAssumption
\* The chain has an end, because each successor is a later session.
<1>2. T \subseteq Nat /\ MaxSessions + 1 \in T
  BY <1>1
<1>3. PICK n \in T : \A m \in T : n <= m
  <2> HIDE DEF T
  <2> QED BY <1>2, LeastElement
<1>4. n = 1
  <2> SUFFICES ASSUME n # 1 PROVE FALSE
    OBVIOUS
  <2>1. n - 1 \in Sessions /\ n \in 2 .. MaxSessions + 1
    BY <1>1 DEF Sessions
  <2>2. PICK f : \A r \in n .. MaxSessions : f[r] = Step(f, r)
    OBVIOUS
  <2> DEFINE k == n - 1
             h == [r \in k .. MaxSessions |-> IF r = k THEN Step(f, k) ELSE f[r]]
  <2>3. \A r \in k .. MaxSessions : session[r].state = "rotated_out" =>
          session[r].next \in n .. MaxSessions /\ session[r].next > r
    BY <1>1, <2>1 DEF MentorInv, Successors, Sessions
  <2>4. \A r \in k .. MaxSessions : h[r] = Step(h, r)
    <3> SUFFICES ASSUME NEW r \in k .. MaxSessions PROVE h[r] = Step(h, r)
      OBVIOUS
    <3>1. session[r].state = "rotated_out" => h[session[r].next] = f[session[r].next]
      BY <1>1, <2>1, <2>3
    <3>2. CASE r = k
      BY <3>1, <3>2
    <3>3. CASE r # k
      BY <1>1, <2>1, <2>2, <3>1, <3>3
    <3> QED BY <3>2, <3>3
  <2>5. k \in T
    <3> HIDE DEF h
    <3> QED BY <1>1, <2>1, <2>4
  <2> QED BY <1>3, <2>1, <2>5
<1> DEFINE follow == CHOOSE f : f = [r \in Sessions |-> Step(f, r)]
<1>5. \E f : f = [r \in Sessions |-> Step(f, r)]
  <2>1. PICK f : \A r \in 1 .. MaxSessions : f[r] = Step(f, r)
    BY <1>4
  <2> DEFINE h == [r \in Sessions |-> f[r]]
  <2>2. \A r \in Sessions : Step(h, r) = Step(f, r)
    BY DEF MentorInv, Successors
  <2>3. h = [r \in Sessions |-> Step(h, r)]
    BY <2>1, <2>2 DEF Sessions
  <2> QED BY <2>3
<1>6. follow = [r \in Sessions |-> Step(follow, r)]
  BY <1>5
<1>7. Target(s) = follow[s]
  BY DEF Target
<1> HIDE DEF follow
<1> DEFINE Good(r) == /\ follow[r] \in Sessions /\ Used(follow[r])
                      /\ session[follow[r]].ceremony = session[r].ceremony
                      /\ session[follow[r]].state # "rotated_out"
           B == {r \in Sessions : Used(r) /\ ~ Good(r)}
<1>8. B = {}
  <2> SUFFICES ASSUME B # {} PROVE FALSE
    OBVIOUS
  <2>1. B \subseteq 0 .. MaxSessions
    BY <1>1 DEF Sessions
  <2>2. PICK r \in B : \A q \in B : q <= r
    <3> HIDE DEF B
    <3> QED BY <1>1, <2>1, GreatestElement
  <2>3. CASE session[r].state = "rotated_out"
    <3> DEFINE q == session[r].next
    <3>1. q \in Sessions /\ q > r /\ Used(q) /\ session[q].ceremony = session[r].ceremony
      BY <2>3 DEF MentorInv, Successors
    <3>2. q \notin B
      BY <2>1, <2>2, <3>1 DEF Sessions
    <3>3. follow[r] = follow[q]
      BY <1>6, <2>3
    <3> QED BY <3>1, <3>2, <3>3
  <2>4. CASE session[r].state # "rotated_out"
    <3>1. follow[r] = r
      BY <1>6, <2>4
    <3> QED BY <2>4, <3>1
  <2> QED BY <2>3, <2>4
<1> QED BY <1>7, <1>8

\* Whatever of the login is still active is what the answer ends.
LEMMA TargetIsTheLiveOne ==
  ASSUME MentorInv, NEW s \in Sessions, Used(s),
         NEW r \in Sessions, session[r].state = "active",
         session[r].ceremony = session[s].ceremony
  PROVE  r = Target(s)
<1>1. /\ Target(s) \in Sessions /\ Used(Target(s))
      /\ session[Target(s)].ceremony = session[s].ceremony
      /\ session[Target(s)].state # "rotated_out"
  BY TargetIsLastGeneration
<1> DEFINE e == Target(s)
<1> HIDE DEF e
<1>2. e \in Sessions /\ Used(e) /\ session[e].ceremony = session[r].ceremony
      /\ session[e].state # "rotated_out"
  BY <1>1 DEF e
<1>3. r = e
  BY <1>2 DEF MentorInv, OneTip
<1> QED BY <1>3 DEF e

LEMMA EndSessionKeeps ==
  ASSUME MentorInv, NEW p \in Sessions, NEW state, EndSession(p, state)
  PROVE  MentorInv'
<1> DEFINE e == Target(p)
<1>1. /\ state \in {"revoked", "logged_out"} /\ Used(p)
      /\ ended' = ended \union {p} /\ UNCHANGED <<now, proof, invitation>>
  BY DEF EndSession, Presentable, Used
<1>2. /\ e \in Sessions /\ Used(e) /\ session[e].ceremony = session[p].ceremony
      /\ session[e].state # "rotated_out"
  BY <1>1, TargetIsLastGeneration
<1>3. \A r \in Sessions : session[r].state = "active" /\ session[r].ceremony = session[p].ceremony =>
        r = e
  BY <1>1, TargetIsTheLiveOne
<1>4. CASE session[e].state # "active"
  <2>1. UNCHANGED <<ceremony, session, stepUp>>
    BY <1>4 DEF EndSession
  <2>2. CeremonyTypeOK'
    BY <1>1, <2>1 DEF MentorInv, CeremonyTypeOK
  <2>3. EndedAreUsed'
    BY <1>1, <2>1 DEF MentorInv, EndedAreUsed, Used
  <2>4. EndReachesSuccessor'
    BY <1>1, <1>3, <1>4, <2>1 DEF MentorInv, EndReachesSuccessor
  <2>5. SessionsReduced /\ StepUpsReduced /\ InvitationsKept
    BY <1>1, <2>1, SessionsStay, StepUpsStay, InvitationsStay
  <2>6. CeremoniesReduced
    BY <2>1 DEF CeremoniesReduced
  <2>7. NothingOutlivesDeletion' /\ RetiredSubjectIsClosed'
    BY <1>1, <2>1 DEF MentorInv, NothingOutlivesDeletion, RetiredSubjectIsClosed, SessionsOf
  <2> QED BY <2>2, <2>3, <2>4, <2>5, <2>6, <2>7, SessionsOnlyReduced, LinksKept, RowsStayOK,
             StepUpsKeepSession DEF MentorInv
<1>5. CASE session[e].state = "active"
  <2> DEFINE row == DroppedSession(e, state)
  <2>1. session' = [session EXCEPT ![e] = row]
    BY <1>5 DEF EndSession
  <2>2. \A c \in Ceremonies :
          /\ ceremony'[c] \in {ceremony[c], DroppedCeremony(c, "revoked")}
          /\ ceremony[c].state \notin LiveCeremony => ceremony'[c] = ceremony[c]
    BY <1>5 DEF EndSession
  <2>3. \A t \in StepUps :
          stepUp'[t] = IF stepUp[t].state = "active" /\ stepUp[t].session = e
                       THEN DroppedStepUp(t, "revoked") ELSE stepUp[t]
    BY <1>5 DEF EndSession
  <2>4. stepUp' = [t \in StepUps |-> stepUp'[t]] /\ ceremony' = [c \in Ceremonies |-> ceremony'[c]]
    BY <1>5 DEF EndSession
  <2> HIDE DEF e
  <2>5. /\ row \in SessionRow /\ row.state = state /\ row.actor = session[e].actor
        /\ row.purpose = session[e].purpose /\ row.invitation = session[e].invitation
        /\ row.ceremony = session[e].ceremony /\ row.next = session[e].next
    BY <1>1, <1>2, DroppedSessionRow DEF MentorInv
  <2> HIDE DEF row
  <2>6. session'[e] = row /\ \A r \in Sessions : r # e => session'[r] = session[r]
    BY <1>2, <2>1 DEF MentorInv, CeremonyTypeOK
  <2>7. CeremonyTypeOK'
    <3>1. session' \in [Sessions -> SessionRow]
      BY <2>1, <2>5 DEF MentorInv, CeremonyTypeOK
    <3>2. \A t \in StepUps : stepUp'[t] \in StepUpRow
      BY <2>3, DroppedStepUpRow DEF MentorInv, CeremonyTypeOK
    <3>3. \A c \in Ceremonies : ceremony'[c] \in CeremonyRow
      BY <2>2, DroppedCeremonyRow DEF MentorInv, CeremonyTypeOK
    <3> QED BY <1>1, <2>4, <3>1, <3>2, <3>3 DEF MentorInv, CeremonyTypeOK
  <2>8. SessionsReduced
    BY <1>1, <1>5, <2>5, <2>6 DEF SessionsReduced, Used
  <2>9. StepUpsReduced
    BY <2>3, DroppedStepUpRow DEF StepUpsReduced, MentorInv
  <2>10. InvitationsKept
    BY <1>1, InvitationsStay
  <2>11. CeremoniesReduced
    <3> SUFFICES ASSUME NEW c \in Ceremonies
                 PROVE  /\ ceremony'[c].intent = ceremony[c].intent
                        /\ ceremony'[c].actor = ceremony[c].actor
                        /\ ceremony'[c].invitation = ceremony[c].invitation
                        /\ ceremony'[c].marked = ceremony[c].marked
                        /\ ceremony'[c].subject = ceremony[c].subject
                        /\ ceremony'[c].state # ceremony[c].state =>
                             /\ ceremony'[c].state \notin LiveCeremony
                             /\ ceremony[c].state \in SpentCeremony =>
                                  ceremony'[c].state \in SpentCeremony
                        /\ ceremony'[c].provider # ceremony[c].provider =>
                             ceremony'[c].provider # "verified"
      BY DEF CeremoniesReduced
    <3>1. CASE ceremony'[c] = ceremony[c]
      BY <3>1
    <3>2. CASE ceremony'[c] = DroppedCeremony(c, "revoked") /\ ceremony[c].state \in LiveCeremony
      BY <3>2, DroppedCeremonyRow DEF MentorInv, LiveCeremony, SpentCeremony
    <3> QED BY <2>2, <3>1, <3>2
  <2>12. EndedAreUsed'
    <3>1. \A s \in Sessions : Used(s)' <=> Used(s)
      BY <2>8, SessionsOnlyReduced
    <3>2. ended \subseteq Sessions
      BY DEF MentorInv, CeremonyTypeOK
    <3> QED BY <1>1, <3>1, <3>2 DEF MentorInv, EndedAreUsed, Used
  <2>13. EndReachesSuccessor'
    <3> SUFFICES ASSUME NEW q \in ended', NEW s \in Sessions, session'[s].state = "active"
                 PROVE  session'[s].ceremony # session'[q].ceremony
      BY DEF EndReachesSuccessor
    <3>1. q \in Sessions /\ ended \subseteq Sessions
      BY <1>1 DEF MentorInv, CeremonyTypeOK
    <3>2. s # e /\ session[s].state = "active"
      BY <1>1, <2>5, <2>6
    <3>3. session'[s].ceremony = session[s].ceremony /\ session'[q].ceremony = session[q].ceremony
      BY <2>8, <3>1 DEF SessionsReduced
    <3>4. CASE q = p
      BY <1>3, <3>2, <3>3, <3>4
    <3>5. CASE q \in ended
      BY <3>2, <3>3, <3>5 DEF MentorInv, EndReachesSuccessor
    <3> QED BY <1>1, <3>4, <3>5
  <2>14. NothingOutlivesDeletion'
    BY <1>1, <2>8, <2>9, <2>10, <2>11, NothingReopened, DeletionStands
  <2>15. RetiredSubjectIsClosed'
    BY <1>1, <2>8, <2>9, <2>11, NothingReopened, ErasureStands
  <2> QED BY <2>7, <2>8, <2>9, <2>10, <2>11, <2>12, <2>13, <2>14, <2>15, SessionsOnlyReduced,
             LinksKept, RowsStayOK, StepUpsKeepSession DEF MentorInv
<1> QED BY <1>4, <1>5

-----------------------------------------------------------------------------
(* The theorems.                                                           *)

LEMMA MentorStep ==
  ASSUME MentorInv, CeremonyNext
  PROVE  MentorInv'
<1>1. CASE Student
  BY <1>1, InviteKeeps, RetireSubjectKeeps DEF Student
<1>2. CASE Relay
  BY <1>2, ClaimKeeps, DenyKeeps, SettleKeeps DEF Relay
<1>3. CASE Ceremony
  BY <1>3, BootstrapKeeps, BeginKeeps, VerifyKeeps, ExchangeKeeps, BeginStepUpKeeps,
     ExchangeStepUpKeeps DEF Ceremony
<1>4. CASE Mentor
  BY <1>4, RotateKeeps, EndSessionKeeps, DeleteAuthorityKeeps DEF Mentor
<1>5. CASE Expire
  BY <1>5, ExpireSessionKeeps, ExpireCeremonyKeeps, SweepKeeps DEF Expire
<1> QED BY <1>1, <1>2, <1>3, <1>4, <1>5, TickKeeps DEF CeremonyNext

LEMMA StutterKeeps ==
  ASSUME MentorInv, UNCHANGED ceremonyVars
  PROVE  MentorInv'
BY DEF MentorInv, ceremonyVars, CeremonyTypeOK, OpenedInOrder, SessionLinks, Successors,
       CeremonyLinks, CeremonyRowOK, StepUpLinks, OneTip, EndedAreUsed, OneLiveSession,
       EndReachesSuccessor, NothingOutlivesDeletion, RetiredSubjectIsClosed, Used, SessionsOf

LEMMA MentorInvHolds == CeremonySpec => []MentorInv
<1>1. CeremonyInit => MentorInv
  BY InitHolds
<1>2. MentorInv /\ [CeremonyNext]_ceremonyVars => MentorInv'
  BY MentorStep, StutterKeeps
<1> QED BY <1>1, <1>2, PTL DEF CeremonySpec

\* The rows keep the states and links of the tables.
THEOREM CeremonyTyped == CeremonySpec => []CeremonyTypeOK
<1>1. MentorInv => CeremonyTypeOK
  BY DEF MentorInv
<1> QED BY <1>1, MentorInvHolds, PTL

\* exchange, recover and rotate never leave a mentor two live sessions for a
\* purpose, whatever the order in which their requests are served.
THEOREM MentorHasOneSession == CeremonySpec => []OneLiveSession
<1>1. MentorInv => OneLiveSession
  BY DEF MentorInv
<1> QED BY <1>1, MentorInvHolds, PTL

\* A revoke or logout that was answered ended the login, however many
\* rotations it had come through since the tab was opened.
THEOREM EndingIsFinal == CeremonySpec => []EndReachesSuccessor
<1>1. MentorInv => EndReachesSuccessor
  BY DEF MentorInv
<1> QED BY <1>1, MentorInvHolds, PTL

\* After delete_authority nothing of the mentor can become a session again.
THEOREM DeletionIsComplete == CeremonySpec => []NothingOutlivesDeletion
<1>1. MentorInv => NothingOutlivesDeletion
  BY DEF MentorInv
<1> QED BY <1>1, MentorInvHolds, PTL

\* After a student's privacy request no mentor holds or reaches a session with
\* the student's data.
THEOREM ErasureIsComplete == CeremonySpec => []RetiredSubjectIsClosed
<1>1. MentorInv => RetiredSubjectIsClosed
  BY DEF MentorInv
<1> QED BY <1>1, MentorInvHolds, PTL

\* Only an exchange makes a ceremony exchanged, its own.
NewlyExchanged(c) == ceremony[c].state # "exchanged" /\ ceremony'[c].state = "exchanged"

LEMMA OnlyExchangeExchanges ==
  ASSUME MentorInv, CeremonyNext, NEW c \in Ceremonies, ceremony[c].intent = "recovery",
         NewlyExchanged(c)
  PROVE  Exchange(c)
<1>1. ceremony[c] \in CeremonyRow /\ ceremony \in [Ceremonies -> CeremonyRow]
  BY DEF MentorInv, CeremonyTypeOK
<1>2. CASE Student
  <2>1. \A i \in Invitations, a \in Actors, p \in Purposes : ~ Invite(i, a, p)
    BY DEF Invite, NewlyExchanged
  <2>2. \A i \in Invitations : ~ RetireSubject(i)
    <3> SUFFICES ASSUME NEW i \in Invitations, RetireSubject(i) PROVE FALSE
      OBVIOUS
    <3>1. ceremony'[c] \in {ceremony[c], DroppedCeremony(c, "deleted")}
      BY DEF RetireSubject
    <3> QED BY <3>1, DroppedCeremonyRow DEF NewlyExchanged, MentorInv
  <2> QED BY <1>2, <2>1, <2>2 DEF Student
<1>3. CASE Relay
  <2>1. ASSUME NEW d \in Ceremonies, ClaimProviderStart(d) PROVE FALSE
    BY <1>1, <2>1 DEF ClaimProviderStart, NewlyExchanged, CeremonyRow
  <2>2. ASSUME NEW d \in Ceremonies, NEW a \in Actors, SettleProviderResult(d, a) PROVE FALSE
    BY <1>1, <2>2 DEF SettleProviderResult, NewlyExchanged, CeremonyRow
  <2>3. ASSUME NEW d \in Ceremonies, DenyProviderResult(d) PROVE FALSE
    BY <1>1, <2>3 DEF DenyProviderResult, NewlyExchanged, CeremonyRow
  <2> QED BY <1>3, <2>1, <2>2, <2>3 DEF Relay
<1>4. CASE Ceremony
  <2>1. ASSUME NEW d \in Ceremonies, IssueBootstrap(d) PROVE FALSE
    BY <1>1, <2>1 DEF IssueBootstrap, NewlyExchanged, CeremonyRow
  <2>2. ASSUME NEW d \in Ceremonies, NEW intent, NEW p \in Purposes, Begin(d, intent, p) PROVE FALSE
    BY <1>1, <2>2 DEF Begin, Begun, NewlyExchanged
  <2>3. ASSUME NEW d \in Ceremonies, NEW s \in Sessions, BeginStepUp(d, s) PROVE FALSE
    BY <1>1, <2>3 DEF BeginStepUp, Begun, NewlyExchanged
  <2>4. ASSUME NEW d \in Ceremonies, Verify(d) PROVE FALSE
    <3> DEFINE a == ceremony[d].subject
               m == IF ceremony[d].intent = "recovery" THEN ActiveOf(a) ELSE ceremony[d].marked
    <3>1. PICK i \in IF ceremony[d].intent = "stepUp" THEN {NoInvitation} ELSE Waiting(d) :
            ceremony' = [ceremony EXCEPT
              ![d] = [@ EXCEPT !.state = "proof_verified", !.provider = "consumed", !.actor = a,
                        !.invitation = i, !.marked = m]]
      BY <2>4 DEF Verify
    <3> HIDE DEF a, m
    <3> QED BY <1>1, <3>1 DEF NewlyExchanged, CeremonyRow
  <2>5. ASSUME NEW d \in Ceremonies, NEW s \in Sessions, NEW t \in StepUps, ExchangeStepUp(d, s, t)
        PROVE  FALSE
    BY <1>1, <2>5 DEF ExchangeStepUp, NewlyExchanged
  <2>6. ASSUME NEW d \in Ceremonies, Exchange(d) PROVE Exchange(c)
    BY <1>1, <2>6 DEF Exchange, NewlyExchanged
  <2> QED BY <1>4, <2>1, <2>2, <2>3, <2>4, <2>5, <2>6 DEF Ceremony
<1>5. CASE Mentor
  <2>1. ASSUME NEW s \in Sessions, Rotate(s) PROVE FALSE
    BY <2>1 DEF Rotate, NewlyExchanged
  <2>2. ASSUME NEW s \in Sessions, NEW state, EndSession(s, state) PROVE FALSE
    <3>1. ceremony'[c] \in {ceremony[c], DroppedCeremony(c, "revoked")}
      BY <2>2 DEF EndSession
    <3> QED BY <3>1, DroppedCeremonyRow DEF NewlyExchanged, MentorInv
  <2>3. ASSUME NEW s \in Sessions, NEW t \in StepUps, DeleteAuthority(s, t) PROVE FALSE
    <3>1. ceremony'[c] \in {ceremony[c], DroppedCeremony(c, "deleted")}
      BY <2>3 DEF DeleteAuthority
    <3> QED BY <3>1, DroppedCeremonyRow DEF NewlyExchanged, MentorInv
  <2> QED BY <1>5, <2>1, <2>2, <2>3 DEF Mentor
<1>6. CASE Expire
  <2>1. ASSUME NEW s \in Sessions, ExpireSession(s) PROVE FALSE
    BY <2>1 DEF ExpireSession, NewlyExchanged
  <2>2. ASSUME NEW d \in Ceremonies, ExpireCeremony(d) PROVE FALSE
    BY <1>1, <2>2 DEF ExpireCeremony, NewlyExchanged, CeremonyRow
  <2>3. ASSUME Sweep PROVE FALSE
    BY <2>3, SweptCeremonyRow DEF NewlyExchanged
  <2> QED BY <1>6, <2>1, <2>2, <2>3 DEF Expire
<1>7. CASE Tick
  BY <1>7 DEF Tick, NewlyExchanged
<1> QED BY <1>2, <1>3, <1>4, <1>5, <1>6, <1>7 DEF CeremonyNext

LEMMA ExchangeTakesOver ==
  ASSUME MentorInv, NEW c \in Ceremonies, ceremony[c].intent = "recovery", Exchange(c),
         NEW s \in Sessions, session'[s].state = "active", session'[s].actor = ceremony[c].actor
  PROVE  session'[s].ceremony = c
<1> DEFINE a == ceremony[c].actor
           m == ceremony[c].marked
<1>1. m = {r \in Sessions : session[r].actor = a /\ session[r].state = "active"}
  BY DEF Exchange, MarkedAreAll, ActiveOf, SessionsOf
<1>2. CASE s = NextSession
  BY <1>2 DEF Exchange
<1>3. CASE s # NextSession
  <2>1. session'[s] = IF s \in m THEN DroppedSession(s, "revoked") ELSE session[s]
    BY <1>3 DEF Exchange
  <2> HIDE DEF m
  <2> QED BY <1>1, <2>1, DroppedSessionRow DEF MentorInv
<1> QED BY <1>2, <1>3

\* The session a recovery opens is the only one the mentor has: exchange
\* revokes what verify marked and refuses when anything else came up since.
THEOREM RecoveryIsExclusive == CeremonySpec => RecoveryTakesOver
<1> DEFINE A == \A c \in Ceremonies :
                  ceremony[c].intent = "recovery" /\ ceremony[c].state # "exchanged"
                    /\ ceremony'[c].state = "exchanged"
                    => \A s \in Sessions :
                         session'[s].state = "active" /\ session'[s].actor = ceremony[c].actor
                           => session'[s].ceremony = c
<1>1. MentorInv /\ [CeremonyNext]_ceremonyVars => [A]_ceremonyVars
  <2>1. MentorInv /\ CeremonyNext => A
    BY OnlyExchangeExchanges, ExchangeTakesOver DEF NewlyExchanged
  <2> QED BY <2>1
<1> HIDE DEF A
<1>2. CeremonySpec => [][A]_ceremonyVars
  BY <1>1, MentorInvHolds, PTL DEF CeremonySpec
<1> QED BY <1>2 DEF A, RecoveryTakesOver

=============================================================================
