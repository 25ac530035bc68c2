---------------------------- MODULE TutorReviews ----------------------------
(***************************************************************************)
(* Reviews of one tutor's sessions, their moderation and the tutor's       *)
(* public rating (services/tutoring/reviews.py), statement by statement on *)
(* a READ COMMITTED database.                                              *)
(*                                                                         *)
(* A handler has up to four steps: it reads the review and its moderation, *)
(* it writes the moderation row, it writes the review row and counts what  *)
(* is published, and it writes the count to the tutor's profile and        *)
(* commits.  A row it changed stays locked until then; all handlers lock   *)
(* moderation, review and profile in this order.  A session has one review *)
(* (uq_tutor_reviews_session_id), so a review is named by its session.     *)
(*                                                                         *)
(* TutoringBooking has the attendance; here it only opens and shuts the    *)
(* door to a new review.  An edit after the seven-day window is refused    *)
(* and changes nothing, so the window is left out.                         *)
(***************************************************************************)
EXTENDS Naturals, FiniteSets

CONSTANTS Procs,     \* requests that may run at once
          Sessions,  \* the tutor's sessions
          Texts,     \* review texts
          Ratings,   \* ratings
          NoText     \* SQL NULL: a rating without text

ASSUME ReviewsAssumption == NoText \notin Texts /\ Ratings # {}

VARIABLES reviewable, \* sessions whose attendance is confirmed or resolved
          review,     \* review[s]: the row of tutor_reviews
          moderation, \* moderation[s]: review_moderation.state
          profile,    \* the ratings that rating_avg and rating_count sum up
          approved,   \* approved[s]: texts a moderator approved, as his request read them
          raced,      \* ghost: what is public changed between the last count and its commit
          tx          \* tx[p]: the open transaction of p

vars == <<reviewable, review, moderation, profile, approved, raced, tx>>
tables == <<reviewable, review, moderation, profile, approved, raced>>

-----------------------------------------------------------------------------
Bodies == Texts \union {NoText}
ReviewRow == [written : BOOLEAN, body : Bodies, rating : Ratings, published : BOOLEAN,
              deleted : BOOLEAN]
ModerationState == {"none", "pending", "approved", "rejected"}
Decisions == {"approved", "rejected"}   \* MODERATION_DECISIONS

NoReview == [written |-> FALSE, body |-> NoText, rating |-> CHOOSE r \in Ratings : TRUE,
             published |-> FALSE, deleted |-> FALSE]
Idle == [pc |-> "idle"]

Init == /\ reviewable = {}
        /\ review = [s \in Sessions |-> NoReview]
        /\ moderation = [s \in Sessions |-> "none"]
        /\ profile = {}
        /\ approved = [s \in Sessions |-> {}]
        /\ raced = FALSE
        /\ tx = [p \in Procs |-> Idle]

-----------------------------------------------------------------------------
(* Transactions.                                                           *)

Goto(p, t) == tx' = [tx EXCEPT ![p] = t] /\ UNCHANGED tables
Rollback(p) == Goto(p, Idle)

\* The process dies: PostgreSQL drops its transaction.
Crash(p) == tx[p].pc # "idle" /\ Rollback(p)

\* values: the columns the UPDATE of the review sets.  state: what it writes
\* to the moderation row, if anything.  seen: the text it read.
Begin(p, op, pc, s, values, state) ==
  /\ tx[p].pc = "idle"
  /\ Goto(p, [op |-> op, pc |-> pc, session |-> s, values |-> values, state |-> state,
              seen |-> review[s].body, row |-> NoReview, before |-> {}, counted |-> {}])

Holds(q, s, steps) == tx[q].pc \in steps /\ tx[q].session = s
ModerationFree(p, s) ==
  \A q \in Procs \ {p} : ~ (Holds(q, s, {"review", "profile"}) /\ tx[q].state # "none")
ReviewFree(p, s) == \A q \in Procs \ {p} : ~ Holds(q, s, {"profile"})

Updated(row, values) == [c \in DOMAIN row |-> IF c \in DOMAIN values THEN values[c] ELSE row[c]]

\* _published_filter: the ratings of rs that count in public.
PublicUnfiltered(rs) == {<<s, rs[s].rating>> : s \in {t \in Sessions : rs[t].written}}
Public(rs) == {<<s, rs[s].rating>> : s \in {t \in Sessions : rs[t].published /\ ~ rs[t].deleted}}

Exists(s) == review[s].written /\ ~ review[s].deleted

-----------------------------------------------------------------------------
(* What the handlers read, and decide to write.                            *)

\* A rating alone is approved at once; a text waits for its moderator.
StateFor(body) == IF body = NoText THEN "approved" ELSE "pending"

Create(p, s, r, b) ==
  /\ s \in reviewable
  /\ ~ review[s].written
  /\ Begin(p, "create", "review", s,
       [written |-> TRUE, body |-> b, rating |-> r, published |-> b = NoText, deleted |-> FALSE],
       StateFor(b))

\* The request's body may carry a rating, a text (or null) or both.
Patches == [rating : Ratings] \union [body : Bodies] \union [rating : Ratings, body : Bodies]
TextChanged(s, patch) == "body" \in DOMAIN patch /\ patch.body # review[s].body

\* A new text unpublishes the review, no text publishes it.
PublishedKept(patch) == patch
Republished(patch) ==
  [c \in DOMAIN patch \union {"published"} |->
     IF c = "published" THEN patch.body = NoText ELSE patch[c]]

Edit(p, s, patch) ==
  /\ Exists(s)
  /\ IF TextChanged(s, patch)
     THEN Begin(p, "edit", "moderation", s, Republished(patch), StateFor(patch.body))
     ELSE Begin(p, "edit", "review", s, patch, "none")

Delete(p, s) ==
  /\ Exists(s)
  /\ Begin(p, "delete", "review", s, [deleted |-> TRUE, published |-> FALSE], "none")

Moderate(p, s, decision) ==
  /\ Exists(s)
  /\ moderation[s] = "pending"
  /\ Begin(p, "moderate", "moderation", s, [published |-> decision = "approved"], decision)

-----------------------------------------------------------------------------
(* What they write.                                                        *)

\* A decision is UPDATE ... WHERE state = 'pending', and its count is checked;
\* an edit writes whatever the state.
DecidesAnyState(p) == TRUE
DecidesPending(p) == tx[p].op = "moderate" => moderation[tx[p].session] = "pending"

WriteModeration(p) ==
  /\ tx[p].pc = "moderation"
  /\ ModerationFree(p, tx[p].session)
  /\ IF DecidesPending(p) THEN Goto(p, [tx[p] EXCEPT !.pc = "review"]) ELSE Rollback(p)

\* A second INSERT of the session's review is refused by the unique index.
WriteReview(p) ==
  LET s == tx[p].session
      row == IF tx[p].op = "delete" /\ review[s].deleted THEN review[s]
             ELSE Updated(review[s], tx[p].values) IN
  /\ tx[p].pc = "review"
  /\ ReviewFree(p, s)
  /\ IF tx[p].op = "create" /\ review[s].written THEN Rollback(p)
     ELSE Goto(p, [tx[p] EXCEPT !.pc = "profile", !.row = row,
                                !.before = Public(review),
                                !.counted = Public([review EXCEPT ![s] = row])])

\* recompute_tutor_aggregate stores the count, and the handler commits.
Commit(p) ==
  LET t == tx[p] IN
  /\ t.pc = "profile"
  /\ review' = [review EXCEPT ![t.session] = t.row]
  /\ moderation' = [moderation EXCEPT ![t.session] = IF t.state = "none" THEN @ ELSE t.state]
  /\ profile' = t.counted
  /\ approved' = [approved EXCEPT ![t.session] =
                    IF t.op = "moderate" /\ t.state = "approved" THEN @ \union ({t.seen} \ {NoText}) ELSE @]
  /\ raced' = (t.before # Public(review))
  /\ tx' = [tx EXCEPT ![p] = Idle]
  /\ UNCHANGED reviewable

-----------------------------------------------------------------------------
\* The student confirms the attendance, disputes it, an admin resolves it.
Confirm(s) == reviewable' = reviewable \union {s}
Dispute(s) == s \in reviewable /\ reviewable' = reviewable \ {s}
Attend(s) == /\ Confirm(s) \/ Dispute(s)
             /\ UNCHANGED <<review, moderation, profile, approved, raced, tx>>

Request(p, s) == \/ \E r \in Ratings, b \in Bodies : Create(p, s, r, b)
                 \/ \E patch \in Patches : Edit(p, s, patch)
                 \/ Delete(p, s)
                 \/ \E d \in Decisions : Moderate(p, s, d)

Next == \/ \E p \in Procs : \/ \E s \in Sessions : Request(p, s)
                            \/ WriteModeration(p) \/ WriteReview(p) \/ Commit(p) \/ Crash(p)
        \/ \E s \in Sessions : Attend(s)

Spec == Init /\ [][Next]_vars

-----------------------------------------------------------------------------
\* Rows have the shapes their tables allow, and a review has its moderation.
ReviewsTypeOK ==
  /\ reviewable \subseteq Sessions
  /\ review \in [Sessions -> ReviewRow]
  /\ moderation \in [Sessions -> ModerationState]
  /\ \A s \in Sessions : review[s].written <=> moderation[s] # "none"
  /\ profile \subseteq Sessions \X Ratings
  /\ approved \in [Sessions -> SUBSET Texts]
  /\ raced \in BOOLEAN

\* The two rows a review consists of agree whatever requests race: it is
\* published exactly while its moderation says approved.
PublishedIffApproved ==
  \A s \in Sessions : Exists(s) => (review[s].published <=> moderation[s] = "approved")

\* A moderator's decision stands until the author edits the text: a second
\* moderator, however early he read the review, changes nothing.
DecisionStands ==
  [][\A s \in Sessions :
       moderation[s] \in Decisions /\ moderation'[s] # moderation[s] =>
         \E p \in Procs : tx[p].pc = "profile" /\ tx[p].op = "edit" /\ tx[p].session = s]_vars

\* The tutor's rating counts exactly the approved reviews, unless another request
\* published or withdrew one between the last count and its commit; the next count
\* that no such commit overlaps puts it right.
RatingCountsApproved ==
  ~ raced => profile = {<<s, review[s].rating>> :
                        s \in {u \in Sessions : Exists(u) /\ moderation[u] = "approved"}}

\* reviews.py: "the aggregate only ever counts published rows".  It fails when a
\* request counts while another unpublishes a review.
CountsOnlyPublished == profile \subseteq Public(review)

\* F3 and the module's docstring: no free text is public before a human
\* decision.
PublicTextWasApproved ==
  \A s \in Sessions :
    Exists(s) /\ review[s].published /\ review[s].body # NoText => review[s].body \in approved[s]
=============================================================================
