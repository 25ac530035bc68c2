------------------------- MODULE TutorReviewsProofs -------------------------
(* Reviews and their moderation for any number of requests, sessions, texts *)
(* and ratings, and any crashes.                                            *)
EXTENDS TutorReviews, TLAPS

\* A transaction carries these fields and no other.
Shaped(t) == t = [op |-> t.op, pc |-> t.pc, session |-> t.session, values |-> t.values,
                  state |-> t.state, seen |-> t.seen, row |-> t.row, before |-> t.before, counted |-> t.counted]

Sets(t, c) == c \in DOMAIN t.values

\* The columns a request sets have the types of the table.
ValuesTyped(t) == /\ Sets(t, "written") => t.values.written \in BOOLEAN
                  /\ Sets(t, "body") => t.values.body \in Bodies
                  /\ Sets(t, "rating") => t.values.rating \in Ratings
                  /\ Sets(t, "published") => t.values.published \in BOOLEAN
                  /\ Sets(t, "deleted") => t.values.deleted \in BOOLEAN

TxTyped(t) ==
  /\ Shaped(t)
  /\ t.op \in {"create", "edit", "delete", "moderate"}
  /\ t.pc \in {"moderation", "review", "profile"}
  /\ t.session \in Sessions /\ t.state \in ModerationState /\ t.seen \in Bodies
  /\ t.row \in ReviewRow /\ t.counted \subseteq Sessions \X Ratings
  /\ ValuesTyped(t)

\* A request that writes a state to the moderation row publishes exactly if
\* that state is 'approved', and one that does not leaves 'published' alone
\* unless it deletes the review.  Only a creation makes a review exist.
TxPlanned(t) ==
  /\ t.op = "delete" => Sets(t, "deleted") /\ t.values.deleted = TRUE /\ t.state = "none"
  /\ t.op # "delete" /\ t.state = "none" => t.op = "edit" /\ ~Sets(t, "published")
  /\ t.state # "none" => Sets(t, "published") /\ t.values.published = (t.state = "approved")
  /\ t.op = "create" => /\ Sets(t, "written") /\ t.values.written = TRUE
                        /\ t.state # "none" /\ t.pc # "moderation"
  /\ t.op # "create" => ~Sets(t, "written")
  /\ t.op \in {"edit", "moderate"} => ~Sets(t, "deleted")
  /\ t.pc = "moderation" => t.state # "none"

\* Only a review that is there is edited, deleted or moderated, and only one
\* that is not there is created; a decision is taken on a pending review.
TxFounded(t) ==
  /\ t.op = "create" /\ t.pc = "profile" => ~review[t.session].written
  /\ t.op # "create" => review[t.session].written
  /\ t.op = "moderate" /\ t.pc # "moderation" => moderation[t.session] = "pending"

\* The row a transaction is about to commit is the present row, updated, and it
\* counted this row with what else was public.
NewRow(t) == IF t.op = "delete" /\ review[t.session].deleted THEN review[t.session]
             ELSE Updated(review[t.session], t.values)
IsPublic(r) == r.published /\ ~r.deleted
Counted(before, s, row) ==
  {c \in before : c[1] # s} \union (IF IsPublic(row) THEN {<<s, row.rating>>} ELSE {})
TxCounted(t) ==
  t.pc = "profile" => t.row = NewRow(t) /\ t.counted = Counted(t.before, t.session, t.row)

TxOK(t) == TxTyped(t) /\ TxPlanned(t) /\ TxFounded(t) /\ TxCounted(t)

\* Whoever wrote the review row, or the moderation row of a review that was
\* there, is alone in having done so.
Decided(t) == t.pc # "moderation" /\ t.op # "create" /\ t.state # "none"
Excludes(t, u) == t.session = u.session /\ (\/ t.pc = "profile" /\ u.pc = "profile"
                                            \/ Decided(t) /\ Decided(u))

Open(p) == tx[p].pc # "idle"

TxInv == /\ tx = [p \in Procs |-> tx[p]]
         /\ \A p \in Procs : Open(p) => TxOK(tx[p])
         /\ \A p, q \in Procs : Open(p) /\ Open(q) /\ Excludes(tx[p], tx[q]) => p = q

PublicIsWritten == \A s \in Sessions : review[s].published => review[s].written
ProfileIsCurrent == ~ raced => profile = Public(review)

ReviewsInv == /\ ReviewsTypeOK
              /\ TxInv
              /\ PublishedIffApproved
              /\ PublicIsWritten
              /\ ProfileIsCurrent

\* No review, no request: the invariant holds.
LEMMA ReviewsInitInv == Init => ReviewsInv
<1> SUFFICES ASSUME Init PROVE ReviewsInv
  OBVIOUS
<1> USE ReviewsAssumption DEF Init
<1>1. (CHOOSE r \in Ratings : TRUE) \in Ratings
  OBVIOUS
<1>2. NoReview \in ReviewRow /\ NoReview.written = FALSE /\ NoReview.published = FALSE
  BY <1>1 DEF NoReview, ReviewRow, Bodies
<1>3. ReviewsTypeOK
  BY <1>2 DEF ReviewsTypeOK, ModerationState
<1>4. TxInv
  BY DEF TxInv, Open, Idle
<1>5. PublishedIffApproved /\ PublicIsWritten /\ ProfileIsCurrent
  BY <1>2 DEF PublishedIffApproved, Public, PublicIsWritten, ProfileIsCurrent, Exists
<1> QED
  BY <1>3, <1>4, <1>5 DEF ReviewsInv

\* An UPDATE sets the columns it names and leaves the others.
LEMMA UpdatedRow ==
  ASSUME NEW row \in ReviewRow, NEW t, ValuesTyped(t)
  PROVE  /\ Updated(row, t.values) \in ReviewRow
         /\ Updated(row, t.values).written = IF Sets(t, "written") THEN t.values.written ELSE row.written
         /\ Updated(row, t.values).published =
              IF Sets(t, "published") THEN t.values.published ELSE row.published
         /\ Updated(row, t.values).deleted = IF Sets(t, "deleted") THEN t.values.deleted ELSE row.deleted
<1> DEFINE v == t.values
           new == Updated(row, v)
<1>1. DOMAIN row = {"written", "body", "rating", "published", "deleted"}
  BY DEF ReviewRow
<1>2. new = [c \in {"written", "body", "rating", "published", "deleted"} |->
               IF c \in DOMAIN v THEN v[c] ELSE row[c]]
  BY <1>1 DEF Updated
<1>3. /\ new["written"] = IF Sets(t, "written") THEN t.values.written ELSE row.written
      /\ new["body"] = IF Sets(t, "body") THEN t.values.body ELSE row.body
      /\ new["rating"] = IF Sets(t, "rating") THEN t.values.rating ELSE row.rating
      /\ new["published"] = IF Sets(t, "published") THEN t.values.published ELSE row.published
      /\ new["deleted"] = IF Sets(t, "deleted") THEN t.values.deleted ELSE row.deleted
  BY <1>2 DEF Sets
<1> HIDE DEF new
<1>4. new = [written |-> new["written"], body |-> new["body"], rating |-> new["rating"],
             published |-> new["published"], deleted |-> new["deleted"]]
  BY <1>2
<1>5. new \in ReviewRow
  BY <1>3, <1>4 DEF ReviewRow, ValuesTyped
<1> QED
  BY <1>3, <1>5 DEF new

\* A transaction moves on to t, or ends, and no table changes.
LEMMA GotoStep ==
  ASSUME ReviewsInv, NEW p \in Procs, NEW t, Goto(p, t),
         t.pc # "idle" => TxOK(t),
         t.pc # "idle" => \A q \in Procs \ {p} : Open(q) => ~Excludes(t, tx[q])
  PROVE  ReviewsInv'
<1> USE DEF ReviewsInv
<1>1. /\ tx' = [tx EXCEPT ![p] = t]
      /\ UNCHANGED <<reviewable, review, moderation, profile, approved, raced>>
  BY DEF Goto, tables
<1>2. /\ tx'[p] = t /\ \A q \in Procs \ {p} : tx'[q] = tx[q]
      /\ tx' = [q \in Procs |-> tx'[q]]
  BY <1>1 DEF TxInv
<1>3. ReviewsTypeOK' /\ PublishedIffApproved' /\ PublicIsWritten' /\ ProfileIsCurrent'
  BY <1>1 DEF ReviewsTypeOK, PublishedIffApproved, Exists, PublicIsWritten, ProfileIsCurrent, Public
<1>4. \A u : TxOK(u) => TxOK(u)'
  BY <1>1 DEF TxOK, TxTyped, TxPlanned, TxFounded, TxCounted, NewRow
<1>5. \A q \in Procs : Open(q)' => TxOK(tx[q])'
  BY <1>2, <1>4 DEF TxInv, Open
<1>6. \A a, b \in Procs : Open(a)' /\ Open(b)' /\ Excludes(tx'[a], tx'[b]) => a = b
  BY <1>2 DEF TxInv, Open, Excludes
<1> QED
  BY <1>2, <1>3, <1>5, <1>6 DEF TxInv

\* A request opens its transaction: it holds nothing yet.
LEMMA BeginStep ==
  ASSUME ReviewsInv, NEW p \in Procs, NEW op, NEW pc \in {"moderation", "review"},
         NEW s \in Sessions, NEW values, NEW state \in ModerationState,
         Begin(p, op, pc, s, values, state),
         NEW t, t = [op |-> op, pc |-> pc, session |-> s, values |-> values, state |-> state,
                     seen |-> review[s].body, row |-> NoReview, before |-> {}, counted |-> {}],
         op \in {"create", "edit", "delete", "moderate"},
         ValuesTyped(t), TxPlanned(t), TxFounded(t), ~Decided(t)
  PROVE  ReviewsInv'
<1>1. Goto(p, t)
  BY DEF Begin
<1>2. NoReview \in ReviewRow
  BY ReviewsAssumption DEF NoReview, ReviewRow, Bodies
<1>3. review[s].body \in Bodies
  BY DEF ReviewsInv, ReviewsTypeOK, ReviewRow
<1>4. TxTyped(t)
  BY <1>2, <1>3 DEF TxTyped, Shaped
<1>5. TxCounted(t)
  BY DEF TxCounted
<1>6. \A q \in Procs \ {p} : ~Excludes(t, tx[q])
  BY DEF Excludes
<1> QED
  BY <1>1, <1>4, <1>5, <1>6, GotoStep DEF TxOK

\* What the four requests plan to write.
LEMMA RequestStep ==
  ASSUME ReviewsInv, NEW p \in Procs, NEW s \in Sessions, Request(p, s)
  PROVE  ReviewsInv'
<1>1. /\ review[s] \in ReviewRow
      /\ review[s].written <=> moderation[s] # "none"
  BY DEF ReviewsInv, ReviewsTypeOK
<1> DEFINE rec(op, pc, values, state) ==
             [op |-> op, pc |-> pc, session |-> s, values |-> values, state |-> state,
              seen |-> review[s].body, row |-> NoReview, before |-> {}, counted |-> {}]
<1>2. ASSUME NEW r \in Ratings, NEW b \in Bodies, Create(p, s, r, b) PROVE ReviewsInv'
  <2> DEFINE values == [written |-> TRUE, body |-> b, rating |-> r, published |-> b = NoText,
                        deleted |-> FALSE]
  <2>2. Begin(p, "create", "review", s, values, StateFor(b))
    BY <1>2 DEF Create
  <2>3. StateFor(b) \in ModerationState \ {"none"} /\ (StateFor(b) = "approved" <=> b = NoText)
    BY DEF StateFor, ModerationState
  <2> DEFINE t == rec("create", "review", values, StateFor(b))
  <2>4. ValuesTyped(t) /\ TxPlanned(t) /\ TxFounded(t) /\ ~Decided(t)
    BY <2>3 DEF ValuesTyped, Sets, TxPlanned, TxFounded, Decided
  <2> HIDE DEF t, values
  <2> QED
    BY <2>2, <2>3, <2>4, BeginStep DEF t
<1>3. ASSUME NEW patch \in Patches, Edit(p, s, patch) PROVE ReviewsInv'
  <2>1. /\ DOMAIN patch \subseteq {"body", "rating"}
        /\ "body" \in DOMAIN patch => patch.body \in Bodies
        /\ "rating" \in DOMAIN patch => patch.rating \in Ratings
    BY DEF Patches
  <2>2. review[s].written
    BY <1>3 DEF Edit, Exists
  <2>3. CASE TextChanged(s, patch)
    <3> DEFINE values == Republished(patch)
               t == rec("edit", "moderation", values, StateFor(patch.body))
    <3>1. patch.body \in Bodies
      BY <2>1, <2>3 DEF TextChanged
    <3>2. /\ DOMAIN values = DOMAIN patch \union {"published"}
          /\ values.published = (patch.body = NoText)
          /\ \A c \in DOMAIN patch : values[c] = patch[c]
      BY <2>1 DEF Republished
    <3>3. StateFor(patch.body) \in ModerationState \ {"none"}
          /\ (StateFor(patch.body) = "approved" <=> patch.body = NoText)
      BY DEF StateFor, ModerationState
    <3>4. Begin(p, "edit", "moderation", s, values, StateFor(patch.body))
      BY <1>3, <2>3 DEF Edit
    <3> HIDE DEF values
    <3>5. ValuesTyped(t)
      BY <2>1, <3>2 DEF ValuesTyped, Sets
    <3>6. TxPlanned(t) /\ TxFounded(t) /\ ~Decided(t)
      BY <2>1, <2>2, <3>2, <3>3 DEF Sets, TxPlanned, TxFounded, Decided
    <3> HIDE DEF t
    <3> QED
      BY <3>3, <3>4, <3>5, <3>6, BeginStep DEF t
  <2>4. CASE ~TextChanged(s, patch)
    <3> DEFINE t == rec("edit", "review", patch, "none")
    <3>1. Begin(p, "edit", "review", s, patch, "none")
      BY <1>3, <2>4 DEF Edit
    <3>2. ValuesTyped(t)
      BY <2>1 DEF ValuesTyped, Sets
    <3>3. TxPlanned(t) /\ TxFounded(t) /\ ~Decided(t)
      BY <2>1, <2>2 DEF Sets, TxPlanned, TxFounded, Decided
    <3>4. "none" \in ModerationState
      BY DEF ModerationState
    <3> HIDE DEF t
    <3> QED
      BY <3>1, <3>2, <3>3, <3>4, BeginStep DEF t
  <2> QED
    BY <2>3, <2>4
<1>4. CASE Delete(p, s)
  <2> DEFINE values == [deleted |-> TRUE, published |-> FALSE]
             t == rec("delete", "review", values, "none")
  <2>1. Begin(p, "delete", "review", s, values, "none") /\ review[s].written
    BY <1>4 DEF Delete, Exists
  <2>2. ValuesTyped(t) /\ TxPlanned(t) /\ TxFounded(t) /\ ~Decided(t)
    BY <2>1 DEF ValuesTyped, Sets, TxPlanned, TxFounded, Decided
  <2>3. "none" \in ModerationState
    BY DEF ModerationState
  <2> HIDE DEF t, values
  <2> QED
    BY <2>1, <2>2, <2>3, BeginStep DEF t
<1>5. ASSUME NEW d \in Decisions, Moderate(p, s, d) PROVE ReviewsInv'
  <2> DEFINE values == [published |-> d = "approved"]
             t == rec("moderate", "moderation", values, d)
  <2>1. Begin(p, "moderate", "moderation", s, values, d) /\ review[s].written
    BY <1>5 DEF Moderate, Exists
  <2>2. d \in ModerationState \ {"none"}
    BY DEF Decisions, ModerationState
  <2>3. ValuesTyped(t) /\ TxPlanned(t) /\ TxFounded(t) /\ ~Decided(t)
    BY <2>1, <2>2 DEF ValuesTyped, Sets, TxPlanned, TxFounded, Decided
  <2> HIDE DEF t, values
  <2> QED
    BY <2>1, <2>2, <2>3, BeginStep DEF t
<1> QED
  BY <1>2, <1>3, <1>4, <1>5 DEF Request

\* A transaction ends without a trace.
LEMMA RollbackStep ==
  ASSUME ReviewsInv, NEW p \in Procs, Rollback(p)
  PROVE  ReviewsInv'
  BY GotoStep DEF Rollback, Idle

\* The moderation row is taken by one transaction at a time, and by a decision
\* only while it is pending.
LEMMA WriteModerationStep ==
  ASSUME ReviewsInv, NEW p \in Procs, WriteModeration(p)
  PROVE  ReviewsInv'
<1> DEFINE old == tx[p]
           t == [tx[p] EXCEPT !.pc = "review"]
<1>1. old.pc = "moderation" /\ ModerationFree(p, old.session)
  BY DEF WriteModeration
<1>2. TxOK(old)
  BY <1>1 DEF ReviewsInv, TxInv, Open
<1>3. CASE ~DecidesPending(p)
  BY <1>3, RollbackStep DEF WriteModeration
<1>4. CASE DecidesPending(p)
  <2>1. t = [op |-> old.op, pc |-> "review", session |-> old.session, values |-> old.values,
             state |-> old.state, seen |-> old.seen, row |-> old.row, before |-> old.before, counted |-> old.counted]
    BY <1>2 DEF TxOK, TxTyped, Shaped
  <2>2. Goto(p, t)
    BY <1>4 DEF WriteModeration
  <2> HIDE DEF t
  <2>3. /\ t.op = old.op /\ t.pc = "review" /\ t.session = old.session /\ t.values = old.values
        /\ t.state = old.state /\ t.seen = old.seen /\ t.row = old.row /\ t.before = old.before /\ t.counted = old.counted
        /\ Shaped(t)
    BY <2>1 DEF Shaped
  <2>4. TxTyped(t) /\ TxPlanned(t) /\ TxCounted(t)
    BY <1>1, <1>2, <2>3 DEF TxOK, TxTyped, ValuesTyped, Sets, TxPlanned, TxCounted
  <2>5. TxFounded(t)
    BY <1>1, <1>2, <1>4, <2>3 DEF TxOK, TxFounded, DecidesPending
  <2>6. \A q \in Procs \ {p} : Open(q) => ~Excludes(t, tx[q])
    <3> SUFFICES ASSUME NEW q \in Procs \ {p}, Open(q), tx[q].session = old.session, Decided(tx[q])
                 PROVE  FALSE
      BY <2>3 DEF Excludes
    <3>1. tx[q].pc \in {"review", "profile"}
      BY DEF ReviewsInv, TxInv, TxOK, TxTyped, Decided
    <3> QED
      BY <1>1, <3>1 DEF ModerationFree, Holds, Decided
  <2> QED
    BY <2>2, <2>4, <2>5, <2>6, GotoStep DEF TxOK
<1> QED
  BY <1>3, <1>4

\* What a transaction writes to the review row agrees with what it writes to
\* the moderation row, or leaves there.
LEMMA NewRowFacts ==
  ASSUME ReviewsInv, NEW t, TxTyped(t), TxPlanned(t), TxFounded(t),
         t.op = "create" => ~review[t.session].written
  PROVE  /\ NewRow(t) \in ReviewRow
         /\ NewRow(t).written = TRUE
         /\ ~NewRow(t).deleted =>
              IF t.state = "none" THEN /\ ~review[t.session].deleted
                                       /\ NewRow(t).published = review[t.session].published
              ELSE NewRow(t).published = (t.state = "approved")
<1> DEFINE s == t.session
           new == Updated(review[s], t.values)
<1>1. /\ s \in Sessions /\ review[s] \in ReviewRow
      /\ review[s].written \in BOOLEAN /\ review[s].published \in BOOLEAN
      /\ review[s].deleted \in BOOLEAN
  BY DEF TxTyped, ReviewsInv, ReviewsTypeOK, ReviewRow
<1>2. /\ new \in ReviewRow
      /\ new.written = IF Sets(t, "written") THEN t.values.written ELSE review[s].written
      /\ new.published = IF Sets(t, "published") THEN t.values.published ELSE review[s].published
      /\ new.deleted = IF Sets(t, "deleted") THEN t.values.deleted ELSE review[s].deleted
  BY <1>1, UpdatedRow DEF TxTyped
<1>3. t.op \in {"create", "edit", "delete", "moderate"}
  BY DEF TxTyped
<1>4. NewRow(t) = IF t.op = "delete" /\ review[s].deleted THEN review[s] ELSE new
  BY DEF NewRow
<1> HIDE DEF s, new
<1>5. new.written = TRUE
  BY <1>1, <1>2, <1>3 DEF TxPlanned, TxFounded, s
<1>6. CASE t.op = "delete"
  <2>1. new.deleted = TRUE /\ review[s].written = TRUE
    BY <1>1, <1>2, <1>6 DEF TxPlanned, TxFounded, s
  <2> QED
    BY <1>1, <1>2, <1>4, <1>5, <2>1
<1>7. CASE t.op # "delete"
  <2>1. NewRow(t) = new
    BY <1>4, <1>7
  <2>2. t.state = "none" => new.published = review[s].published /\ new.deleted = review[s].deleted
    BY <1>2, <1>7 DEF TxPlanned
  <2>3. t.state # "none" => new.published = (t.state = "approved")
    BY <1>2 DEF TxPlanned
  <2> QED
    BY <1>2, <1>5, <2>1, <2>2, <2>3 DEF s
<1> QED
  BY <1>6, <1>7

\* The count a request makes while it has changed one row.
LEMMA CountedPublic ==
  ASSUME review \in [Sessions -> ReviewRow], NEW s \in Sessions, NEW row
  PROVE  Public([review EXCEPT ![s] = row]) = Counted(Public(review), s, row)
<1> DEFINE new == [review EXCEPT ![s] = row]
<1>1. /\ Public(new) = {<<x, new[x].rating>> : x \in {y \in Sessions : new[y].published /\ ~ new[y].deleted}}
      /\ Public(review) = {<<x, review[x].rating>> :
                           x \in {y \in Sessions : review[y].published /\ ~ review[y].deleted}}
  BY DEF Public
<1>2. new[s] = row /\ \A x \in Sessions \ {s} : new[x] = review[x]
  OBVIOUS
<1> HIDE DEF new
<1>3. ASSUME NEW c \in Public(new)
      PROVE  c \in Counted(Public(review), s, row)
  <2>1. PICK x \in Sessions : c = <<x, new[x].rating>> /\ new[x].published /\ ~ new[x].deleted
    BY <1>1, <1>3
  <2>2. CASE x = s
    BY <1>2, <2>1, <2>2 DEF Counted, IsPublic
  <2>3. CASE x # s
    BY <1>1, <1>2, <2>1, <2>3 DEF Counted
  <2> QED BY <2>2, <2>3
<1>4. ASSUME NEW c \in Counted(Public(review), s, row)
      PROVE  c \in Public(new)
  <2>1. CASE c \in Public(review) /\ c[1] # s
    <3>1. PICK x \in Sessions : c = <<x, review[x].rating>> /\ review[x].published /\ ~ review[x].deleted
      BY <1>1, <2>1
    <3> QED BY <1>1, <1>2, <2>1, <3>1
  <2>2. CASE IsPublic(row) /\ c = <<s, row.rating>>
    BY <1>1, <1>2, <2>2 DEF IsPublic
  <2> QED BY <1>4, <2>1, <2>2 DEF Counted
<1> QED BY <1>3, <1>4 DEF new

\* The review row is taken by one transaction at a time, which updates it as
\* it stands now and counts it with what is public.
LEMMA WriteReviewStep ==
  ASSUME ReviewsInv, NEW p \in Procs, WriteReview(p)
  PROVE  ReviewsInv'
<1> DEFINE old == tx[p]
           s == old.session
           row == NewRow(old)
           counted == Public([review EXCEPT ![s] = row])
           before == Public(review)
           t == [tx[p] EXCEPT !.pc = "profile", !.row = row, !.before = before, !.counted = counted]
<1>1. old.pc = "review" /\ ReviewFree(p, s)
  BY DEF WriteReview
<1>2. TxOK(old)
  BY <1>1 DEF ReviewsInv, TxInv, Open
<1>3. CASE old.op = "create" /\ review[s].written
  BY <1>3, RollbackStep DEF WriteReview
<1>4. CASE ~(old.op = "create" /\ review[s].written)
  <2>1. t = [op |-> old.op, pc |-> "profile", session |-> old.session, values |-> old.values,
             state |-> old.state, seen |-> old.seen, row |-> row, before |-> before,
             counted |-> counted]
    <3>1. old = [op |-> old.op, pc |-> old.pc, session |-> old.session, values |-> old.values,
                 state |-> old.state, seen |-> old.seen, row |-> old.row, before |-> old.before, counted |-> old.counted]
      BY <1>2 DEF TxOK, TxTyped, Shaped
    <3> DEFINE t1 == [old EXCEPT !.pc = "profile"]
               t2 == [t1 EXCEPT !.row = row]
               t3 == [t2 EXCEPT !.before = before]
    <3>2. t = [t3 EXCEPT !.counted = counted]
      OBVIOUS
    <3>3. t1 = [op |-> old.op, pc |-> "profile", session |-> old.session, values |-> old.values,
                state |-> old.state, seen |-> old.seen, row |-> old.row, before |-> old.before, counted |-> old.counted]
      BY <3>1
    <3> HIDE DEF t1, old, row, before, counted
    <3>4. t2 = [op |-> old.op, pc |-> "profile", session |-> old.session, values |-> old.values,
                state |-> old.state, seen |-> old.seen, row |-> row, before |-> old.before,
                counted |-> old.counted]
      BY <3>3
    <3> HIDE DEF t2
    <3>5. t3 = [op |-> old.op, pc |-> "profile", session |-> old.session, values |-> old.values,
                state |-> old.state, seen |-> old.seen, row |-> row, before |-> before,
                counted |-> old.counted]
      BY <3>4
    <3> HIDE DEF t3, t
    <3> QED
      BY <3>2, <3>5
  <2>2. Goto(p, t)
    BY <1>4 DEF WriteReview, NewRow
  <2>3. row \in ReviewRow
    BY <1>2, <1>4, NewRowFacts DEF TxOK
  <2>4. review \in [Sessions -> ReviewRow] /\ s \in Sessions
    BY <1>2 DEF ReviewsInv, ReviewsTypeOK, TxOK, TxTyped
  <2>5. counted = Counted(before, s, row)
    BY <2>4, CountedPublic
  <2>6. counted \subseteq Sessions \X Ratings
    BY <2>3, <2>4 DEF Public, ReviewRow
  <2> HIDE DEF t, row, before, counted
  <2>7. /\ t.op = old.op /\ t.pc = "profile" /\ t.session = s /\ t.values = old.values
        /\ t.state = old.state /\ t.seen = old.seen /\ t.row = row /\ t.before = before /\ t.counted = counted
        /\ Shaped(t)
    BY <2>1 DEF Shaped
  <2>8. TxTyped(t) /\ TxPlanned(t)
    BY <1>1, <1>2, <2>3, <2>6, <2>7 DEF TxOK, TxTyped, ValuesTyped, Sets, TxPlanned
  <2>9. TxFounded(t)
    BY <1>1, <1>2, <1>4, <2>7 DEF TxOK, TxFounded
  <2>10. TxCounted(t)
    <3>1. t.row = NewRow(t)
      BY <2>7 DEF NewRow, row
    <3> QED
      BY <2>5, <2>7, <3>1 DEF TxCounted
  <2>11. \A q \in Procs \ {p} : Open(q) => ~Excludes(t, tx[q])
    <3> SUFFICES ASSUME NEW q \in Procs \ {p}, Open(q), tx[q].session = s, Excludes(t, tx[q])
                 PROVE  FALSE
      BY <2>7 DEF Excludes
    <3>1. tx[q].pc # "profile"
      BY <1>1 DEF ReviewFree, Holds
    <3>2. Decided(t) /\ Decided(tx[q])
      BY <3>1 DEF Excludes
    <3>3. Decided(old)
      BY <1>1, <2>7, <3>2 DEF Decided
    <3>4. Excludes(old, tx[q]) /\ Open(p)
      BY <1>1, <3>2, <3>3 DEF Excludes, Open
    <3> QED
      BY <3>4 DEF ReviewsInv, TxInv
  <2> QED
    BY <2>2, <2>8, <2>9, <2>10, <2>11, GotoStep DEF TxOK
<1> QED
  BY <1>3, <1>4

\* What the committing transaction p leaves of another transaction's plan.
LEMMA CommitKeepsOthers ==
  ASSUME ReviewsInv, NEW p \in Procs, Commit(p), NEW q \in Procs \ {p}, Open(q),
         NEW u, u = tx[q]
  PROVE  TxOK(u)'
<1> DEFINE t == tx[p]
<1>1. t.pc = "profile" /\ Open(p)
  BY DEF Commit, Open
<1>2. TxOK(t) /\ TxOK(u) /\ ~Excludes(t, u)
  BY <1>1 DEF ReviewsInv, TxInv
<1>3. /\ review' = [review EXCEPT ![t.session] = t.row]
      /\ moderation' = [moderation EXCEPT ![t.session] = IF t.state = "none" THEN @ ELSE t.state]
      /\ tx' = [tx EXCEPT ![p] = Idle]
  BY DEF Commit
<1>4. /\ review \in [Sessions -> ReviewRow] /\ moderation \in [Sessions -> ModerationState]
      /\ tx'[q] = u /\ t.session \in Sessions /\ u.session \in Sessions
  BY <1>2, <1>3 DEF ReviewsInv, ReviewsTypeOK, TxInv, TxOK, TxTyped
<1> HIDE DEF t
<1>5. CASE u.session # t.session
  <2>1. review'[u.session] = review[u.session] /\ moderation'[u.session] = moderation[u.session]
    BY <1>3, <1>4, <1>5
  <2>2. TxFounded(u)'
    BY <1>2, <2>1 DEF TxOK, TxFounded
  <2>3. TxCounted(u)'
    BY <1>2, <1>3, <2>1 DEF TxOK, TxCounted, NewRow
  <2> QED
    BY <1>2, <1>4, <2>2, <2>3 DEF TxOK, TxTyped, TxPlanned
<1>6. CASE u.session = t.session
  <2>1. u.pc # "profile" /\ ~(Decided(t) /\ Decided(u))
    BY <1>1, <1>2, <1>6 DEF Excludes
  <2>2. t.row.written = TRUE
    BY <1>1, <1>2, NewRowFacts DEF TxOK, TxCounted, TxFounded
  <2>3. u.op # "create" => review'[u.session].written
    BY <1>3, <1>4, <1>6, <2>2
  <2>4. u.op = "moderate" /\ u.pc # "moderation" => moderation'[u.session] = "pending"
    <3> SUFFICES ASSUME u.op = "moderate", u.pc # "moderation"
                 PROVE  moderation'[u.session] = "pending"
      OBVIOUS
    <3>1. Decided(u)
      BY <1>2 DEF TxOK, TxPlanned, Decided
    <3>2. t.op # "create"
      BY <1>1, <1>2, <1>6 DEF TxOK, TxFounded
    <3>3. t.state = "none"
      BY <1>1, <2>1, <3>1, <3>2 DEF Decided
    <3>4. moderation[u.session] = "pending"
      BY <1>2 DEF TxOK, TxFounded
    <3> QED
      BY <1>3, <1>4, <3>3, <3>4
  <2>5. TxFounded(u)'
    BY <1>4, <2>1, <2>3, <2>4 DEF TxFounded
  <2>6. TxCounted(u)'
    BY <1>4, <2>1 DEF TxCounted
  <2> QED
    BY <1>2, <1>4, <2>5, <2>6 DEF TxOK, TxTyped, TxPlanned
<1> QED
  BY <1>5, <1>6

\* The rows a commit leaves have their types and agree with each other.
LEMMA CommitStep ==
  ASSUME ReviewsInv, NEW p \in Procs, Commit(p)
  PROVE  ReviewsInv'
<1> DEFINE t == tx[p]
           s == t.session
           added == IF t.op = "moderate" /\ t.state = "approved"
                    THEN approved[s] \union ({t.seen} \ {NoText}) ELSE approved[s]
           state == IF t.state = "none" THEN moderation[s] ELSE t.state
<1>1. /\ t.pc = "profile" /\ Open(p)
      /\ review' = [review EXCEPT ![s] = t.row]
      /\ moderation' = [moderation EXCEPT ![s] = state]
      /\ profile' = t.counted
      /\ approved' = [approved EXCEPT ![s] = added]
      /\ raced' = (t.before # Public(review))
      /\ tx' = [tx EXCEPT ![p] = Idle]
      /\ UNCHANGED reviewable
  BY DEF Commit, Open, Public
<1>2. TxOK(t)
  BY <1>1 DEF ReviewsInv, TxInv
<1>3. /\ reviewable \subseteq Sessions
      /\ review \in [Sessions -> ReviewRow] /\ moderation \in [Sessions -> ModerationState]
      /\ approved \in [Sessions -> SUBSET Texts]
      /\ \A x \in Sessions : review[x].written <=> moderation[x] # "none"
      /\ s \in Sessions /\ t.row \in ReviewRow /\ t.state \in ModerationState
      /\ t.seen \in Texts \union {NoText} /\ t.counted \subseteq Sessions \X Ratings
  BY <1>2 DEF ReviewsInv, ReviewsTypeOK, TxOK, TxTyped, Bodies
<1>4. /\ t.row = NewRow(t)
      /\ t.row.written = TRUE
      /\ ~t.row.deleted =>
           IF t.state = "none" THEN ~review[s].deleted /\ t.row.published = review[s].published
           ELSE t.row.published = (t.state = "approved")
  BY <1>1, <1>2, NewRowFacts DEF TxOK, TxCounted, TxFounded
<1>5. t.state = "none" => review[s].written
  BY <1>2 DEF TxOK, TxPlanned, TxFounded
<1>6. t.counted = Counted(t.before, s, t.row)
  BY <1>1, <1>2 DEF TxOK, TxCounted
<1> HIDE DEF t, s
<1>7. /\ review'[s] = t.row /\ \A x \in Sessions \ {s} : review'[x] = review[x]
      /\ moderation'[s] = state /\ \A x \in Sessions \ {s} : moderation'[x] = moderation[x]
      /\ state \in ModerationState /\ state # "none"
  BY <1>1, <1>3, <1>5
<1>8. review' \in [Sessions -> ReviewRow] /\ moderation' \in [Sessions -> ModerationState]
  BY <1>1, <1>3, <1>7
<1>9. raced' \in BOOLEAN
  BY <1>1
<1>10. approved' \in [Sessions -> SUBSET Texts]
  <2>1. added \in SUBSET Texts
    BY <1>3
  <2> HIDE DEF added
  <2> QED
    BY <1>1, <1>3, <2>1
<1> HIDE DEF state, added
<1>11. ReviewsTypeOK'
  BY <1>1, <1>3, <1>4, <1>7, <1>8, <1>9, <1>10 DEF ReviewsTypeOK
<1>12. PublishedIffApproved'
  <2>1. ASSUME ~t.row.deleted
        PROVE  t.row.published <=> state = "approved"
    <3>1. CASE t.state = "none"
      <4>1. review[s].published <=> moderation[s] = "approved"
        BY <1>3, <1>4, <1>5, <2>1, <3>1 DEF ReviewsInv, PublishedIffApproved, Exists
      <4> QED
        BY <1>4, <2>1, <3>1, <4>1 DEF state
    <3>2. CASE t.state # "none"
      BY <1>4, <2>1, <3>2 DEF state
    <3> QED
      BY <3>1, <3>2
  <2> QED
    BY <1>7, <2>1 DEF ReviewsInv, PublishedIffApproved, Exists
<1>13. PublicIsWritten'
  BY <1>4, <1>7 DEF ReviewsInv, PublicIsWritten
<1>14. ProfileIsCurrent'
  <2>1. review' = [review EXCEPT ![s] = t.row] /\ profile' = t.counted
        /\ (~ raced' => t.before = Public(review))
    BY <1>1
  <2>2. Public(review') = Counted(Public(review), s, t.row)
    BY <1>3, <2>1, CountedPublic
  <2> QED
    BY <1>6, <2>1, <2>2 DEF ProfileIsCurrent, Public
<1>15. TxInv'
  <2>1. /\ tx' = [q \in Procs |-> tx'[q]] /\ tx'[p] = Idle
        /\ \A q \in Procs \ {p} : tx'[q] = tx[q]
    BY <1>1 DEF ReviewsInv, TxInv
  <2>2. \A q \in Procs : Open(q)' => q # p /\ Open(q)
    BY <2>1 DEF Open, Idle
  <2>3. ASSUME NEW q \in Procs, Open(q)' PROVE TxOK(tx[q])'
    <3>1. \A u : u = tx[q] => TxOK(u)'
      BY <2>2, <2>3, CommitKeepsOthers
    <3>2. tx'[q] = tx[q]
      BY <2>1, <2>2, <2>3
    <3> QED
      BY <3>1, <3>2 DEF TxOK, TxTyped, TxPlanned, TxFounded, TxCounted
  <2>4. \A a, b \in Procs : Open(a)' /\ Open(b)' /\ Excludes(tx'[a], tx'[b]) => a = b
    BY <2>1, <2>2 DEF ReviewsInv, TxInv, Excludes
  <2> QED
    BY <2>1, <2>3, <2>4 DEF TxInv
<1> QED
  BY <1>11, <1>12, <1>13, <1>14, <1>15 DEF ReviewsInv, Public

\* The attendance changes nothing but which session may be reviewed.
LEMMA AttendStep ==
  ASSUME ReviewsInv, NEW s \in Sessions, Attend(s)
  PROVE  ReviewsInv'
<1> USE DEF ReviewsInv
<1>1. UNCHANGED <<review, moderation, profile, approved, raced, tx>> /\ reviewable' \subseteq Sessions
  BY DEF Attend, Confirm, Dispute, ReviewsTypeOK
<1>2. ReviewsTypeOK' /\ PublishedIffApproved' /\ PublicIsWritten' /\ ProfileIsCurrent'
  BY <1>1 DEF ReviewsTypeOK, PublishedIffApproved, Exists, PublicIsWritten, ProfileIsCurrent, Public
<1>3. TxInv'
  BY <1>1 DEF TxInv, Open, TxOK, TxTyped, TxPlanned, TxFounded, TxCounted, NewRow
<1> QED
  BY <1>2, <1>3

\* Every step of every request, and every crash, keeps the invariant.
LEMMA ReviewsNextInv == ReviewsInv /\ [Next]_vars => ReviewsInv'
<1> SUFFICES ASSUME ReviewsInv, [Next]_vars PROVE ReviewsInv'
  OBVIOUS
<1>1. CASE UNCHANGED vars
  <2> USE DEF ReviewsInv, vars
  <2>1. ReviewsTypeOK' /\ PublishedIffApproved' /\ PublicIsWritten' /\ ProfileIsCurrent'
    BY <1>1 DEF ReviewsTypeOK, PublishedIffApproved, Exists, PublicIsWritten, ProfileIsCurrent, Public
  <2>2. TxInv'
    BY <1>1 DEF TxInv, Open, TxOK, TxTyped, TxPlanned, TxFounded, TxCounted, NewRow
  <2> QED
    BY <2>1, <2>2
<1>2. ASSUME NEW p \in Procs, Crash(p) PROVE ReviewsInv'
  BY <1>2, RollbackStep DEF Crash
<1> QED
  BY <1>1, <1>2, RequestStep, WriteModerationStep, WriteReviewStep, CommitStep, AttendStep DEF Next

\* Every row has the shape its table allows, and a review has its moderation.
THEOREM ReviewsTyped == Spec => []ReviewsTypeOK
<1>1. ReviewsInv => ReviewsTypeOK
  BY DEF ReviewsInv
<1> QED
  BY <1>1, ReviewsInitInv, ReviewsNextInv, PTL DEF Spec

\* The two rows of a review agree whatever requests race (edit and moderate
\* change both in one transaction).
THEOREM PublicationFollowsModeration == Spec => []PublishedIffApproved
<1>1. ReviewsInv => PublishedIffApproved
  BY DEF ReviewsInv
<1> QED
  BY <1>1, ReviewsInitInv, ReviewsNextInv, PTL DEF Spec

\* What recompute_tutor_aggregate stores counts exactly the approved reviews, unless
\* what is public changed between its last count and the commit of that count.
THEOREM RatingIsOfApproved == Spec => []RatingCountsApproved
<1>1. ReviewsInv => RatingCountsApproved
  <2> SUFFICES ASSUME ReviewsInv, ~ raced
               PROVE  profile = {<<s, review[s].rating>> :
                                 s \in {u \in Sessions : Exists(u) /\ moderation[u] = "approved"}}
    BY DEF RatingCountsApproved
  <2>1. \A u \in Sessions : review[u].published /\ ~ review[u].deleted
                            <=> Exists(u) /\ moderation[u] = "approved"
    BY DEF ReviewsInv, PublicIsWritten, PublishedIffApproved, Exists
  <2>2. {u \in Sessions : review[u].published /\ ~ review[u].deleted} =
        {u \in Sessions : Exists(u) /\ moderation[u] = "approved"}
    BY <2>1
  <2> QED
    BY <2>2 DEF ReviewsInv, ProfileIsCurrent, Public
<1> QED
  BY <1>1, ReviewsInitInv, ReviewsNextInv, PTL DEF Spec

\* A decision is undone by an edit of the text only: of two moderators who
\* read the same pending review, the second rolls back.
THEOREM DecisionsStand == Spec => DecisionStands
<1>1. ReviewsInv /\ [Next]_vars =>
        \A s \in Sessions :
          moderation[s] \in Decisions /\ moderation'[s] # moderation[s] =>
            \E p \in Procs : tx[p].pc = "profile" /\ tx[p].op = "edit" /\ tx[p].session = s
  <2> SUFFICES ASSUME ReviewsInv, [Next]_vars, NEW s \in Sessions,
                      moderation[s] \in Decisions, moderation'[s] # moderation[s]
               PROVE  \E p \in Procs : tx[p].pc = "profile" /\ tx[p].op = "edit" /\ tx[p].session = s
    OBVIOUS
  <2>1. PICK p \in Procs : Commit(p)
    BY DEF Next, vars, tables, Request, Create, Edit, Delete, Moderate, Begin, WriteModeration,
           WriteReview, Crash, Rollback, Goto, Attend
  <2> DEFINE t == tx[p]
  <2>2. /\ t.pc = "profile" /\ Open(p)
        /\ moderation' = [moderation EXCEPT ![t.session] =
                            IF t.state = "none" THEN @ ELSE t.state]
    BY <2>1 DEF Commit, Open
  <2>3. TxOK(t) /\ moderation \in [Sessions -> ModerationState]
    BY <2>2 DEF ReviewsInv, TxInv, ReviewsTypeOK
  <2>4. t.session = s /\ t.state # "none"
    BY <2>2, <2>3
  <2>5. t.op # "create"
    BY <2>2, <2>3, <2>4 DEF TxOK, TxFounded, ReviewsInv, ReviewsTypeOK, Decisions
  <2>6. t.op # "delete" /\ t.op # "moderate"
    BY <2>2, <2>3, <2>4 DEF TxOK, TxFounded, TxPlanned, Decisions
  <2> QED
    BY <2>2, <2>3, <2>4, <2>5, <2>6 DEF TxOK, TxTyped
<1> QED
  BY <1>1, ReviewsInitInv, ReviewsNextInv, PTL DEF Spec, DecisionStands
=============================================================================
