---------------------------- MODULE BookingHolds ----------------------------
(***************************************************************************)
(* The hold/slot/session tables of the tutoring marketplace, one SQL       *)
(* statement per step.                                                     *)
(*                                                                         *)
(* booking.py, the booking half of sessions.py and the webhook that calls  *)
(* it run as database transactions owned by a request handler.  The engine *)
(* sets no isolation level, so PostgreSQL runs them READ COMMITTED: every  *)
(* statement sees the rows committed before it plus the transaction's own  *)
(* writes; an UPDATE skips a row whose visible version does not match its  *)
(* WHERE clause, and waits for a matching row another transaction wrote.   *)
(*                                                                         *)
(* tx[p] is the transaction process p runs: the statement it is at (pc),   *)
(* what it read earlier (seen, ver, from), the session version its client  *)
(* named (named) and its uncommitted rows (wh, ws, wx).  A row in an open  *)
(* transaction's wh, ws or wx is locked by it.                             *)
(*                                                                         *)
(* A move or a cancellation writes under the version its client names,     *)
(* expected_version, and under the one it read only if none was named.  A  *)
(* client that names a later version than the handler has read wins after  *)
(* the commit that makes that version, on a status and a slot read before  *)
(* it.  The ghost unread remembers the sessions so changed.                *)
(***************************************************************************)
EXTENDS Integers, FiniteSets, Functions

CONSTANTS Slots,     \* tutor_availability_slots.id
          Holds,     \* booking_holds.id, a bounded supply of fresh ids
          Attempts,  \* payment attempts (orders) a student opens on one hold
          Procs,     \* request handlers and sweepers running concurrently
          Ttl,       \* booking_hold_minutes, in clock ticks
          MaxNow,    \* bound: the clock stops here
          MaxMoves,  \* bound: a session is moved or cancelled at most this often
          None       \* SQL NULL

ASSUME HoldsAssumption ==
  /\ Ttl \in Nat \ {0}
  /\ MaxNow \in Nat
  /\ MaxMoves \in Nat
  /\ None \notin Slots \union Holds

VARIABLES now,   \* wall clock
          slot,  \* slot[s]: committed status of the slot
          hold,  \* hold[h]: committed row of booking_holds
          sess,  \* sess[o]: committed session bought by order o
          tx,    \* tx[p]: the open transaction of process p
          unread \* ghost: orders whose session was changed under an unread version

vars == <<now, slot, hold, sess, tx, unread>>

\* An order is named by the hold it pays for and the attempt.
Orders == Holds \X Attempts

SlotStatus == {"available", "held", "booked", "cancelled"}
HoldStatus == {"none", "active", "consumed", "released", "expired"}
HoldRow == [status : HoldStatus, slot : Slots \union {None}, expires : 0 .. MaxNow + Ttl]
SessRow == [status : {"none", "live", "cancelled"}, slot : Slots \union {None},
            version : 0 .. MaxMoves + 1]

NoHold == [status |-> "none", slot |-> None, expires |-> 0]
NoSess == [status |-> "none", slot |-> None, version |-> 0]
Nothing == [x \in {} |-> None]

Idle == [op |-> "idle", pc |-> "idle", at |-> 0, slot |-> None, hold |-> None,
         order |-> None, scope |-> {}, seen |-> {}, ver |-> 0, named |-> 0, from |-> None,
         wh |-> Nothing, ws |-> Nothing, wx |-> Nothing]

Init == /\ now = 0
        /\ slot = [s \in Slots |-> "available"]
        /\ hold = [h \in Holds |-> NoHold]
        /\ sess = [o \in Orders |-> NoSess]
        /\ tx = [p \in Procs |-> Idle]
        /\ unread = {}

-----------------------------------------------------------------------------
(* The READ COMMITTED database.                                            *)

\* f with the values of g where g has one: a table under pending writes.
Over(f, g) == [x \in DOMAIN f |-> IF x \in DOMAIN g THEN g[x] ELSE f[x]]

\* The rows transaction p sees: committed ones under its own writes.
SlotSeen(p) == Over(slot, tx[p].ws)
HoldSeen(p) == Over(hold, tx[p].wh)
SessSeen(p) == Over(sess, tx[p].wx)

\* No other open transaction has written one of these rows.
SlotsUnlocked(p, S) == \A q \in Procs \ {p} : DOMAIN tx[q].ws \intersect S = {}
HoldsUnlocked(p, H) == \A q \in Procs \ {p} : DOMAIN tx[q].wh \intersect H = {}
SessUnlocked(p, o) == \A q \in Procs \ {p} : o \notin DOMAIN tx[q].wx

Put(f, X, v) == [x \in DOMAIN f \union X |-> IF x \in X THEN v ELSE f[x]]

Goto(p, t) == /\ tx' = [tx EXCEPT ![p] = t]
              /\ UNCHANGED <<now, slot, hold, sess, unread>>
Rollback(p) == Goto(p, Idle)

\* The rows an UPDATE ... WHERE id IN (...) AND status = ... hits.
SlotsHit(p, S, old) == {s \in S : SlotSeen(p)[s] = old}
HoldsHit(p, H) == {h \in H : HoldSeen(p)[h].status = "active"}

Commit(p) ==
  /\ tx[p].pc = "commit"
  /\ slot' = SlotSeen(p)
  /\ hold' = HoldSeen(p)
  /\ sess' = SessSeen(p)
  /\ unread' = IF tx[p].named = tx[p].ver THEN unread ELSE unread \union {tx[p].order}
  /\ tx' = [tx EXCEPT ![p] = Idle]
  /\ UNCHANGED now

\* The connection or the worker dies: PostgreSQL drops the transaction.
Crash(p) == tx[p].pc # "idle" /\ Rollback(p)

Begin(p, t) == tx[p].pc = "idle" /\ Goto(p, [t EXCEPT !.at = now])

-----------------------------------------------------------------------------
(* Transactions: the reads each handler starts with.                       *)

\* expire_holds: the sweeper looks at every slot.
BeginSweep(p) == Begin(p, [Idle EXCEPT !.op = "sweep", !.pc = "select", !.scope = Slots])

\* create_hold: no replay of this key; self-heal the requested slot first.
BeginCreate(p, s) ==
  Begin(p, [Idle EXCEPT !.op = "create", !.pc = "select", !.slot = s, !.scope = {s}])

\* release_hold: a hold that is not active is returned as it is.
BeginRelease(p, h) ==
  /\ hold[h].status = "active"
  /\ Begin(p, [Idle EXCEPT !.op = "release", !.pc = "release", !.hold = h, !.seen = {h}])

\* create_from_paid_hold for a verified paid event of order o: no session on
\* the hold's slot, hold active, TTL not elapsed.
BeginConsume(p, o) ==
  LET h == o[1] IN
  /\ hold[h].status = "active"
  /\ hold[h].expires > now
  /\ \A x \in Orders : sess[x].slot # hold[h].slot
  /\ Begin(p, [Idle EXCEPT !.op = "consume", !.pc = "consume", !.hold = h,
                           !.order = o, !.slot = hold[h].slot])

\* reschedule: reads the session (version and current slot) without a lock.
\* Its client may name any version; one below the version read matches nothing.
BeginReschedule(p, o, s) ==
  /\ sess[o].status = "live"
  /\ s # sess[o].slot
  /\ \E v \in sess[o].version .. MaxMoves :
       Begin(p, [Idle EXCEPT !.op = "reschedule", !.pc = "select", !.order = o, !.slot = s,
                             !.scope = {s}, !.ver = sess[o].version, !.named = v,
                             !.from = sess[o].slot])

\* cancel: reads the session without a lock.
BeginCancel(p, o) ==
  /\ sess[o].status = "live"
  /\ \E v \in sess[o].version .. MaxMoves :
       Begin(p, [Idle EXCEPT !.op = "cancel", !.pc = "version", !.order = o,
                             !.ver = sess[o].version, !.named = v, !.from = sess[o].slot])

-----------------------------------------------------------------------------
(* _expire_active_holds: SELECT the stale holds, UPDATE them, UPDATE their *)
(* slots.  The ids come from the SELECT; the second UPDATE does not ask    *)
(* how many rows the first one hit.                                        *)

AfterHeal(op) == CASE op = "create" -> "insert"
                   [] op = "reschedule" -> "book"
                   [] OTHER -> "commit"

SelectStale(p) ==
  /\ tx[p].pc = "select"
  /\ LET stale == {h \in Holds : /\ hold[h].status = "active"
                                 /\ hold[h].expires <= tx[p].at
                                 /\ hold[h].slot \in tx[p].scope}
     IN Goto(p, [tx[p] EXCEPT !.seen = stale,
                              !.pc = IF stale = {} THEN AfterHeal(tx[p].op) ELSE "expire"])

\* SET status = new, active_slot_id = NULL on the seen holds still active.
CloseHolds(p, new) ==
  LET hit == HoldsHit(p, tx[p].seen)
      closed == [h \in hit |-> [HoldSeen(p)[h] EXCEPT !.status = new]]
  IN /\ HoldsUnlocked(p, hit)
     /\ Goto(p, [tx[p] EXCEPT !.wh = [h \in DOMAIN @ \union hit |->
                                        IF h \in hit THEN closed[h] ELSE @[h]],
                              !.pc = "free"])

ExpireHolds(p) == tx[p].pc = "expire" /\ CloseHolds(p, "expired")
ReleaseHold(p) == tx[p].pc = "release" /\ CloseHolds(p, "released")

\* The slots of every seen hold, if held, become available.
FreeSlotsForgotten(p) ==
  tx[p].pc = "free" /\ Goto(p, [tx[p] EXCEPT !.pc = AfterHeal(tx[p].op)])
FreeSlots(p) ==
  LET hit == SlotsHit(p, {hold[h].slot : h \in tx[p].seen}, "held") IN
  /\ tx[p].pc = "free"
  /\ SlotsUnlocked(p, hit)
  /\ Goto(p, [tx[p] EXCEPT !.ws = Put(@, hit, "available"), !.pc = AfterHeal(tx[p].op)])

-----------------------------------------------------------------------------
(* create_hold                                                             *)

\* The NOT EXISTS / EXISTS guard of the conditional INSERT.
InsertGuard(p, s) ==
  /\ \A h \in Holds : ~(HoldSeen(p)[h].status = "active" /\ HoldSeen(p)[h].slot = s)
  /\ SlotSeen(p)[s] = "available"

\* uq_booking_holds_active_slot_id makes the INSERT wait for another
\* transaction that has written the same marker; once that one has
\* committed the guard or the constraint refuses it.
MarkerUnlocked(p, s) ==
  \A q \in Procs \ {p} : \A h \in DOMAIN tx[q].wh :
     ~(tx[q].wh[h].status = "active" /\ tx[q].wh[h].slot = s)

InsertHold(p) ==
  LET s == tx[p].slot IN
  /\ tx[p].pc = "insert"
  /\ IF InsertGuard(p, s)
     THEN /\ MarkerUnlocked(p, s)
          /\ \E h \in Holds :
               /\ hold[h].status = "none"
               /\ HoldsUnlocked(p, {h})
               /\ Goto(p, [tx[p] EXCEPT
                      !.wh = Put(@, {h}, [status |-> "active", slot |-> s,
                                          expires |-> tx[p].at + Ttl]),
                      !.pc = "hold"])
     ELSE Rollback(p)                                       \* HOLD_CONFLICT

\* One conditional slot UPDATE that must hit its row, or the handler fails.
MoveSlot(p, s, old, new, next) ==
  IF SlotSeen(p)[s] = old
  THEN /\ SlotsUnlocked(p, {s})
       /\ Goto(p, [tx[p] EXCEPT !.ws = Put(@, {s}, new), !.pc = next])
  ELSE Rollback(p)

HoldSlot(p) ==
  tx[p].pc = "hold" /\ MoveSlot(p, tx[p].slot, "available", "held", "commit")

-----------------------------------------------------------------------------
(* create_from_paid_hold                                                   *)

ConsumeHold(p) ==
  LET h == tx[p].hold IN
  /\ tx[p].pc = "consume"
  /\ IF HoldsHit(p, {h}) # {}
     THEN /\ HoldsUnlocked(p, {h})
          /\ Goto(p, [tx[p] EXCEPT
                 !.wh = Put(@, {h}, [HoldSeen(p)[h] EXCEPT !.status = "consumed"]),
                 !.pc = "sell"])
     ELSE Rollback(p)                                       \* HOLD_EXPIRED

SellSlot(p) == tx[p].pc = "sell" /\ MoveSlot(p, tx[p].slot, "held", "booked", "session")

\* uq_tutoring_sessions_slot_id over committed and pending rows.
SlotUnique(p, s, o) ==
  \A x \in Orders \ {o} : /\ SessSeen(p)[x].slot # s
                          /\ \A q \in Procs : x \in DOMAIN tx[q].wx => tx[q].wx[x].slot # s

InsertSession(p) ==
  LET o == tx[p].order IN
  /\ tx[p].pc = "session"
  /\ IF SlotUnique(p, tx[p].slot, o)
     THEN Goto(p, [tx[p] EXCEPT
            !.wx = Put(@, {o}, [status |-> "live", slot |-> tx[p].slot, version |-> 1]),
            !.pc = "commit"])
     ELSE Rollback(p)                                       \* SLOT_UNAVAILABLE

-----------------------------------------------------------------------------
(* reschedule and cancel                                                   *)

BookNewSlot(p) ==
  tx[p].pc = "book" /\ MoveSlot(p, tx[p].slot, "available", "booked", "vacate")

\* The old slot, as read at the start, if still booked, is sellable again.
VacateOldSlot(p) ==
  LET hit == SlotsHit(p, {tx[p].from}, "booked") IN
  /\ tx[p].pc = "vacate"
  /\ SlotsUnlocked(p, hit)
  /\ Goto(p, [tx[p] EXCEPT !.ws = Put(@, hit, "available"), !.pc = "version"])

\* transition: UPDATE ... WHERE id = :id AND version = :expected, which is the
\* version the client named.
VersionIgnored(p, o) == TRUE
VersionMatches(p, o) == SessSeen(p)[o].version = tx[p].named

Transition(p) ==
  LET o == tx[p].order
      moving == tx[p].op = "reschedule"
      row == [status |-> IF moving THEN "live" ELSE "cancelled",
              slot |-> IF moving THEN tx[p].slot ELSE SessSeen(p)[o].slot,
              version |-> tx[p].named + 1]
  IN /\ tx[p].pc = "version"
     /\ IF VersionMatches(p, o) /\ (moving => SlotUnique(p, tx[p].slot, o))
        THEN /\ SessUnlocked(p, o)
             /\ Goto(p, [tx[p] EXCEPT !.wx = Put(@, {o}, row),
                                      !.pc = IF moving THEN "commit" ELSE "retire"])
        ELSE Rollback(p)                                    \* SESSION_STALE_VERSION

\* cancel retires the slot of the row it has just refreshed.
RetireSlot(p) ==
  LET s == SessSeen(p)[tx[p].order].slot IN
  /\ tx[p].pc = "retire"
  /\ SlotsUnlocked(p, {s})
  /\ Goto(p, [tx[p] EXCEPT !.ws = Put(@, {s}, "cancelled"), !.pc = "commit"])

-----------------------------------------------------------------------------
Tick == now < MaxNow /\ now' = now + 1 /\ UNCHANGED <<slot, hold, sess, tx, unread>>

Handler(p) ==
  \/ BeginSweep(p)
  \/ \E s \in Slots : BeginCreate(p, s)
  \/ \E h \in Holds : BeginRelease(p, h)
  \/ \E o \in Orders : BeginConsume(p, o) \/ BeginCancel(p, o)
  \/ \E o \in Orders, s \in Slots : BeginReschedule(p, o, s)

Statement(p) ==
  \/ SelectStale(p) \/ ExpireHolds(p) \/ ReleaseHold(p) \/ FreeSlots(p)
  \/ InsertHold(p) \/ HoldSlot(p)
  \/ ConsumeHold(p) \/ SellSlot(p) \/ InsertSession(p)
  \/ BookNewSlot(p) \/ VacateOldSlot(p) \/ Transition(p) \/ RetireSlot(p)

Next == Tick \/ \E p \in Procs : Handler(p) \/ Statement(p) \/ Commit(p) \/ Crash(p)

Spec == Init /\ [][Next]_vars

-----------------------------------------------------------------------------
(* Properties                                                              *)

LiveOn(s) == {o \in Orders : sess[o].status = "live" /\ sess[o].slot = s}
ActiveOn(s) == {h \in Holds : hold[h].status = "active" /\ hold[h].slot = s}
SoldFrom(h) == {o \in Orders : o[1] = h /\ sess[o].status # "none"}

\* The committed rows have the shape of the schema.
TypeOK == /\ now \in 0 .. MaxNow
          /\ slot \in [Slots -> SlotStatus]
          /\ hold \in [Holds -> HoldRow]
          /\ sess \in [Orders -> SessRow]
          /\ unread \subseteq Orders

\* However creations, sweeps and payments interleave, two students never hold
\* the same slot at once (booking.py, layers 1 and 2 of the module docstring).
OneActiveHoldPerSlot == \A s \in Slots : Cardinality(ActiveOn(s)) <= 1

\* A slot is never left 'held' with no active hold behind it: nothing would
\* ever free it, since only closing an active hold does.
HeldSlotHasHold == \A s \in Slots : slot[s] = "held" => ActiveOn(s) # {}

\* Two live sessions never stand on one slot.  And while every move and every
\* cancellation was made under the version its handler had read, a slot is booked
\* exactly when a live session stands on it, whatever stale reads the
\* reschedule, cancel and payment handlers worked from.
BookedSlotHasOneSession ==
  \A s \in Slots : /\ Cardinality(LiveOn(s)) <= 1
                   /\ unread = {} => (slot[s] = "booked" <=> LiveOn(s) # {})

\* A hold is consumed exactly when one of its orders was sold a session: two
\* captured orders of the same hold never both buy one.
ConsumedHoldHasOneSession ==
  \A h \in Holds : /\ hold[h].status = "consumed" <=> SoldFrom(h) # {}
                   /\ Cardinality(SoldFrom(h)) <= 1

\* A hold that was consumed, released or expired stays so: a sweep, a release
\* and a payment that all read it active still close it once.
HoldClosesOnce ==
  [][\A h \in Holds : hold[h].status \in {"consumed", "released", "expired"}
                        => hold'[h] = hold[h]]_vars

\* booking.py, module docstring, layer 3: "Hold row and slot status can never
\* disagree".  An active hold has its slot 'held'.
HoldAndSlotAgree ==
  \A h \in Holds : hold[h].status = "active" => slot[hold[h].slot] = "held"

\* sessions.py, LEGAL_TRANSITIONS: nothing follows 'cancelled'.  A reschedule
\* whose client names the version a concurrent cancellation makes revives it.
CancelledIsFinal ==
  [][\A o \in Orders : sess[o].status = "cancelled" => sess'[o].status = "cancelled"]_vars

\* The slot sale the tables implement: a slot is owned by the order of the
\* live session on it, and retired once it is 'cancelled'.
Sale == INSTANCE SlotSale WITH
          owners <- [s \in Slots |-> LiveOn(s)],
          retired <- {s \in Slots : slot[s] = "cancelled"},
          sold <- {o \in Orders : sess[o].status # "none"}

\* Until a session is changed under a version its handler had not read, every
\* commit of the statement-level system is a sale, a move, a retirement or
\* nothing at all of SlotSale.
ImplementsSlotSale == Sale!SaleInit /\ [][unread' # {} \/ Sale!SaleNext]_(Sale!saleVars)
=============================================================================
