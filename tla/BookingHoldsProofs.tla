------------------------- MODULE BookingHoldsProofs -------------------------
(* Slot holds for any number of slots, holds, payment attempts and          *)
(* transactions, any TTL and any clock.                                     *)
EXTENDS BookingHolds, FiniteSetTheorems, TLAPS

Ops == {"idle", "sweep", "create", "release", "consume", "reschedule", "cancel"}
Pcs == {"idle", "select", "expire", "free", "release", "insert", "hold", "consume", "sell",
        "session", "book", "vacate", "version", "retire", "commit"}
Closed == {"consumed", "released", "expired"}

TxShape(t) ==
  t = [op |-> t.op, pc |-> t.pc, at |-> t.at, slot |-> t.slot, hold |-> t.hold, order |-> t.order,
       scope |-> t.scope, seen |-> t.seen, ver |-> t.ver, named |-> t.named, from |-> t.from,
       wh |-> t.wh, ws |-> t.ws, wx |-> t.wx]

\* What a transaction is in the middle of, and what it has read.
TxStage(t) ==
  /\ t.op \in Ops /\ t.pc \in Pcs
  /\ t.at \in 0 .. now
  /\ t.pc = "idle" => t = Idle
  /\ t.op = "idle" => t.pc = "idle"
  /\ t.op = "sweep" => t.pc \in {"select", "expire", "free", "commit"}
  /\ t.op = "create" => t.pc \in {"select", "expire", "free", "insert", "hold", "commit"}
  /\ t.op = "release" => t.pc \in {"release", "free", "commit"}
  /\ t.op = "consume" => t.pc \in {"consume", "sell", "session", "commit"}
  /\ t.op = "reschedule" => t.pc \in {"select", "expire", "free", "book", "vacate", "version", "commit"}
  /\ t.op = "cancel" => t.pc \in {"version", "retire", "commit"}
  /\ t.scope \subseteq Slots
  /\ \A h \in t.seen : h \in Holds /\ hold[h].status # "none"
  /\ t.op \notin {"reschedule", "cancel"} => t.named = t.ver
  /\ t.op \in {"create", "consume", "reschedule"} => t.slot \in Slots
  /\ t.op = "consume" => /\ t.hold \in Holds /\ t.order \in Orders /\ t.order[1] = t.hold
                         /\ hold[t.hold].status # "none" /\ hold[t.hold].slot = t.slot
  /\ t.op = "reschedule" => t.slot # t.from
  /\ t.op \in {"reschedule", "cancel"} =>
       /\ t.order \in Orders /\ t.from \in Slots /\ t.ver \in 0 .. MaxMoves
       /\ t.named \in 0 .. MaxMoves
       /\ sess[t.order].status # "none" /\ t.ver <= sess[t.order].version
       /\ sess[t.order].version = t.ver =>
            sess[t.order].status = "live" /\ sess[t.order].slot = t.from

\* Its pending holds: one it inserts, and active ones it closes.
TxHolds(t) ==
  /\ DOMAIN t.wh \subseteq Holds
  /\ \A h \in DOMAIN t.wh :
       /\ t.wh[h] \in HoldRow /\ t.wh[h].slot \in Slots
       /\ \/ /\ hold[h].status = "active" /\ t.wh[h].status \in Closed
             /\ t.wh[h].slot = hold[h].slot
          \/ /\ hold[h].status = "none" /\ t.wh[h].status = "active"
             /\ t.op = "create" /\ t.pc \in {"hold", "commit"} /\ t.wh[h].slot = t.slot
       /\ t.wh[h].status = "consumed" => t.op = "consume"
  /\ t.pc \in {"select", "expire", "release", "consume"} => DOMAIN t.wh = {}
  /\ t.pc = "free" => DOMAIN t.wh \subseteq t.seen
  /\ t.op = "cancel" => DOMAIN t.wh = {}
  /\ t.op = "create" /\ t.pc = "hold" => \E g \in DOMAIN t.wh : t.wh[g].status = "active"
  /\ t.op = "consume" /\ t.pc # "consume" =>
       DOMAIN t.wh = {t.hold} /\ t.wh[t.hold].status = "consumed"

\* It inserts one, on a slot whose active hold, if any, it closes itself.
TxInserts(t) ==
  \A g \in DOMAIN t.wh : t.wh[g].status = "active" =>
    /\ \A h \in Holds : hold[h].status = "active" /\ hold[h].slot = t.wh[g].slot => h \in DOMAIN t.wh
    /\ \A h \in DOMAIN t.wh : t.wh[h].status = "active" => h = g

\* Its pending slots, and what the slot was before.
TxSlots(t) ==
  /\ DOMAIN t.ws \subseteq Slots
  /\ \A s \in DOMAIN t.ws :
       \/ /\ t.ws[s] = "held" /\ slot[s] \in {"available", "held"}
          /\ \E g \in DOMAIN t.wh : t.wh[g].status = "active" /\ t.wh[g].slot = s
       \/ /\ t.ws[s] = "booked" /\ slot[s] \in {"available", "held"}
          /\ t.op \in {"consume", "reschedule"} /\ s = t.slot
          /\ t.pc \in {"session", "vacate", "version", "commit"}
       \/ t.ws[s] = "available" /\ slot[s] = "held"
       \/ /\ t.ws[s] = "available" /\ slot[s] = "booked"
          /\ t.op = "reschedule" /\ t.pc \in {"version", "commit"} /\ s = t.from
       \/ /\ t.ws[s] = "cancelled" /\ t.op = "cancel" /\ t.pc = "commit"
          /\ s = sess[t.order].slot
  /\ t.pc \in {"select", "expire", "release", "free", "consume", "sell", "retire"} => DOMAIN t.ws = {}
  /\ t.op = "cancel" /\ t.pc = "version" => DOMAIN t.ws = {}
  /\ t.op = "consume" /\ t.pc \in {"session", "commit"} => DOMAIN t.ws = {t.slot} /\ t.ws[t.slot] = "booked"
  /\ t.op = "reschedule" /\ t.pc \in {"vacate", "version", "commit"} =>
       t.slot \in DOMAIN t.ws /\ t.ws[t.slot] = "booked"
  /\ t.op = "reschedule" /\ t.pc \in {"version", "commit"} /\ sess[t.order].version = t.ver
     /\ unread = {} => t.from \in DOMAIN t.ws /\ t.ws[t.from] = "available"
  /\ t.op = "cancel" /\ t.pc = "commit" =>
       DOMAIN t.ws = {sess[t.order].slot} /\ t.ws[sess[t.order].slot] = "cancelled"

\* A slot whose hold it closes is not left held.
TxFrees(t) ==
  t.pc \notin {"free", "sell"} =>
    \A h \in DOMAIN t.wh :
      hold[h].status = "active" /\ Over(slot, t.ws)[hold[h].slot] = "held" =>
        \E g \in DOMAIN t.wh : t.wh[g].status = "active" /\ t.wh[g].slot = hold[h].slot

\* Its pending session.
TxSession(t) ==
  /\ DOMAIN t.wx # {} => t.op \in {"consume", "reschedule", "cancel"} /\ t.pc \in {"retire", "commit"}
  /\ t.op \in {"consume", "reschedule", "cancel"} /\ t.pc \in {"retire", "commit"} =>
       DOMAIN t.wx = {t.order}
  /\ t.op = "consume" /\ t.pc = "commit" =>
       t.wx[t.order] = [status |-> "live", slot |-> t.slot, version |-> 1]
  /\ t.op = "reschedule" /\ t.pc = "commit" =>
       /\ t.wx[t.order] = [status |-> "live", slot |-> t.slot, version |-> t.named + 1]
       /\ sess[t.order].version = t.named
  /\ t.op = "cancel" /\ t.pc \in {"retire", "commit"} =>
       /\ t.wx[t.order] = [status |-> "cancelled", slot |-> sess[t.order].slot,
                           version |-> t.named + 1]
       /\ sess[t.order].version = t.named
  /\ \A o \in DOMAIN t.wx : \A x \in Orders \ {o} :
       sess[x].status # "none" => sess[x].slot # t.wx[o].slot

TxOK(t) == /\ TxShape(t) /\ TxStage(t) /\ TxHolds(t) /\ TxInserts(t) /\ TxSlots(t) /\ TxFrees(t)
           /\ TxSession(t)

\* Two open transactions have no row in common, nor do they hold one slot.
Apart(t, u) ==
  /\ DOMAIN t.wh \intersect DOMAIN u.wh = {}
  /\ DOMAIN t.ws \intersect DOMAIN u.ws = {}
  /\ DOMAIN t.wx \intersect DOMAIN u.wx = {}
  /\ \A g \in DOMAIN t.wh, h \in DOMAIN u.wh :
       ~ (t.wh[g].status = "active" /\ u.wh[h].status = "active" /\ t.wh[g].slot = u.wh[h].slot)
  /\ \A o \in DOMAIN t.wx, x \in DOMAIN u.wx : t.wx[o].slot # u.wx[x].slot

Transactions == /\ tx = [p \in Procs |-> tx[p]]
                /\ \A p \in Procs : TxOK(tx[p])
                /\ \A p, q \in Procs : p # q => Apart(tx[p], tx[q])

\* The committed rows agree.
Linked == /\ \A h \in Holds : hold[h].status # "none" => hold[h].slot \in Slots
          /\ \A o \in Orders : sess[o].status # "none" => sess[o].slot \in Slots
OneHold ==
  \A g, h \in Holds :
    hold[g].status = "active" /\ hold[h].status = "active" /\ hold[g].slot = hold[h].slot => g = h
BookedIsLive ==
  \A s \in Slots : slot[s] = "booked" <=> \E o \in Orders : sess[o].status = "live" /\ sess[o].slot = s
OwnSlot ==
  \A o, x \in Orders : sess[o].status # "none" /\ sess[x].status # "none" /\ sess[o].slot = sess[x].slot
                        => o = x
ConsumedIsSold ==
  /\ \A h \in Holds : hold[h].status = "consumed" <=> \E o \in Orders : o[1] = h /\ sess[o].status # "none"
  /\ \A o, x \in Orders :
       sess[o].status # "none" /\ sess[x].status # "none" /\ o[1] = x[1] => o = x

HoldsInv == /\ TypeOK /\ Transactions /\ Linked /\ OneHold /\ HeldSlotHasHold
            /\ ConsumedIsSold /\ OwnSlot /\ (unread = {} => BookedIsLive)

-----------------------------------------------------------------------------
(* Records and tables.                                                      *)

\* The rows under pending writes.
LEMMA OverFacts ==
  ASSUME NEW f, NEW g, NEW D, D = DOMAIN f
  PROVE  /\ DOMAIN Over(f, g) = D
         /\ \A x \in D : Over(f, g)[x] = IF x \in DOMAIN g THEN g[x] ELSE f[x]
  BY DEF Over

LEMMA PutFacts ==
  ASSUME NEW f, NEW X, NEW v
  PROVE  /\ DOMAIN Put(f, X, v) = DOMAIN f \union X
         /\ \A x \in X : Put(f, X, v)[x] = v
         /\ \A x \in DOMAIN f \ X : Put(f, X, v)[x] = f[x]
  BY DEF Put

LEMMA IdleFacts ==
  /\ TxShape(Idle)
  /\ Idle.op = "idle" /\ Idle.pc = "idle" /\ Idle.at = 0
  /\ Idle.scope = {} /\ Idle.seen = {} /\ Idle.ver = Idle.named
  /\ DOMAIN Idle.wh = {} /\ DOMAIN Idle.ws = {} /\ DOMAIN Idle.wx = {}
  BY DEF Idle, Nothing, TxShape

\* A transaction that has written nothing is apart from every other.
LEMMA EmptyApart ==
  ASSUME NEW t, DOMAIN t.wh = {}, DOMAIN t.ws = {}, DOMAIN t.wx = {}, NEW u
  PROVE  Apart(t, u) /\ Apart(u, t)
  BY DEF Apart

LEMMA ApartBoth ==
  ASSUME NEW t, NEW u, Apart(t, u)
  PROVE  Apart(u, t)
  BY DEF Apart

LEMMA IdleOK ==
  ASSUME now \in Nat
  PROVE  TxOK(Idle)
<1>1. TxStage(Idle)
  BY IdleFacts DEF TxStage, Ops, Pcs
<1>2. TxHolds(Idle) /\ TxInserts(Idle) /\ TxFrees(Idle)
  BY IdleFacts DEF TxHolds, TxInserts, TxFrees
<1>3. TxSlots(Idle) /\ TxSession(Idle)
  BY IdleFacts DEF TxSlots, TxSession
<1> QED BY <1>1, <1>2, <1>3, IdleFacts DEF TxOK

-----------------------------------------------------------------------------
(* A step of one transaction that commits nothing.                          *)

LEMMA SameTables ==
  ASSUME NEW t, TxOK(t), UNCHANGED <<now, slot, hold, sess, unread>>
  PROVE  TxOK(t)'
<1>1. TxShape(t)' /\ TxStage(t)' /\ TxHolds(t)'
  BY DEF TxOK, TxShape, TxStage, TxHolds
<1>2. TxInserts(t)' /\ TxSlots(t)' /\ TxFrees(t)' /\ TxSession(t)'
  BY DEF TxOK, TxInserts, TxSlots, TxFrees, TxSession, Over
<1> QED BY <1>1, <1>2 DEF TxOK

LEMMA LocalStep ==
  ASSUME HoldsInv, NEW p \in Procs, NEW u, Goto(p, u), TxOK(u),
         \A q \in Procs \ {p} : Apart(u, tx[q])
  PROVE  HoldsInv'
<1>1. /\ tx' = [tx EXCEPT ![p] = u] /\ UNCHANGED <<now, slot, hold, sess, unread>>
      /\ tx = [q \in Procs |-> tx[q]]
  BY DEF Goto, HoldsInv, Transactions
<1>2. \A q \in Procs : tx'[q] = IF q = p THEN u ELSE tx[q]
  BY <1>1
<1>3. tx' = [q \in Procs |-> tx'[q]]
  BY <1>1
<1>4. ASSUME NEW q \in Procs
      PROVE  TxOK(tx[q])'
  <2>1. PICK w : w = tx'[q]
    OBVIOUS
  <2>2. TxOK(w)
    BY <1>2, <2>1 DEF HoldsInv, Transactions
  <2>3. TxOK(w)'
    BY <2>2, <1>1, SameTables
  <2> QED BY <2>1, <2>3
<1>5. ASSUME NEW q \in Procs, NEW r \in Procs, q # r
      PROVE  Apart(tx[q], tx[r])'
  <2>1. Apart(tx'[q], tx'[r])
    BY <1>2, <1>5, ApartBoth DEF HoldsInv, Transactions
  <2> QED BY <2>1 DEF Apart
<1>6. Transactions'
  BY <1>3, <1>4, <1>5 DEF Transactions
<1>7. TypeOK' /\ Linked' /\ OneHold' /\ HeldSlotHasHold' /\ OwnSlot' /\ ConsumedIsSold'
      /\ (unread = {} => BookedIsLive)'
  BY <1>1 DEF HoldsInv, TypeOK, Linked, OneHold, HeldSlotHasHold, ActiveOn, BookedIsLive,
              ConsumedIsSold, OwnSlot
<1> QED BY <1>6, <1>7 DEF HoldsInv

LEMMA Typed ==
  ASSUME HoldsInv
  PROVE  /\ now \in Nat /\ now \in 0 .. MaxNow
         /\ slot \in [Slots -> SlotStatus]
         /\ hold \in [Holds -> HoldRow]
         /\ sess \in [Orders -> SessRow]
         /\ \A p \in Procs : TxOK(tx[p])
         /\ Ttl \in Nat /\ MaxNow \in Nat /\ MaxMoves \in Nat
  BY HoldsAssumption DEF HoldsInv, TypeOK, Transactions

LEMMA RollbackSafe ==
  ASSUME HoldsInv, NEW p \in Procs, Rollback(p)
  PROVE  HoldsInv'
<1>1. TxOK(Idle)
  BY Typed, IdleOK
<1>2. \A q \in Procs \ {p} : Apart(Idle, tx[q])
  BY IdleFacts, EmptyApart
<1> QED BY <1>1, <1>2, LocalStep DEF Rollback

LEMMA HoldsInitially == Init => HoldsInv
<1> SUFFICES ASSUME Init PROVE HoldsInv
  OBVIOUS
<1>1. now = 0 /\ now \in Nat /\ MaxNow \in Nat /\ MaxMoves \in Nat /\ Ttl \in Nat
  BY HoldsAssumption DEF Init
<1>2. TypeOK
  BY <1>1 DEF Init, TypeOK, SlotStatus, HoldRow, HoldStatus, SessRow, NoHold, NoSess
<1>3. Transactions
  <2>1. TxOK(Idle)
    BY <1>1, IdleOK
  <2>2. Apart(Idle, Idle)
    BY IdleFacts, EmptyApart
  <2> QED BY <2>1, <2>2 DEF Transactions, Init
<1>4. Linked /\ OneHold /\ HeldSlotHasHold /\ BookedIsLive /\ ConsumedIsSold /\ OwnSlot
  BY DEF Init, Linked, OneHold, HeldSlotHasHold, BookedIsLive, ConsumedIsSold, OwnSlot, NoHold,
         NoSess, Orders
<1> QED BY <1>2, <1>3, <1>4 DEF HoldsInv

LEMMA TickSafe ==
  ASSUME HoldsInv, Tick
  PROVE  HoldsInv'
<1>1. /\ now' = now + 1 /\ now' \in 0 .. MaxNow /\ UNCHANGED <<slot, hold, sess, tx, unread>>
      /\ now \in Nat
  BY Typed DEF Tick
<1>2. ASSUME NEW t, TxOK(t) PROVE TxOK(t)'
  <2>1. TxShape(t)' /\ TxHolds(t)' /\ TxInserts(t)'
    BY <1>1, <1>2 DEF TxOK, TxShape, TxHolds, TxInserts
  <2>4. TxSlots(t)' /\ TxFrees(t)' /\ TxSession(t)'
    BY <1>1, <1>2 DEF TxOK, TxSlots, TxFrees, TxSession, Over
  <2>2. t.at \in 0 .. now'
    BY <1>1, <1>2 DEF TxOK, TxStage
  <2>3. TxStage(t)'
    BY <1>1, <1>2, <2>2 DEF TxOK, TxStage
  <2> QED BY <2>1, <2>3, <2>4 DEF TxOK
<1>3. ASSUME NEW q \in Procs
      PROVE  TxOK(tx[q])'
  <2>1. PICK w : w = tx[q]
    OBVIOUS
  <2>2. TxOK(w)'
    BY <1>2, <2>1 DEF HoldsInv, Transactions
  <2> QED BY <1>1, <2>1, <2>2
<1>4. ASSUME NEW q \in Procs, NEW r \in Procs, q # r
      PROVE  Apart(tx[q], tx[r])'
  BY <1>1, <1>4 DEF HoldsInv, Transactions, Apart
<1>5. Transactions'
  BY <1>1, <1>3, <1>4 DEF Transactions, HoldsInv
<1>6. TypeOK' /\ Linked' /\ OneHold' /\ HeldSlotHasHold' /\ OwnSlot' /\ ConsumedIsSold'
      /\ (unread = {} => BookedIsLive)'
  BY <1>1 DEF HoldsInv, TypeOK, Linked, OneHold, HeldSlotHasHold, ActiveOn, BookedIsLive,
              ConsumedIsSold, OwnSlot
<1> QED BY <1>5, <1>6 DEF HoldsInv

-----------------------------------------------------------------------------
(* The six transactions open.                                               *)

\* A transaction that has read and written nothing but its arguments.
Fresh(t) == /\ TxShape(t) /\ t.seen \subseteq Holds
            /\ DOMAIN t.wh = {} /\ DOMAIN t.ws = {} /\ DOMAIN t.wx = {}

LEMMA FreshSafe ==
  ASSUME HoldsInv, NEW p \in Procs, NEW u, Goto(p, u), Fresh(u), TxStage(u),
         u.pc \in {"select", "release", "consume"} \/ (u.op = "cancel" /\ u.pc = "version")
  PROVE  HoldsInv'
<1>1. TxHolds(u) /\ TxInserts(u) /\ TxFrees(u)
  BY DEF Fresh, TxHolds, TxInserts, TxFrees, TxStage
<1>2. TxSlots(u) /\ TxSession(u)
  BY DEF Fresh, TxSlots, TxSession, TxStage
<1>3. TxOK(u)
  BY <1>1, <1>2 DEF TxOK, Fresh
<1>4. \A q \in Procs \ {p} : Apart(u, tx[q])
  BY EmptyApart DEF Fresh
<1> QED BY <1>3, <1>4, LocalStep

LEMMA BeginSweepSafe ==
  ASSUME HoldsInv, NEW p \in Procs, BeginSweep(p)
  PROVE  HoldsInv'
<1>1. PICK a : a = [Idle EXCEPT !.op = "sweep", !.pc = "select"]
  OBVIOUS
<1>2. /\ Fresh(a) /\ a.named = a.ver
      /\ a.op = "sweep" /\ a.pc = "select" /\ a.seen = {} /\ a.scope = {}
  BY <1>1, IdleFacts DEF Fresh, TxShape
<1>3. PICK b : b = [a EXCEPT !.scope = Slots, !.at = now]
  OBVIOUS
<1>4. /\ Fresh(b) /\ b.named = b.ver
      /\ b.op = "sweep" /\ b.pc = "select" /\ b.scope = Slots /\ b.at = now
      /\ b.seen = {}
  BY <1>3, <1>2 DEF Fresh, TxShape
<1>5. Goto(p, b)
  BY <1>1, <1>3 DEF BeginSweep, Begin
<1>6. TxStage(b)
  BY <1>4, <1>5, Typed DEF TxStage, Ops, Pcs
<1> QED BY <1>4, <1>5, <1>6, FreshSafe

LEMMA BeginCreateSafe ==
  ASSUME HoldsInv, NEW p \in Procs, NEW s \in Slots, BeginCreate(p, s)
  PROVE  HoldsInv'
<1>1. PICK a : a = [Idle EXCEPT !.op = "create", !.pc = "select"]
  OBVIOUS
<1>2. /\ Fresh(a) /\ a.named = a.ver
      /\ a.op = "create" /\ a.pc = "select" /\ a.seen = {} /\ a.scope = {}
  BY <1>1, IdleFacts DEF Fresh, TxShape
<1>3. PICK b : b = [a EXCEPT !.slot = s, !.scope = {s}]
  OBVIOUS
<1>4. /\ Fresh(b) /\ b.named = b.ver
      /\ b.op = "create" /\ b.pc = "select" /\ b.slot = s /\ b.scope = {s}
      /\ b.seen = {}
  BY <1>3, <1>2 DEF Fresh, TxShape
<1>5. PICK c : c = [b EXCEPT !.at = now]
  OBVIOUS
<1>6. /\ Fresh(c) /\ c.named = c.ver
      /\ c.op = "create" /\ c.pc = "select" /\ c.slot = s /\ c.scope = {s}
      /\ c.at = now /\ c.seen = {}
  BY <1>5, <1>4 DEF Fresh, TxShape
<1>7. Goto(p, c)
  BY <1>1, <1>3, <1>5 DEF BeginCreate, Begin
<1>8. TxStage(c)
  BY <1>6, <1>7, Typed DEF TxStage, Ops, Pcs
<1> QED BY <1>6, <1>7, <1>8, FreshSafe

LEMMA BeginReleaseSafe ==
  ASSUME HoldsInv, NEW p \in Procs, NEW h \in Holds, BeginRelease(p, h)
  PROVE  HoldsInv'
<1>1. PICK a : a = [Idle EXCEPT !.op = "release", !.pc = "release"]
  OBVIOUS
<1>2. /\ Fresh(a) /\ a.named = a.ver
      /\ a.op = "release" /\ a.pc = "release" /\ a.seen = {} /\ a.scope = {}
  BY <1>1, IdleFacts DEF Fresh, TxShape
<1>3. PICK b : b = [a EXCEPT !.hold = h, !.seen = {h}]
  OBVIOUS
<1>4. /\ Fresh(b) /\ b.named = b.ver
      /\ b.op = "release" /\ b.pc = "release" /\ b.hold = h /\ b.seen = {h}
      /\ b.scope = {}
  BY <1>3, <1>2 DEF Fresh, TxShape
<1>5. PICK c : c = [b EXCEPT !.at = now]
  OBVIOUS
<1>6. /\ Fresh(c) /\ c.named = c.ver
      /\ c.op = "release" /\ c.pc = "release" /\ c.hold = h /\ c.seen = {h}
      /\ c.at = now /\ c.scope = {}
  BY <1>5, <1>4 DEF Fresh, TxShape
<1>7. Goto(p, c) /\ hold[h].status = "active"
  BY <1>1, <1>3, <1>5 DEF BeginRelease, Begin
<1>8. TxStage(c)
  BY <1>6, <1>7, Typed DEF TxStage, Ops, Pcs
<1> QED BY <1>6, <1>7, <1>8, FreshSafe

LEMMA BeginConsumeSafe ==
  ASSUME HoldsInv, NEW p \in Procs, NEW o \in Orders, BeginConsume(p, o)
  PROVE  HoldsInv'
<1>1. PICK a : a = [Idle EXCEPT !.op = "consume", !.pc = "consume"]
  OBVIOUS
<1>2. /\ Fresh(a) /\ a.named = a.ver
      /\ a.op = "consume" /\ a.pc = "consume" /\ a.seen = {} /\ a.scope = {}
  BY <1>1, IdleFacts DEF Fresh, TxShape
<1>3. PICK b : b = [a EXCEPT !.hold = o[1], !.order = o]
  OBVIOUS
<1>4. /\ Fresh(b) /\ b.named = b.ver
      /\ b.op = "consume" /\ b.pc = "consume" /\ b.hold = o[1] /\ b.order = o
      /\ b.seen = {} /\ b.scope = {}
  BY <1>3, <1>2 DEF Fresh, TxShape
<1>5. PICK c : c = [b EXCEPT !.slot = hold[o[1]].slot, !.at = now]
  OBVIOUS
<1>6. /\ Fresh(c) /\ c.named = c.ver
      /\ c.op = "consume" /\ c.pc = "consume" /\ c.hold = o[1] /\ c.order = o
      /\ c.slot = hold[o[1]].slot /\ c.at = now /\ c.seen = {} /\ c.scope = {}
  BY <1>5, <1>4 DEF Fresh, TxShape
<1>7. Goto(p, c) /\ hold[o[1]].status = "active" /\ o[1] \in Holds
  BY <1>1, <1>3, <1>5 DEF BeginConsume, Begin, Orders
<1>8. hold[o[1]].slot \in Slots
  BY <1>7 DEF HoldsInv, Linked
<1>9. TxStage(c)
  BY <1>6, <1>7, <1>8, Typed DEF TxStage, Ops, Pcs
<1> QED BY <1>6, <1>7, <1>9, FreshSafe

LEMMA BeginRescheduleSafe ==
  ASSUME HoldsInv, NEW p \in Procs, NEW o \in Orders, NEW s \in Slots, BeginReschedule(p, o, s)
  PROVE  HoldsInv'
<1>0. /\ sess[o].status = "live" /\ s # sess[o].slot
      /\ \E v \in sess[o].version .. MaxMoves :
           Begin(p, [Idle EXCEPT !.op = "reschedule", !.pc = "select", !.order = o, !.slot = s,
                                 !.scope = {s}, !.ver = sess[o].version, !.named = v,
                                 !.from = sess[o].slot])
  BY DEF BeginReschedule
<1>00. PICK v \in sess[o].version .. MaxMoves :
        Begin(p, [Idle EXCEPT !.op = "reschedule", !.pc = "select", !.order = o, !.slot = s,
                              !.scope = {s}, !.ver = sess[o].version, !.named = v,
                              !.from = sess[o].slot])
  BY <1>0
<1>1. PICK a : a = [Idle EXCEPT !.op = "reschedule", !.pc = "select"]
  OBVIOUS
<1>2. /\ Fresh(a)
      /\ a.op = "reschedule" /\ a.pc = "select" /\ a.seen = {} /\ a.scope = {}
  BY <1>1, IdleFacts DEF Fresh, TxShape
<1>3. PICK b : b = [a EXCEPT !.order = o, !.slot = s]
  OBVIOUS
<1>4. /\ Fresh(b)
      /\ b.op = "reschedule" /\ b.pc = "select" /\ b.order = o /\ b.slot = s
      /\ b.seen = {} /\ b.scope = {}
  BY <1>3, <1>2 DEF Fresh, TxShape
<1>5. PICK c : c = [b EXCEPT !.scope = {s}, !.ver = sess[o].version]
  OBVIOUS
<1>6. /\ Fresh(c)
      /\ c.op = "reschedule" /\ c.pc = "select" /\ c.order = o /\ c.slot = s
      /\ c.scope = {s} /\ c.ver = sess[o].version /\ c.seen = {}
  BY <1>5, <1>4 DEF Fresh, TxShape
<1>7. PICK d : d = [c EXCEPT !.named = v, !.from = sess[o].slot]
  OBVIOUS
<1>8. /\ Fresh(d)
      /\ d.op = "reschedule" /\ d.pc = "select" /\ d.order = o /\ d.slot = s
      /\ d.scope = {s} /\ d.ver = sess[o].version /\ d.named = v /\ d.from = sess[o].slot
      /\ d.seen = {}
  BY <1>7, <1>6 DEF Fresh, TxShape
<1>9. PICK e : e = [d EXCEPT !.at = now]
  OBVIOUS
<1>10. /\ Fresh(e)
       /\ e.op = "reschedule" /\ e.pc = "select" /\ e.order = o /\ e.slot = s
       /\ e.scope = {s} /\ e.ver = sess[o].version /\ e.named = v /\ e.from = sess[o].slot
       /\ e.seen = {} /\ e.at = now
  BY <1>9, <1>8 DEF Fresh, TxShape
<1>11. Goto(p, e)
  BY <1>00, <1>1, <1>3, <1>5, <1>7, <1>9 DEF Begin
<1>12. /\ sess[o].slot \in Slots /\ sess[o].version \in Nat
       /\ sess[o].version \in 0 .. MaxMoves /\ v \in 0 .. MaxMoves
  <2>1. sess[o] \in SessRow /\ sess[o].slot \in Slots
    BY <1>0, Typed DEF HoldsInv, Linked
  <2>2. sess[o].version \in 0 .. MaxMoves + 1
    BY <2>1 DEF SessRow
  <2> QED BY <2>1, <2>2, Typed
<1>13. TxStage(e)
  BY <1>0, <1>10, <1>12, Typed DEF TxStage, Ops, Pcs
<1> QED BY <1>10, <1>11, <1>13, FreshSafe

LEMMA BeginCancelSafe ==
  ASSUME HoldsInv, NEW p \in Procs, NEW o \in Orders, BeginCancel(p, o)
  PROVE  HoldsInv'
<1>0. /\ sess[o].status = "live"
      /\ \E v \in sess[o].version .. MaxMoves :
           Begin(p, [Idle EXCEPT !.op = "cancel", !.pc = "version", !.order = o,
                                 !.ver = sess[o].version, !.named = v, !.from = sess[o].slot])
  BY DEF BeginCancel
<1>00. PICK v \in sess[o].version .. MaxMoves :
        Begin(p, [Idle EXCEPT !.op = "cancel", !.pc = "version", !.order = o,
                              !.ver = sess[o].version, !.named = v, !.from = sess[o].slot])
  BY <1>0
<1>1. PICK a : a = [Idle EXCEPT !.op = "cancel", !.pc = "version"]
  OBVIOUS
<1>2. /\ Fresh(a)
      /\ a.op = "cancel" /\ a.pc = "version" /\ a.seen = {} /\ a.scope = {}
  BY <1>1, IdleFacts DEF Fresh, TxShape
<1>3. PICK b : b = [a EXCEPT !.order = o, !.ver = sess[o].version]
  OBVIOUS
<1>4. /\ Fresh(b)
      /\ b.op = "cancel" /\ b.pc = "version" /\ b.order = o /\ b.ver = sess[o].version
      /\ b.seen = {} /\ b.scope = {}
  BY <1>3, <1>2 DEF Fresh, TxShape
<1>5. PICK c : c = [b EXCEPT !.named = v, !.from = sess[o].slot]
  OBVIOUS
<1>6. /\ Fresh(c)
      /\ c.op = "cancel" /\ c.pc = "version" /\ c.order = o /\ c.ver = sess[o].version
      /\ c.named = v /\ c.from = sess[o].slot /\ c.seen = {} /\ c.scope = {}
  BY <1>5, <1>4 DEF Fresh, TxShape
<1>7. PICK d : d = [c EXCEPT !.at = now]
  OBVIOUS
<1>8. /\ Fresh(d)
      /\ d.op = "cancel" /\ d.pc = "version" /\ d.order = o /\ d.ver = sess[o].version
      /\ d.named = v /\ d.from = sess[o].slot /\ d.seen = {} /\ d.scope = {} /\ d.at = now
  BY <1>7, <1>6 DEF Fresh, TxShape
<1>9. Goto(p, d)
  BY <1>00, <1>1, <1>3, <1>5, <1>7 DEF Begin
<1>10. /\ sess[o].slot \in Slots /\ sess[o].version \in Nat
       /\ sess[o].version \in 0 .. MaxMoves /\ v \in 0 .. MaxMoves
  <2>1. sess[o] \in SessRow /\ sess[o].slot \in Slots
    BY <1>0, Typed DEF HoldsInv, Linked
  <2>2. sess[o].version \in 0 .. MaxMoves + 1
    BY <2>1 DEF SessRow
  <2> QED BY <2>1, <2>2, Typed
<1>11. TxStage(d)
  BY <1>0, <1>8, <1>10, Typed DEF TxStage, Ops, Pcs
<1> QED BY <1>8, <1>9, <1>11, FreshSafe

-----------------------------------------------------------------------------
(* _expire_active_holds: select, close, free.                               *)

\* The row each statement starts from.
LEMMA Current ==
  ASSUME HoldsInv, NEW p \in Procs
  PROVE  \E t : /\ t = tx[p] /\ TxOK(t) /\ TxShape(t) /\ TxStage(t) /\ TxHolds(t)
                /\ TxInserts(t) /\ TxSlots(t) /\ TxFrees(t) /\ TxSession(t)
                /\ \A q \in Procs \ {p} : Apart(t, tx[q])
  BY DEF HoldsInv, Transactions, TxOK

LEMMA SelectStaleSafe ==
  ASSUME HoldsInv, NEW p \in Procs, SelectStale(p)
  PROVE  HoldsInv'
<1>1. PICK t : /\ t = tx[p] /\ TxOK(t) /\ TxShape(t) /\ TxStage(t) /\ TxHolds(t)
               /\ TxInserts(t) /\ TxSlots(t) /\ TxFrees(t) /\ TxSession(t)
               /\ \A q \in Procs \ {p} : Apart(t, tx[q])
  BY Current
<1> DEFINE stale == {h \in Holds : /\ hold[h].status = "active"
                                   /\ hold[h].expires <= t.at
                                   /\ hold[h].slot \in t.scope}
           next == IF stale = {} THEN AfterHeal(t.op) ELSE "expire"
<1>2. PICK u : u = [t EXCEPT !.seen = stale, !.pc = next]
  OBVIOUS
<1>3. Goto(p, u) /\ t.pc = "select"
  BY <1>1, <1>2 DEF SelectStale
<1>4. \A h \in stale : h \in Holds /\ hold[h].status # "none"
  OBVIOUS
<1>5. next = "expire" \/ next = AfterHeal(t.op)
  OBVIOUS
<1>6. t.op \in {"sweep", "create", "reschedule"}
  BY <1>1, <1>3 DEF TxStage, Ops
<1> HIDE DEF stale, next
<1>7. /\ TxShape(u) /\ u.seen = stale /\ u.pc = next
      /\ u.op = t.op /\ u.at = t.at /\ u.slot = t.slot /\ u.hold = t.hold
      /\ u.order = t.order /\ u.scope = t.scope /\ u.ver = t.ver /\ u.named = t.named /\ u.from = t.from
      /\ u.wh = t.wh /\ u.ws = t.ws /\ u.wx = t.wx
  BY <1>1, <1>2 DEF TxShape
<1>8. /\ next \in {"expire", "insert", "book", "commit"}
      /\ t.op = "sweep" => next \in {"expire", "commit"}
      /\ t.op = "create" => next \in {"expire", "insert"}
      /\ t.op = "reschedule" => next \in {"expire", "book"}
  BY <1>5, <1>6 DEF AfterHeal
<1>9. DOMAIN u.wh = {} /\ DOMAIN u.ws = {} /\ DOMAIN u.wx = {}
  BY <1>1, <1>3, <1>7 DEF TxHolds, TxSlots, TxSession
<1>10. TxStage(u)
  BY <1>1, <1>4, <1>6, <1>7, <1>8 DEF TxStage, Ops, Pcs
<1>11. TxHolds(u) /\ TxInserts(u) /\ TxFrees(u)
  BY <1>6, <1>7, <1>8, <1>9 DEF TxHolds, TxInserts, TxFrees
<1>12. TxSlots(u) /\ TxSession(u)
  BY <1>6, <1>7, <1>8, <1>9 DEF TxSlots, TxSession
<1>13. TxOK(u)
  BY <1>7, <1>10, <1>11, <1>12 DEF TxOK
<1>14. \A q \in Procs \ {p} : Apart(u, tx[q])
  BY <1>9, EmptyApart
<1> QED BY <1>3, <1>13, <1>14, LocalStep

LEMMA CloseHoldsSafe ==
  ASSUME HoldsInv, NEW p \in Procs, NEW new \in {"expired", "released"},
         tx[p].pc \in {"expire", "release"}, CloseHolds(p, new)
  PROVE  HoldsInv'
<1>1. PICK t : /\ t = tx[p] /\ TxOK(t) /\ TxShape(t) /\ TxStage(t) /\ TxHolds(t)
               /\ TxInserts(t) /\ TxSlots(t) /\ TxFrees(t) /\ TxSession(t)
               /\ \A q \in Procs \ {p} : Apart(t, tx[q])
  BY Current
<1>2. DOMAIN t.wh = {} /\ DOMAIN t.ws = {} /\ DOMAIN t.wx = {} /\ t.pc \in {"expire", "release"}
  BY <1>1 DEF TxHolds, TxSlots, TxSession
<1>3. /\ hold \in [Holds -> HoldRow] /\ t.seen \subseteq Holds
      /\ \A h \in Holds : HoldSeen(p)[h] = hold[h]
  BY <1>1, <1>2, Typed, OverFacts DEF TxStage, HoldSeen
<1> DEFINE hit == HoldsHit(p, t.seen)
           closed == [h \in hit |-> [HoldSeen(p)[h] EXCEPT !.status = new]]
           rows == [h \in DOMAIN t.wh \union hit |-> IF h \in hit THEN closed[h] ELSE t.wh[h]]
<1>4. PICK u : u = [t EXCEPT !.wh = rows, !.pc = "free"]
  OBVIOUS
<1>5. Goto(p, u) /\ HoldsUnlocked(p, hit)
  BY <1>1, <1>4 DEF CloseHolds
<1>6. hit = {h \in t.seen : hold[h].status = "active"}
  BY <1>3 DEF HoldsHit
<1>7. /\ DOMAIN rows = hit
      /\ \A h \in hit : rows[h] = [hold[h] EXCEPT !.status = new]
  BY <1>2, <1>3, <1>6
<1> HIDE DEF hit, rows
<1>8. \A h \in hit : /\ rows[h] \in HoldRow /\ rows[h].slot = hold[h].slot
                     /\ rows[h].status = new /\ hold[h].slot \in Slots
                     /\ hold[h].status = "active" /\ h \in Holds
  BY <1>3, <1>6, <1>7 DEF HoldRow, HoldStatus, HoldsInv, Linked
<1>9. /\ TxShape(u) /\ u.wh = rows /\ u.pc = "free"
      /\ u.op = t.op /\ u.at = t.at /\ u.slot = t.slot /\ u.hold = t.hold
      /\ u.order = t.order /\ u.scope = t.scope /\ u.seen = t.seen /\ u.ver = t.ver /\ u.named = t.named
      /\ u.from = t.from /\ u.ws = t.ws /\ u.wx = t.wx
  BY <1>1, <1>4 DEF TxShape
<1>10. t.op \in {"sweep", "create", "reschedule", "release"}
  BY <1>1, <1>2 DEF TxStage, Ops
<1>11. TxStage(u)
  BY <1>1, <1>9, <1>10 DEF TxStage, Ops, Pcs
<1>12. TxHolds(u) /\ TxInserts(u) /\ TxFrees(u)
  BY <1>6, <1>7, <1>8, <1>9, <1>10 DEF TxHolds, TxInserts, TxFrees, Closed
<1>13. TxSlots(u) /\ TxSession(u)
  BY <1>2, <1>9, <1>10 DEF TxSlots, TxSession
<1>14. TxOK(u)
  BY <1>9, <1>11, <1>12, <1>13 DEF TxOK
<1>15. \A q \in Procs \ {p} : Apart(u, tx[q])
  BY <1>2, <1>5, <1>7, <1>8, <1>9 DEF Apart, HoldsUnlocked
<1> QED BY <1>5, <1>14, <1>15, LocalStep

LEMMA FreeSlotsSafe ==
  ASSUME HoldsInv, NEW p \in Procs, FreeSlots(p)
  PROVE  HoldsInv'
<1>1. PICK t : /\ t = tx[p] /\ TxOK(t) /\ TxShape(t) /\ TxStage(t) /\ TxHolds(t)
               /\ TxInserts(t) /\ TxSlots(t) /\ TxFrees(t) /\ TxSession(t)
               /\ \A q \in Procs \ {p} : Apart(t, tx[q])
  BY Current
<1>2. t.pc = "free" /\ DOMAIN t.ws = {} /\ DOMAIN t.wh \subseteq t.seen
  BY <1>1 DEF FreeSlots, TxSlots, TxHolds
<1>3. DOMAIN t.wx = {} /\ t.op \in {"sweep", "create", "reschedule", "release"}
  BY <1>1, <1>2 DEF TxStage, Ops, TxSession
<1>4. /\ slot \in [Slots -> SlotStatus] /\ t.seen \subseteq Holds
      /\ \A h \in t.seen : hold[h].slot \in Slots
      /\ \A s \in Slots : SlotSeen(p)[s] = slot[s]
  BY <1>1, <1>2, Typed, OverFacts DEF TxStage, SlotSeen, HoldsInv, Linked
<1> DEFINE hit == SlotsHit(p, {hold[h].slot : h \in t.seen}, "held")
           rows == Put(t.ws, hit, "available")
           next == AfterHeal(t.op)
<1>5. PICK u : u = [t EXCEPT !.ws = rows, !.pc = next]
  OBVIOUS
<1>6. Goto(p, u) /\ SlotsUnlocked(p, hit)
  BY <1>1, <1>5 DEF FreeSlots
<1>7. /\ \A s \in hit : s \in Slots /\ slot[s] = "held"
      /\ \A h \in t.seen : slot[hold[h].slot] = "held" => hold[h].slot \in hit
  BY <1>4 DEF SlotsHit
<1>8. DOMAIN rows = hit /\ \A s \in hit : rows[s] = "available"
  BY <1>2 DEF Put
<1>9. /\ next \in {"insert", "book", "commit"}
      /\ t.op \in {"sweep", "release"} => next = "commit"
      /\ t.op = "create" => next = "insert"
      /\ t.op = "reschedule" => next = "book"
  BY <1>3 DEF AfterHeal
<1> HIDE DEF hit, rows, next
<1>10. /\ TxShape(u) /\ u.ws = rows /\ u.pc = next
       /\ u.op = t.op /\ u.at = t.at /\ u.slot = t.slot /\ u.hold = t.hold
       /\ u.order = t.order /\ u.scope = t.scope /\ u.seen = t.seen /\ u.ver = t.ver /\ u.named = t.named
       /\ u.from = t.from /\ u.wh = t.wh /\ u.wx = t.wx
  BY <1>1, <1>5 DEF TxShape
<1>11. TxStage(u)
  BY <1>1, <1>3, <1>9, <1>10 DEF TxStage, Ops, Pcs
<1>12. TxHolds(u) /\ TxInserts(u)
  BY <1>1, <1>2, <1>3, <1>9, <1>10 DEF TxHolds, TxInserts
<1>13. TxFrees(u)
  <2>1. ASSUME NEW h \in DOMAIN t.wh
        PROVE  Over(slot, rows)[hold[h].slot] # "held"
    <3>1. h \in t.seen /\ hold[h].slot \in Slots
      BY <1>2, <1>4
    <3>2. Over(slot, rows)[hold[h].slot] =
            IF hold[h].slot \in hit THEN rows[hold[h].slot] ELSE slot[hold[h].slot]
      BY <1>4, <1>8, <3>1, OverFacts
    <3> QED BY <1>7, <1>8, <3>1, <3>2
  <2> QED BY <2>1, <1>10 DEF TxFrees
<1>14. TxSlots(u) /\ TxSession(u)
  BY <1>1, <1>2, <1>3, <1>7, <1>8, <1>9, <1>10 DEF TxSlots, TxSession
<1>15. TxOK(u)
  BY <1>10, <1>11, <1>12, <1>13, <1>14 DEF TxOK
<1>16. \A q \in Procs \ {p} : Apart(u, tx[q])
  BY <1>1, <1>6, <1>8, <1>10 DEF Apart, SlotsUnlocked
<1> QED BY <1>6, <1>15, <1>16, LocalStep

-----------------------------------------------------------------------------
(* create_hold                                                              *)

\* A transaction that writes more slots nobody else has written stays apart.
LEMMA SlotsApart ==
  ASSUME NEW p \in Procs, NEW t, NEW u, NEW X, SlotsUnlocked(p, X),
         \A q \in Procs \ {p} : Apart(t, tx[q]),
         u.wh = t.wh, u.wx = t.wx, DOMAIN u.ws = DOMAIN t.ws \union X
  PROVE  \A q \in Procs \ {p} : Apart(u, tx[q])
  BY DEF Apart, SlotsUnlocked

LEMMA InsertHoldSafe ==
  ASSUME HoldsInv, NEW p \in Procs, InsertHold(p)
  PROVE  HoldsInv'
<1>1. PICK t : /\ t = tx[p] /\ TxOK(t) /\ TxShape(t) /\ TxStage(t) /\ TxHolds(t)
               /\ TxInserts(t) /\ TxSlots(t) /\ TxFrees(t) /\ TxSession(t)
               /\ \A q \in Procs \ {p} : Apart(t, tx[q])
  BY Current
<1> DEFINE s == t.slot
           new == [status |-> "active", slot |-> s, expires |-> t.at + Ttl]
<1>2. t.pc = "insert" /\ t.op = "create" /\ s \in Slots
  BY <1>1 DEF InsertHold, TxStage, Ops
<1>3. CASE Rollback(p)
  BY <1>3, RollbackSafe
<1>4. ASSUME InsertGuard(p, s), MarkerUnlocked(p, s), NEW g \in Holds, hold[g].status = "none",
             HoldsUnlocked(p, {g}),
             Goto(p, [t EXCEPT !.wh = Put(t.wh, {g}, new), !.pc = "hold"])
      PROVE  HoldsInv'
  <2> DEFINE rows == Put(t.wh, {g}, new)
  <2>1. PICK u : u = [t EXCEPT !.wh = rows, !.pc = "hold"]
    OBVIOUS
  <2>2. new \in HoldRow /\ new.status = "active" /\ new.slot = s
    BY <1>1, <1>2, Typed DEF TxStage, HoldRow, HoldStatus
  <2> HIDE DEF new
  <2>3. /\ DOMAIN rows = DOMAIN t.wh \union {g} /\ rows[g] = new
        /\ \A h \in DOMAIN t.wh \ {g} : rows[h] = t.wh[h]
    BY DEF Put
  <2> HIDE DEF rows
  <2>4. /\ TxShape(u) /\ u.wh = rows /\ u.pc = "hold"
        /\ u.op = t.op /\ u.at = t.at /\ u.slot = t.slot /\ u.hold = t.hold
        /\ u.order = t.order /\ u.scope = t.scope /\ u.seen = t.seen /\ u.ver = t.ver /\ u.named = t.named
        /\ u.from = t.from /\ u.ws = t.ws /\ u.wx = t.wx
    BY <1>1, <2>1 DEF TxShape
  <2>5. /\ g \notin DOMAIN t.wh
        /\ \A h \in DOMAIN t.wh : /\ hold[h].status = "active" /\ t.wh[h].status \in Closed
                                  /\ t.wh[h].status # "active" /\ h \in Holds
    BY <1>1, <1>2, <1>4 DEF TxHolds, Closed
  <2>6. \A h \in Holds : hold[h].status = "active" /\ hold[h].slot = s => h \in DOMAIN t.wh
    <3>1. \A h \in Holds : h \notin DOMAIN t.wh => HoldSeen(p)[h] = hold[h]
      BY <1>1, Typed, OverFacts DEF HoldSeen
    <3> QED BY <1>4, <3>1 DEF InsertGuard
  <2>7. TxStage(u)
    BY <1>1, <1>2, <2>4 DEF TxStage, Ops, Pcs
  <2>8. TxHolds(u)
    BY <1>1, <1>2, <1>4, <2>2, <2>3, <2>4, <2>5 DEF TxHolds
  <2>9. TxInserts(u)
    BY <2>2, <2>3, <2>4, <2>5, <2>6 DEF TxInserts
  <2>10. TxSlots(u)
    BY <1>1, <1>2, <2>3, <2>4, <2>5 DEF TxSlots
  <2>11. TxFrees(u)
    BY <1>1, <1>2, <1>4, <2>3, <2>4, <2>5 DEF TxFrees
  <2>12. TxSession(u)
    BY <1>1, <1>2, <2>4 DEF TxSession
  <2>13. TxOK(u)
    BY <2>4, <2>7, <2>8, <2>9, <2>10, <2>11, <2>12 DEF TxOK
  <2>14. \A q \in Procs \ {p} : Apart(u, tx[q])
    BY <1>1, <1>4, <2>2, <2>3, <2>4, <2>5 DEF Apart, HoldsUnlocked, MarkerUnlocked
  <2>15. Goto(p, u)
    BY <1>4, <2>1 DEF rows
  <2> QED BY <2>13, <2>14, <2>15, LocalStep
<1>5. Rollback(p) \/ (/\ InsertGuard(p, s) /\ MarkerUnlocked(p, s)
                     /\ \E g \in Holds :
                          /\ hold[g].status = "none" /\ HoldsUnlocked(p, {g})
                          /\ Goto(p, [t EXCEPT !.wh = Put(t.wh, {g}, new), !.pc = "hold"]))
  BY <1>1 DEF InsertHold
<1> QED BY <1>3, <1>4, <1>5

LEMMA HoldSlotSafe ==
  ASSUME HoldsInv, NEW p \in Procs, HoldSlot(p)
  PROVE  HoldsInv'
<1>1. PICK t : /\ t = tx[p] /\ TxOK(t) /\ TxShape(t) /\ TxStage(t) /\ TxHolds(t)
               /\ TxInserts(t) /\ TxSlots(t) /\ TxFrees(t) /\ TxSession(t)
               /\ \A q \in Procs \ {p} : Apart(t, tx[q])
  BY Current
<1> DEFINE s == t.slot
           rows == Put(t.ws, {s}, "held")
<1>2. t.pc = "hold" /\ t.op = "create" /\ s \in Slots
  BY <1>1 DEF HoldSlot, TxStage, Ops
<1>3. CASE Rollback(p)
  BY <1>3, RollbackSafe
<1>4. ASSUME (s \in DOMAIN t.ws /\ t.ws[s] = "available") \/ (s \notin DOMAIN t.ws /\ slot[s] = "available"),
             SlotsUnlocked(p, {s}),
             Goto(p, [t EXCEPT !.ws = rows, !.pc = "commit"])
      PROVE  HoldsInv'
  <2>1. PICK u : u = [t EXCEPT !.ws = rows, !.pc = "commit"]
    OBVIOUS
  <2>2. /\ DOMAIN rows = DOMAIN t.ws \union {s} /\ rows[s] = "held"
        /\ \A x \in DOMAIN t.ws \ {s} : rows[x] = t.ws[x]
    BY DEF Put
  <2>3. Goto(p, u)
    BY <1>4, <2>1
  <2> HIDE DEF rows
  <2>4. /\ TxShape(u) /\ u.ws = rows /\ u.pc = "commit"
        /\ u.op = t.op /\ u.at = t.at /\ u.slot = t.slot /\ u.hold = t.hold
        /\ u.order = t.order /\ u.scope = t.scope /\ u.seen = t.seen /\ u.ver = t.ver /\ u.named = t.named
        /\ u.from = t.from /\ u.wh = t.wh /\ u.wx = t.wx
    BY <1>1, <2>1 DEF TxShape
  <2>5. \E g \in DOMAIN t.wh : t.wh[g].status = "active" /\ t.wh[g].slot = s
    BY <1>1, <1>2 DEF TxHolds, Closed
  <2>6. TxStage(u)
    BY <1>1, <1>2, <2>4 DEF TxStage, Ops, Pcs
  <2>7. TxHolds(u) /\ TxInserts(u)
    BY <1>1, <1>2, <2>4 DEF TxHolds, TxInserts
  <2>8. TxSlots(u)
    BY <1>1, <1>2, <1>4, <2>2, <2>4, <2>5 DEF TxSlots
  <2>9. TxFrees(u)
    <3>1. \A h \in DOMAIN t.wh : hold[h].status = "active" => hold[h].slot \in Slots
      BY <1>1 DEF TxHolds, HoldsInv, Linked
    <3>2. \A x \in Slots : x # s => Over(slot, rows)[x] = Over(slot, t.ws)[x]
      BY <2>2, Typed, OverFacts
    <3>3. Over(slot, rows)[s] = "held"
      BY <1>2, <2>2, Typed, OverFacts
    <3> QED BY <1>1, <1>2, <2>4, <2>5, <3>1, <3>2, <3>3 DEF TxFrees
  <2>10. TxSession(u)
    BY <1>1, <1>2, <2>4 DEF TxSession
  <2>11. TxOK(u)
    BY <2>4, <2>6, <2>7, <2>8, <2>9, <2>10 DEF TxOK
  <2>12. \A q \in Procs \ {p} : Apart(u, tx[q])
    BY <1>1, <1>4, <2>2, <2>4, SlotsApart
  <2> QED BY <2>3, <2>11, <2>12, LocalStep
<1>5. SlotSeen(p)[s] = IF s \in DOMAIN t.ws THEN t.ws[s] ELSE slot[s]
  BY <1>1, <1>2, Typed, OverFacts DEF SlotSeen
<1>6. \/ Rollback(p)
      \/ /\ (s \in DOMAIN t.ws /\ t.ws[s] = "available") \/ (s \notin DOMAIN t.ws /\ slot[s] = "available")
         /\ SlotsUnlocked(p, {s})
         /\ Goto(p, [t EXCEPT !.ws = rows, !.pc = "commit"])
  BY <1>1, <1>5 DEF HoldSlot, MoveSlot
<1> QED BY <1>3, <1>4, <1>6

-----------------------------------------------------------------------------
(* create_from_paid_hold                                                    *)

LEMMA ConsumeHoldSafe ==
  ASSUME HoldsInv, NEW p \in Procs, ConsumeHold(p)
  PROVE  HoldsInv'
<1>1. PICK t : /\ t = tx[p] /\ TxOK(t) /\ TxShape(t) /\ TxStage(t) /\ TxHolds(t)
               /\ TxInserts(t) /\ TxSlots(t) /\ TxFrees(t) /\ TxSession(t)
               /\ \A q \in Procs \ {p} : Apart(t, tx[q])
  BY Current
<1> DEFINE g == t.hold
<1>2. t.pc = "consume" /\ t.op = "consume" /\ g \in Holds /\ hold[g].slot = t.slot
  BY <1>1 DEF ConsumeHold, TxStage, Ops
<1>3. DOMAIN t.wh = {} /\ DOMAIN t.ws = {} /\ DOMAIN t.wx = {}
  BY <1>1, <1>2 DEF TxHolds, TxSlots, TxSession
<1>4. hold \in [Holds -> HoldRow] /\ HoldSeen(p)[g] = hold[g]
  BY <1>1, <1>2, <1>3, Typed, OverFacts DEF HoldSeen
<1>5. CASE Rollback(p)
  BY <1>5, RollbackSafe
<1>6. ASSUME hold[g].status = "active", HoldsUnlocked(p, {g}),
             Goto(p, [t EXCEPT !.wh = Put(t.wh, {g}, [hold[g] EXCEPT !.status = "consumed"]),
                               !.pc = "sell"])
      PROVE  HoldsInv'
  <2> DEFINE row == [hold[g] EXCEPT !.status = "consumed"]
             rows == Put(t.wh, {g}, row)
  <2>1. PICK u : u = [t EXCEPT !.wh = rows, !.pc = "sell"]
    OBVIOUS
  <2>2. Goto(p, u)
    BY <1>6, <2>1
  <2>3. row \in HoldRow /\ row.status = "consumed" /\ row.slot = hold[g].slot
    BY <1>2, <1>4 DEF HoldRow, HoldStatus
  <2> HIDE DEF row
  <2>4. DOMAIN rows = {g} /\ rows[g] = row
    BY <1>3 DEF Put
  <2> HIDE DEF rows
  <2>5. /\ TxShape(u) /\ u.wh = rows /\ u.pc = "sell"
        /\ u.op = t.op /\ u.at = t.at /\ u.slot = t.slot /\ u.hold = t.hold
        /\ u.order = t.order /\ u.scope = t.scope /\ u.seen = t.seen /\ u.ver = t.ver /\ u.named = t.named
        /\ u.from = t.from /\ u.ws = t.ws /\ u.wx = t.wx
    BY <1>1, <2>1 DEF TxShape
  <2>6. hold[g].slot \in Slots
    BY <1>2, <1>6 DEF HoldsInv, Linked
  <2>7. TxStage(u)
    BY <1>1, <1>2, <2>5 DEF TxStage, Ops, Pcs
  <2>8. TxHolds(u) /\ TxInserts(u) /\ TxFrees(u)
    BY <1>2, <1>6, <2>3, <2>4, <2>5, <2>6 DEF TxHolds, TxInserts, TxFrees, Closed
  <2>9. TxSlots(u) /\ TxSession(u)
    BY <1>2, <1>3, <2>5 DEF TxSlots, TxSession
  <2>10. TxOK(u)
    BY <2>5, <2>7, <2>8, <2>9 DEF TxOK
  <2>11. \A q \in Procs \ {p} : Apart(u, tx[q])
    BY <1>3, <1>6, <2>3, <2>4, <2>5 DEF Apart, HoldsUnlocked
  <2> QED BY <2>2, <2>10, <2>11, LocalStep
<1>7. \/ Rollback(p)
      \/ /\ hold[g].status = "active" /\ HoldsUnlocked(p, {g})
         /\ Goto(p, [t EXCEPT !.wh = Put(t.wh, {g}, [hold[g] EXCEPT !.status = "consumed"]),
                               !.pc = "sell"])
  BY <1>1, <1>4 DEF ConsumeHold, HoldsHit
<1> QED BY <1>5, <1>6, <1>7

LEMMA SellSlotSafe ==
  ASSUME HoldsInv, NEW p \in Procs, SellSlot(p)
  PROVE  HoldsInv'
<1>1. PICK t : /\ t = tx[p] /\ TxOK(t) /\ TxShape(t) /\ TxStage(t) /\ TxHolds(t)
               /\ TxInserts(t) /\ TxSlots(t) /\ TxFrees(t) /\ TxSession(t)
               /\ \A q \in Procs \ {p} : Apart(t, tx[q])
  BY Current
<1> DEFINE s == t.slot
           rows == Put(t.ws, {s}, "booked")
<1>2. t.pc = "sell" /\ t.op = "consume" /\ s \in Slots
  BY <1>1 DEF SellSlot, TxStage, Ops
<1>3. CASE Rollback(p)
  BY <1>3, RollbackSafe
<1>4. ASSUME (s \in DOMAIN t.ws /\ t.ws[s] = "held") \/ (s \notin DOMAIN t.ws /\ slot[s] = "held"),
             SlotsUnlocked(p, {s}),
             Goto(p, [t EXCEPT !.ws = rows, !.pc = "session"])
      PROVE  HoldsInv'
  <2>1. PICK u : u = [t EXCEPT !.ws = rows, !.pc = "session"]
    OBVIOUS
  <2>2. /\ DOMAIN rows = DOMAIN t.ws \union {s} /\ rows[s] = "booked"
        /\ \A x \in DOMAIN t.ws \ {s} : rows[x] = t.ws[x]
    BY DEF Put
  <2>3. Goto(p, u)
    BY <1>4, <2>1
  <2> HIDE DEF rows
  <2>4. /\ TxShape(u) /\ u.ws = rows /\ u.pc = "session"
        /\ u.op = t.op /\ u.at = t.at /\ u.slot = t.slot /\ u.hold = t.hold
        /\ u.order = t.order /\ u.scope = t.scope /\ u.seen = t.seen /\ u.ver = t.ver /\ u.named = t.named
        /\ u.from = t.from /\ u.wh = t.wh /\ u.wx = t.wx
    BY <1>1, <2>1 DEF TxShape
  <2>5. DOMAIN t.ws = {}
    BY <1>1, <1>2 DEF TxSlots
  <2>6. TxStage(u)
    BY <1>1, <1>2, <2>4 DEF TxStage, Ops, Pcs
  <2>7. TxHolds(u) /\ TxInserts(u)
    BY <1>1, <1>2, <2>4 DEF TxHolds, TxInserts
  <2>8. TxSlots(u)
    BY <1>1, <1>2, <1>4, <2>2, <2>4, <2>5 DEF TxSlots
  <2>9. TxFrees(u)
    <3>1. DOMAIN t.wh = {t.hold} /\ hold[t.hold].slot = s
      BY <1>1, <1>2 DEF TxHolds, TxStage
    <3>2. Over(slot, rows)[s] = "booked"
      BY <1>2, <2>2, Typed, OverFacts
    <3> QED BY <2>4, <3>1, <3>2 DEF TxFrees
  <2>10. TxSession(u)
    BY <1>1, <1>2, <2>4 DEF TxSession
  <2>11. TxOK(u)
    BY <2>4, <2>6, <2>7, <2>8, <2>9, <2>10 DEF TxOK
  <2>12. \A q \in Procs \ {p} : Apart(u, tx[q])
    BY <1>1, <1>4, <2>2, <2>4, SlotsApart
  <2> QED BY <2>3, <2>11, <2>12, LocalStep
<1>5. SlotSeen(p)[s] = IF s \in DOMAIN t.ws THEN t.ws[s] ELSE slot[s]
  BY <1>1, <1>2, Typed, OverFacts DEF SlotSeen
<1>6. \/ Rollback(p)
      \/ /\ (s \in DOMAIN t.ws /\ t.ws[s] = "held") \/ (s \notin DOMAIN t.ws /\ slot[s] = "held")
         /\ SlotsUnlocked(p, {s})
         /\ Goto(p, [t EXCEPT !.ws = rows, !.pc = "session"])
  BY <1>1, <1>5 DEF SellSlot, MoveSlot
<1> QED BY <1>3, <1>4, <1>6

\* What a transaction may have written to the session table.
LEMMA PendingSession ==
  ASSUME HoldsInv, NEW q \in Procs, NEW x \in DOMAIN tx[q].wx
  PROVE  /\ x \in Orders
         /\ \A o \in Orders \ {x} : sess[o].status # "none" => sess[o].slot # tx[q].wx[x].slot
<1>1. PICK w : w = tx[q] /\ TxStage(w) /\ TxSession(w)
  BY Typed DEF TxOK
<1>2. w.op \in {"consume", "reschedule", "cancel"} /\ DOMAIN w.wx = {w.order} /\ w.order = x
  BY <1>1 DEF TxSession
<1>3. x \in Orders
  BY <1>1, <1>2 DEF TxStage
<1> QED BY <1>1, <1>2, <1>3 DEF TxSession

LEMMA InsertSessionSafe ==
  ASSUME HoldsInv, NEW p \in Procs, InsertSession(p)
  PROVE  HoldsInv'
<1>1. PICK t : /\ t = tx[p] /\ TxOK(t) /\ TxShape(t) /\ TxStage(t) /\ TxHolds(t)
               /\ TxInserts(t) /\ TxSlots(t) /\ TxFrees(t) /\ TxSession(t)
               /\ \A q \in Procs \ {p} : Apart(t, tx[q])
  BY Current
<1> DEFINE o == t.order
           row == [status |-> "live", slot |-> t.slot, version |-> 1]
           rows == Put(t.wx, {o}, row)
<1>2. /\ t.pc = "session" /\ t.op = "consume" /\ o \in Orders /\ t.hold = o[1]
      /\ DOMAIN t.wx = {}
  BY <1>1 DEF InsertSession, TxStage, Ops, TxSession
<1>3. CASE Rollback(p)
  BY <1>3, RollbackSafe
<1>4. ASSUME SlotUnique(p, t.slot, o), Goto(p, [t EXCEPT !.wx = rows, !.pc = "commit"])
      PROVE  HoldsInv'
  <2>1. PICK u : u = [t EXCEPT !.wx = rows, !.pc = "commit"]
    OBVIOUS
  <2>2. Goto(p, u)
    BY <1>4, <2>1
  <2>3. DOMAIN rows = {o} /\ rows[o] = row
    BY <1>2 DEF Put
  <2> HIDE DEF rows
  <2>4. /\ TxShape(u) /\ u.wx = rows /\ u.pc = "commit"
        /\ u.op = t.op /\ u.at = t.at /\ u.slot = t.slot /\ u.hold = t.hold
        /\ u.order = t.order /\ u.scope = t.scope /\ u.seen = t.seen /\ u.ver = t.ver /\ u.named = t.named
        /\ u.from = t.from /\ u.wh = t.wh /\ u.ws = t.ws
    BY <1>1, <2>1 DEF TxShape
  \* The order was not sold anything, so no other transaction has its session.
  <2>5. sess[o].status = "none" /\ DOMAIN t.wh = {t.hold} /\ t.hold \in Holds
    <3>1. DOMAIN t.wh = {t.hold} /\ t.hold \in Holds /\ t.wh[t.hold].status = "consumed"
      BY <1>1, <1>2 DEF TxHolds, TxStage
    <3>2. hold[t.hold].status = "active"
      BY <1>1, <3>1 DEF TxHolds
    <3> QED BY <1>2, <3>1, <3>2 DEF HoldsInv, ConsumedIsSold
  <2>6. ASSUME NEW q \in Procs \ {p}, o \in DOMAIN tx[q].wx
        PROVE  FALSE
    <3>1. PICK w : /\ w = tx[q] /\ TxStage(w) /\ TxHolds(w) /\ TxSession(w) /\ Apart(t, w)
      BY <1>1, Typed DEF TxOK
    <3>2. /\ w.op \in {"consume", "reschedule", "cancel"} /\ w.pc \in {"retire", "commit"}
          /\ w.order = o
      BY <2>6, <3>1 DEF TxSession
    <3>3. w.op = "consume"
      BY <2>5, <3>1, <3>2 DEF TxStage
    <3>4. w.hold = t.hold /\ t.hold \in DOMAIN w.wh
      BY <1>2, <3>1, <3>2, <3>3 DEF TxStage, TxHolds
    <3> QED BY <2>5, <3>1, <3>4 DEF Apart
  <2>7. TxStage(u)
    BY <1>1, <1>2, <2>4 DEF TxStage, Ops, Pcs
  <2>8. TxHolds(u) /\ TxInserts(u)
    BY <1>1, <1>2, <2>4 DEF TxHolds, TxInserts
  <2>9. TxSlots(u) /\ TxFrees(u)
    BY <1>1, <1>2, <2>4 DEF TxSlots, TxFrees
  <2>10. TxSession(u)
    <3>1. \A x \in Orders \ {o} : SessSeen(p)[x] = sess[x]
      BY <1>1, <1>2, Typed, OverFacts DEF SessSeen
    <3>2. \A x \in Orders \ {o} : sess[x].slot # t.slot
      BY <1>1, <1>4, <3>1 DEF SlotUnique
    <3> QED BY <1>2, <2>3, <2>4, <3>2 DEF TxSession
  <2>11. TxOK(u)
    BY <2>4, <2>7, <2>8, <2>9, <2>10 DEF TxOK
  <2>12. \A q \in Procs \ {p} : Apart(u, tx[q])
    <3>1. \A q \in Procs \ {p} : \A x \in DOMAIN tx[q].wx : x # o /\ x \in Orders
      BY <2>6, PendingSession
    <3>2. \A q \in Procs \ {p} : \A x \in DOMAIN tx[q].wx : tx[q].wx[x].slot # t.slot
      BY <1>4, <3>1 DEF SlotUnique
    <3> QED BY <1>1, <2>3, <2>4, <3>1, <3>2 DEF Apart
  <2> QED BY <2>2, <2>11, <2>12, LocalStep
<1>5. Rollback(p) \/ (SlotUnique(p, t.slot, o) /\ Goto(p, [t EXCEPT !.wx = rows, !.pc = "commit"]))
  BY <1>1 DEF InsertSession
<1> QED BY <1>3, <1>4, <1>5

-----------------------------------------------------------------------------
(* reschedule and cancel                                                    *)

LEMMA BookNewSlotSafe ==
  ASSUME HoldsInv, NEW p \in Procs, BookNewSlot(p)
  PROVE  HoldsInv'
<1>1. PICK t : /\ t = tx[p] /\ TxOK(t) /\ TxShape(t) /\ TxStage(t) /\ TxHolds(t)
               /\ TxInserts(t) /\ TxSlots(t) /\ TxFrees(t) /\ TxSession(t)
               /\ \A q \in Procs \ {p} : Apart(t, tx[q])
  BY Current
<1> DEFINE s == t.slot
           rows == Put(t.ws, {s}, "booked")
<1>2. t.pc = "book" /\ t.op = "reschedule" /\ s \in Slots
  BY <1>1 DEF BookNewSlot, TxStage, Ops
<1>3. CASE Rollback(p)
  BY <1>3, RollbackSafe
<1>4. ASSUME (s \in DOMAIN t.ws /\ t.ws[s] = "available") \/ (s \notin DOMAIN t.ws /\ slot[s] = "available"),
             SlotsUnlocked(p, {s}),
             Goto(p, [t EXCEPT !.ws = rows, !.pc = "vacate"])
      PROVE  HoldsInv'
  <2>1. PICK u : u = [t EXCEPT !.ws = rows, !.pc = "vacate"]
    OBVIOUS
  <2>2. /\ DOMAIN rows = DOMAIN t.ws \union {s} /\ rows[s] = "booked"
        /\ \A x \in DOMAIN t.ws \ {s} : rows[x] = t.ws[x]
    BY DEF Put
  <2>3. Goto(p, u)
    BY <1>4, <2>1
  <2> HIDE DEF rows
  <2>4. /\ TxShape(u) /\ u.ws = rows /\ u.pc = "vacate"
        /\ u.op = t.op /\ u.at = t.at /\ u.slot = t.slot /\ u.hold = t.hold
        /\ u.order = t.order /\ u.scope = t.scope /\ u.seen = t.seen /\ u.ver = t.ver /\ u.named = t.named
        /\ u.from = t.from /\ u.wh = t.wh /\ u.wx = t.wx
    BY <1>1, <2>1 DEF TxShape
  <2>5. \A h \in DOMAIN t.wh : t.wh[h].status # "active"
    BY <1>1, <1>2 DEF TxHolds, Closed
  <2>6. TxStage(u)
    BY <1>1, <1>2, <2>4 DEF TxStage, Ops, Pcs
  <2>7. TxHolds(u) /\ TxInserts(u)
    BY <1>1, <1>2, <2>4 DEF TxHolds, TxInserts
  <2>8. TxSlots(u)
    BY <1>1, <1>2, <1>4, <2>2, <2>4, <2>5 DEF TxSlots
  <2>9. TxFrees(u)
    <3>1. \A h \in DOMAIN t.wh : hold[h].status = "active" => hold[h].slot \in Slots
      BY <1>1 DEF TxHolds, HoldsInv, Linked
    <3>2. \A x \in Slots : x # s => Over(slot, rows)[x] = Over(slot, t.ws)[x]
      BY <2>2, Typed, OverFacts
    <3>3. Over(slot, rows)[s] = "booked"
      BY <1>2, <2>2, Typed, OverFacts
    <3> QED BY <1>1, <1>2, <2>4, <2>5, <3>1, <3>2, <3>3 DEF TxFrees
  <2>10. TxSession(u)
    BY <1>1, <1>2, <2>4 DEF TxSession
  <2>11. TxOK(u)
    BY <2>4, <2>6, <2>7, <2>8, <2>9, <2>10 DEF TxOK
  <2>12. \A q \in Procs \ {p} : Apart(u, tx[q])
    BY <1>1, <1>4, <2>2, <2>4, SlotsApart
  <2> QED BY <2>3, <2>11, <2>12, LocalStep
<1>5. SlotSeen(p)[s] = IF s \in DOMAIN t.ws THEN t.ws[s] ELSE slot[s]
  BY <1>1, <1>2, Typed, OverFacts DEF SlotSeen
<1>6. \/ Rollback(p)
      \/ /\ (s \in DOMAIN t.ws /\ t.ws[s] = "available") \/ (s \notin DOMAIN t.ws /\ slot[s] = "available")
         /\ SlotsUnlocked(p, {s})
         /\ Goto(p, [t EXCEPT !.ws = rows, !.pc = "vacate"])
  BY <1>1, <1>5 DEF BookNewSlot, MoveSlot
<1> QED BY <1>3, <1>4, <1>6

\* A session not changed since it was read is live where it was read, and stands
\* on a booked slot if no version was guessed.
LEMMA LiveIsBooked ==
  ASSUME HoldsInv, NEW t, TxStage(t), t.op \in {"reschedule", "cancel"},
         sess[t.order].version = t.ver
  PROVE  /\ sess[t.order].status = "live" /\ sess[t.order].slot = t.from
         /\ unread = {} => slot[t.from] = "booked"
  BY DEF TxStage, HoldsInv, BookedIsLive

LEMMA VacateOldSlotSafe ==
  ASSUME HoldsInv, NEW p \in Procs, VacateOldSlot(p)
  PROVE  HoldsInv'
<1>1. PICK t : /\ t = tx[p] /\ TxOK(t) /\ TxShape(t) /\ TxStage(t) /\ TxHolds(t)
               /\ TxInserts(t) /\ TxSlots(t) /\ TxFrees(t) /\ TxSession(t)
               /\ \A q \in Procs \ {p} : Apart(t, tx[q])
  BY Current
<1> DEFINE hit == SlotsHit(p, {t.from}, "booked")
           rows == Put(t.ws, hit, "available")
<1>2. /\ t.pc = "vacate" /\ t.op = "reschedule" /\ t.from \in Slots /\ t.slot # t.from
      /\ t.slot \in DOMAIN t.ws /\ t.ws[t.slot] = "booked"
  BY <1>1 DEF VacateOldSlot, TxStage, Ops, TxSlots
<1>3. PICK u : u = [t EXCEPT !.ws = rows, !.pc = "version"]
  OBVIOUS
<1>4. Goto(p, u) /\ SlotsUnlocked(p, hit)
  BY <1>1, <1>3 DEF VacateOldSlot
<1>5. SlotSeen(p)[t.from] = IF t.from \in DOMAIN t.ws THEN t.ws[t.from] ELSE slot[t.from]
  BY <1>1, <1>2, Typed, OverFacts DEF SlotSeen
<1>6. /\ hit \subseteq {t.from}
      /\ t.from \in hit <=> SlotSeen(p)[t.from] = "booked"
  BY DEF SlotsHit
<1>7. /\ DOMAIN rows = DOMAIN t.ws \union hit /\ \A x \in hit : rows[x] = "available"
      /\ \A x \in DOMAIN t.ws \ hit : rows[x] = t.ws[x]
  BY DEF Put
<1> HIDE DEF rows, hit
<1>8. /\ TxShape(u) /\ u.ws = rows /\ u.pc = "version"
      /\ u.op = t.op /\ u.at = t.at /\ u.slot = t.slot /\ u.hold = t.hold
      /\ u.order = t.order /\ u.scope = t.scope /\ u.seen = t.seen /\ u.ver = t.ver /\ u.named = t.named
      /\ u.from = t.from /\ u.wh = t.wh /\ u.wx = t.wx
  BY <1>1, <1>3 DEF TxShape
<1>9. t.from \in hit => slot[t.from] = "booked" /\ t.from \notin DOMAIN t.ws
  BY <1>1, <1>2, <1>5, <1>6 DEF TxSlots
<1>10. sess[t.order].version = t.ver /\ unread = {} => t.from \in hit
  <2> SUFFICES ASSUME sess[t.order].version = t.ver, unread = {} PROVE t.from \in hit
    OBVIOUS
  <2>1. slot[t.from] = "booked"
    BY <1>1, <1>2, LiveIsBooked
  <2>2. t.from \notin DOMAIN t.ws
    BY <1>1, <1>2, <2>1 DEF TxSlots
  <2> QED BY <1>5, <1>6, <2>1, <2>2
<1>11. TxStage(u)
  BY <1>1, <1>2, <1>8 DEF TxStage, Ops, Pcs
<1>12. TxHolds(u) /\ TxInserts(u)
  BY <1>1, <1>2, <1>8 DEF TxHolds, TxInserts
<1>13. TxSlots(u)
  BY <1>1, <1>2, <1>6, <1>7, <1>8, <1>9, <1>10 DEF TxSlots
<1>14. TxFrees(u)
  <2>1. \A h \in DOMAIN t.wh : hold[h].status = "active" => hold[h].slot \in Slots
    BY <1>1 DEF TxHolds, HoldsInv, Linked
  <2>2. \A x \in Slots : Over(slot, rows)[x] = "held" => Over(slot, t.ws)[x] = "held"
    BY <1>6, <1>7, Typed, OverFacts
  <2> QED BY <1>1, <1>2, <1>8, <2>1, <2>2 DEF TxFrees
<1>15. TxSession(u)
  BY <1>1, <1>2, <1>8 DEF TxSession
<1>16. TxOK(u)
  BY <1>8, <1>11, <1>12, <1>13, <1>14, <1>15 DEF TxOK
<1>17. \A q \in Procs \ {p} : Apart(u, tx[q])
  BY <1>1, <1>4, <1>7, <1>8, SlotsApart
<1> QED BY <1>4, <1>16, <1>17, LocalStep

LEMMA TransitionSafe ==
  ASSUME HoldsInv, NEW p \in Procs, Transition(p)
  PROVE  HoldsInv'
<1>1. PICK t : /\ t = tx[p] /\ TxOK(t) /\ TxShape(t) /\ TxStage(t) /\ TxHolds(t)
               /\ TxInserts(t) /\ TxSlots(t) /\ TxFrees(t) /\ TxSession(t)
               /\ \A q \in Procs \ {p} : Apart(t, tx[q])
  BY Current
<1> DEFINE o == t.order
           moving == t.op = "reschedule"
           row == [status |-> IF moving THEN "live" ELSE "cancelled",
                   slot |-> IF moving THEN t.slot ELSE SessSeen(p)[o].slot,
                   version |-> t.named + 1]
           rows == Put(t.wx, {o}, row)
           next == IF moving THEN "commit" ELSE "retire"
<1>2. /\ t.pc = "version" /\ t.op \in {"reschedule", "cancel"} /\ o \in Orders
      /\ DOMAIN t.wx = {}
  BY <1>1 DEF Transition, TxStage, Ops, TxSession
<1>3. SessSeen(p)[o] = sess[o]
  BY <1>1, <1>2, Typed, OverFacts DEF SessSeen
<1>4. CASE Rollback(p)
  BY <1>4, RollbackSafe
<1>5. ASSUME sess[o].version = t.named, SessUnlocked(p, o), moving => SlotUnique(p, t.slot, o),
             Goto(p, [t EXCEPT !.wx = rows, !.pc = next])
      PROVE  HoldsInv'
  <2>1. PICK u : u = [t EXCEPT !.wx = rows, !.pc = next]
    OBVIOUS
  <2>2. Goto(p, u)
    BY <1>5, <2>1
  <2>3. DOMAIN rows = {o} /\ rows[o] = row
    BY <1>2 DEF Put
  <2>4. /\ moving => row = [status |-> "live", slot |-> t.slot, version |-> t.named + 1]
        /\ ~moving => row = [status |-> "cancelled", slot |-> sess[o].slot, version |-> t.named + 1]
    BY <1>2, <1>3
  <2>5. /\ t.op = "reschedule" => next = "commit"
        /\ t.op = "cancel" => next = "retire"
    OBVIOUS
  <2>13. row.slot = IF moving THEN t.slot ELSE sess[o].slot
    BY <1>2, <1>3
  \* No other session stands, or is about to stand, on the slot of the new row.
  <2>14. /\ \A x \in Orders \ {o} : sess[x].status # "none" => sess[x].slot # row.slot
         /\ \A q \in Procs \ {p} : \A x \in DOMAIN tx[q].wx : tx[q].wx[x].slot # row.slot
    <3>1. \A x \in Orders \ {o} : SessSeen(p)[x] = sess[x]
      BY <1>1, <1>2, Typed, OverFacts DEF SessSeen
    <3>2. \A q \in Procs \ {p} : \A x \in DOMAIN tx[q].wx : x # o /\ x \in Orders
      BY <1>5, PendingSession DEF SessUnlocked
    <3>3. CASE moving
      BY <1>5, <2>13, <3>1, <3>2, <3>3 DEF SlotUnique
    <3>4. CASE ~moving
      <4>1. sess[o].status # "none" /\ row.slot = sess[o].slot
        BY <1>1, <1>2, <2>13, <3>4 DEF TxStage
      <4>2. \A x \in Orders \ {o} : sess[x].status # "none" => sess[x].slot # row.slot
        BY <1>2, <4>1 DEF HoldsInv, OwnSlot
      <4>3. ASSUME NEW q \in Procs \ {p}, NEW x \in DOMAIN tx[q].wx
            PROVE  tx[q].wx[x].slot # row.slot
        BY <1>2, <3>2, <4>1, <4>3, PendingSession
      <4> QED BY <4>2, <4>3
    <3> QED BY <3>3, <3>4
  <2> HIDE DEF rows, row, next
  <2>6. /\ TxShape(u) /\ u.wx = rows /\ u.pc = next
        /\ u.op = t.op /\ u.at = t.at /\ u.slot = t.slot /\ u.hold = t.hold
        /\ u.order = t.order /\ u.scope = t.scope /\ u.seen = t.seen /\ u.ver = t.ver /\ u.named = t.named
        /\ u.from = t.from /\ u.wh = t.wh /\ u.ws = t.ws
    BY <1>1, <2>1 DEF TxShape
  <2>7. TxStage(u)
    BY <1>1, <1>2, <2>5, <2>6 DEF TxStage, Ops, Pcs
  <2>8. TxHolds(u) /\ TxInserts(u)
    BY <1>1, <1>2, <2>5, <2>6 DEF TxHolds, TxInserts
  <2>9. TxSlots(u) /\ TxFrees(u)
    BY <1>1, <1>2, <2>5, <2>6 DEF TxSlots, TxFrees
  <2>10. TxSession(u)
    BY <1>2, <1>5, <2>3, <2>4, <2>5, <2>6, <2>14 DEF TxSession
  <2>11. TxOK(u)
    BY <2>6, <2>7, <2>8, <2>9, <2>10 DEF TxOK
  <2>12. \A q \in Procs \ {p} : Apart(u, tx[q])
    BY <1>1, <1>5, <2>3, <2>6, <2>14 DEF Apart, SessUnlocked
  <2> QED BY <2>2, <2>11, <2>12, LocalStep
<1>6. \/ Rollback(p)
      \/ /\ sess[o].version = t.named /\ SessUnlocked(p, o) /\ (moving => SlotUnique(p, t.slot, o))
         /\ Goto(p, [t EXCEPT !.wx = rows, !.pc = next])
  BY <1>1, <1>3 DEF Transition, VersionMatches
<1> QED BY <1>4, <1>5, <1>6

LEMMA RetireSlotSafe ==
  ASSUME HoldsInv, NEW p \in Procs, RetireSlot(p)
  PROVE  HoldsInv'
<1>1. PICK t : /\ t = tx[p] /\ TxOK(t) /\ TxShape(t) /\ TxStage(t) /\ TxHolds(t)
               /\ TxInserts(t) /\ TxSlots(t) /\ TxFrees(t) /\ TxSession(t)
               /\ \A q \in Procs \ {p} : Apart(t, tx[q])
  BY Current
<1>2. /\ t.pc = "retire" /\ t.op = "cancel" /\ t.order \in Orders /\ t.from \in Slots
      /\ DOMAIN t.ws = {} /\ DOMAIN t.wh = {} /\ DOMAIN t.wx = {t.order}
      /\ t.wx[t.order].slot = sess[t.order].slot /\ sess[t.order].slot \in Slots
  <2>1. t.pc = "retire"
    BY <1>1 DEF RetireSlot
  <2>2. t.op = "cancel"
    BY <1>1, <2>1 DEF TxStage, Ops
  <2>3. /\ t.order \in Orders /\ t.from \in Slots /\ sess[t.order].status # "none"
        /\ DOMAIN t.ws = {} /\ DOMAIN t.wh = {} /\ DOMAIN t.wx = {t.order}
        /\ t.wx[t.order].slot = sess[t.order].slot
    BY <1>1, <2>1, <2>2 DEF TxStage, TxSlots, TxHolds, TxSession
  <2> QED BY <2>1, <2>2, <2>3 DEF HoldsInv, Linked
<1> DEFINE s == sess[t.order].slot
<1>3. SessSeen(p)[t.order].slot = s
  BY <1>1, <1>2, Typed, OverFacts DEF SessSeen
<1> DEFINE rows == Put(t.ws, {s}, "cancelled")
<1>4. PICK u : u = [t EXCEPT !.ws = rows, !.pc = "commit"]
  OBVIOUS
<1>5. Goto(p, u) /\ SlotsUnlocked(p, {s})
  BY <1>1, <1>3, <1>4 DEF RetireSlot
<1>6. DOMAIN rows = {s} /\ rows[s] = "cancelled"
  BY <1>2 DEF Put
<1> HIDE DEF rows
<1>7. /\ TxShape(u) /\ u.ws = rows /\ u.pc = "commit"
      /\ u.op = t.op /\ u.at = t.at /\ u.slot = t.slot /\ u.hold = t.hold
      /\ u.order = t.order /\ u.scope = t.scope /\ u.seen = t.seen /\ u.ver = t.ver /\ u.named = t.named
      /\ u.from = t.from /\ u.wh = t.wh /\ u.wx = t.wx
  BY <1>1, <1>4 DEF TxShape
<1>9. TxStage(u)
  BY <1>1, <1>2, <1>7 DEF TxStage, Ops, Pcs
<1>10. TxHolds(u) /\ TxInserts(u) /\ TxFrees(u)
  BY <1>1, <1>2, <1>7 DEF TxHolds, TxInserts, TxFrees
<1>11. TxSlots(u)
  BY <1>2, <1>6, <1>7 DEF TxSlots
<1>12. TxSession(u)
  BY <1>1, <1>2, <1>7 DEF TxSession
<1>13. TxOK(u)
  BY <1>7, <1>9, <1>10, <1>11, <1>12 DEF TxOK
<1>14. \A q \in Procs \ {p} : Apart(u, tx[q])
  BY <1>1, <1>2, <1>5, <1>6, <1>7, SlotsApart
<1> QED BY <1>5, <1>13, <1>14, LocalStep

-----------------------------------------------------------------------------
(* A commit.                                                                *)

\* What a commit does to the tables the sale is read from.
Booked == {s \in Slots : slot[s] = "booked"}
Retired == {s \in Slots : slot[s] = "cancelled"}
Consumed == {h \in Holds : hold[h].status = "consumed"}

SellsNothing == sess' = sess /\ Booked' = Booked /\ Retired' = Retired /\ Consumed' = Consumed
Sells(s, o) ==
  /\ sess[o].status = "none" /\ o[1] \in Holds \ Consumed /\ s \notin Booked \union Retired
  /\ sess' = [sess EXCEPT ![o] = [status |-> "live", slot |-> s, version |-> 1]]
  /\ Booked' = Booked \union {s} /\ Retired' = Retired /\ Consumed' = Consumed \union {o[1]}
Moves(r, s, o) ==
  /\ sess[o].status = "live" /\ sess[o].slot = r /\ r \in Booked /\ s \notin Booked \union Retired
  /\ \E v \in Nat : sess' = [sess EXCEPT ![o] = [status |-> "live", slot |-> s, version |-> v]]
  /\ Booked' = (Booked \ {r}) \union {s} /\ Retired' = Retired /\ Consumed' = Consumed
Cancels(s, o) ==
  /\ sess[o].status = "live" /\ sess[o].slot = s /\ s \in Booked
  /\ \E v \in Nat : sess' = [sess EXCEPT ![o] = [status |-> "cancelled", slot |-> s, version |-> v]]
  /\ Booked' = Booked \ {s} /\ Retired' = Retired \union {s} /\ Consumed' = Consumed

SaleEffect == \/ SellsNothing
              \/ \E s \in Slots, o \in Orders : Sells(s, o) \/ Cancels(s, o)
              \/ \E r, s \in Slots, o \in Orders : Moves(r, s, o)

LEMMA Committed ==
  ASSUME HoldsInv, NEW p \in Procs, Commit(p), NEW t, t = tx[p]
  PROVE  /\ t.pc = "commit" /\ now' = now
         /\ unread' = IF t.named = t.ver THEN unread ELSE unread \union {t.order}
         /\ \A s \in Slots : slot'[s] = IF s \in DOMAIN t.ws THEN t.ws[s] ELSE slot[s]
         /\ \A h \in Holds : hold'[h] = IF h \in DOMAIN t.wh THEN t.wh[h] ELSE hold[h]
         /\ \A o \in Orders : sess'[o] = IF o \in DOMAIN t.wx THEN t.wx[o] ELSE sess[o]
         /\ slot' = [s \in Slots |-> slot'[s]]
         /\ hold' = [h \in Holds |-> hold'[h]]
         /\ sess' = [o \in Orders |-> sess'[o]]
         /\ \A q \in Procs : tx'[q] = IF q = p THEN Idle ELSE tx[q]
         /\ tx' = [q \in Procs |-> tx'[q]]
<1>1. /\ slot' = Over(slot, t.ws) /\ hold' = Over(hold, t.wh) /\ sess' = Over(sess, t.wx)
      /\ t.pc = "commit" /\ now' = now
      /\ unread' = (IF t.named = t.ver THEN unread ELSE unread \union {t.order})
      /\ tx' = [tx EXCEPT ![p] = Idle]
  BY DEF Commit, SlotSeen, HoldSeen, SessSeen
<1>2. DOMAIN slot = Slots /\ DOMAIN hold = Holds /\ DOMAIN sess = Orders
  BY Typed
<1>3. tx = [q \in Procs |-> tx[q]]
  BY DEF HoldsInv, Transactions
<1>4. slot' = [s \in Slots |-> slot'[s]]
  BY <1>1, <1>2 DEF Over
<1>5. hold' = [h \in Holds |-> hold'[h]]
  BY <1>1, <1>2 DEF Over
<1>6. sess' = [o \in Orders |-> sess'[o]]
  BY <1>1, <1>2 DEF Over
<1>7. /\ \A s \in Slots : slot'[s] = IF s \in DOMAIN t.ws THEN t.ws[s] ELSE slot[s]
      /\ \A h \in Holds : hold'[h] = IF h \in DOMAIN t.wh THEN t.wh[h] ELSE hold[h]
      /\ \A o \in Orders : sess'[o] = IF o \in DOMAIN t.wx THEN t.wx[o] ELSE sess[o]
  BY <1>1, <1>2, OverFacts
<1>8. /\ \A q \in Procs : tx'[q] = IF q = p THEN Idle ELSE tx[q]
      /\ tx' = [q \in Procs |-> tx'[q]]
  BY <1>1, <1>3
<1> QED BY <1>1, <1>4, <1>5, <1>6, <1>7, <1>8

\* As long as no version was guessed.
LEMMA CommitEffect ==
  ASSUME HoldsInv, NEW p \in Procs, Commit(p), unread' = {}
  PROVE  SaleEffect
<1>1. PICK t : /\ t = tx[p] /\ TxOK(t) /\ TxShape(t) /\ TxStage(t) /\ TxHolds(t)
               /\ TxInserts(t) /\ TxSlots(t) /\ TxFrees(t) /\ TxSession(t)
               /\ \A q \in Procs \ {p} : Apart(t, tx[q])
  BY Current
<1>9. unread = {} /\ t.named = t.ver
  <2>1. unread' = IF t.named = t.ver THEN unread ELSE unread \union {t.order}
    BY <1>1, Committed
  <2> QED BY <2>1
<1>2. /\ t.pc = "commit" /\ unread = {} /\ t.named = t.ver
      /\ \A s \in Slots : slot'[s] = IF s \in DOMAIN t.ws THEN t.ws[s] ELSE slot[s]
      /\ \A h \in Holds : hold'[h] = IF h \in DOMAIN t.wh THEN t.wh[h] ELSE hold[h]
      /\ \A o \in Orders : sess'[o] = IF o \in DOMAIN t.wx THEN t.wx[o] ELSE sess[o]
      /\ sess' = [o \in Orders |-> sess'[o]] /\ sess = [o \in Orders |-> sess[o]]
  BY <1>9, <1>1, Committed, Typed
<1>3. t.op \in {"sweep", "create", "release", "consume", "reschedule", "cancel"}
  BY <1>1, <1>2 DEF TxStage, Ops
<1>4. t.op # "consume" => Consumed' = Consumed
  BY <1>1, <1>2 DEF TxHolds, Consumed, Closed
<1>5. CASE t.op \in {"sweep", "create", "release"}
  <2>1. DOMAIN t.wx = {}
    BY <1>1, <1>5 DEF TxSession
  <2>2. sess' = sess
    BY <1>2, <2>1
  <2>3. \A s \in DOMAIN t.ws : t.ws[s] \in {"held", "available"} /\ slot[s] \in {"available", "held"}
    BY <1>1, <1>5 DEF TxSlots
  <2>4. Booked' = Booked /\ Retired' = Retired
    BY <1>2, <2>3 DEF Booked, Retired
  <2> QED BY <1>4, <1>5, <2>2, <2>4 DEF SaleEffect, SellsNothing
<1>6. CASE t.op = "consume"
  <2>1. /\ t.order \in Orders /\ t.slot \in Slots /\ t.hold \in Holds /\ t.order[1] = t.hold
        /\ DOMAIN t.wh = {t.hold} /\ t.wh[t.hold].status = "consumed"
        /\ DOMAIN t.ws = {t.slot} /\ t.ws[t.slot] = "booked"
        /\ DOMAIN t.wx = {t.order}
        /\ t.wx[t.order] = [status |-> "live", slot |-> t.slot, version |-> 1]
    BY <1>1, <1>2, <1>6 DEF TxStage, TxHolds, TxSlots, TxSession
  <2>2. hold[t.hold].status = "active" /\ slot[t.slot] \in {"available", "held"}
    BY <1>1, <2>1 DEF TxHolds, TxSlots
  <2>3. sess[t.order].status = "none"
    BY <2>1, <2>2 DEF HoldsInv, ConsumedIsSold
  <2>4. sess' = [sess EXCEPT ![t.order] = [status |-> "live", slot |-> t.slot, version |-> 1]]
    BY <1>2, <2>1
  <2>5. Consumed' = Consumed \union {t.hold} /\ t.hold \notin Consumed
    BY <1>2, <2>1, <2>2 DEF Consumed
  <2>6. /\ Booked' = Booked \union {t.slot} /\ Retired' = Retired
        /\ t.slot \notin Booked \union Retired
    BY <1>2, <2>1, <2>2 DEF Booked, Retired
  <2>7. Sells(t.slot, t.order)
    BY <2>1, <2>3, <2>4, <2>5, <2>6 DEF Sells
  <2> QED BY <2>1, <2>7 DEF SaleEffect
<1>7. CASE t.op = "reschedule"
  <2>1. /\ t.order \in Orders /\ t.slot \in Slots /\ t.from \in Slots /\ t.slot # t.from
        /\ DOMAIN t.wx = {t.order} /\ t.ver + 1 \in Nat
        /\ t.wx[t.order] = [status |-> "live", slot |-> t.slot, version |-> t.ver + 1]
        /\ sess[t.order].version = t.ver
    BY <1>1, <1>2, <1>7, Typed DEF TxStage, TxSession
  <2>2. sess[t.order].status = "live" /\ sess[t.order].slot = t.from /\ slot[t.from] = "booked"
    BY <1>1, <1>2, <1>7, <2>1, LiveIsBooked
  <2>3. /\ t.slot \in DOMAIN t.ws /\ t.ws[t.slot] = "booked"
        /\ t.from \in DOMAIN t.ws /\ t.ws[t.from] = "available"
    BY <1>1, <1>2, <1>7, <2>1 DEF TxSlots
  <2>4. slot[t.slot] \in {"available", "held"}
    BY <1>1, <2>3 DEF TxSlots
  <2>5. \A s \in DOMAIN t.ws \ {t.slot, t.from} :
          t.ws[s] \in {"held", "available"} /\ slot[s] \in {"available", "held"}
    BY <1>1, <1>7 DEF TxSlots
  <2>6. sess' = [sess EXCEPT ![t.order] =
                   [status |-> "live", slot |-> t.slot, version |-> t.ver + 1]]
    BY <1>2, <2>1
  <2>7. /\ Booked' = (Booked \ {t.from}) \union {t.slot} /\ Retired' = Retired
        /\ t.slot \notin Booked \union Retired /\ t.from \in Booked
    BY <1>2, <2>1, <2>2, <2>3, <2>4, <2>5 DEF Booked, Retired
  <2>8. Moves(t.from, t.slot, t.order)
    BY <1>4, <1>7, <2>1, <2>2, <2>6, <2>7 DEF Moves
  <2> QED BY <2>1, <2>8 DEF SaleEffect
<1>8. CASE t.op = "cancel"
  <2>1. /\ t.order \in Orders /\ t.from \in Slots
        /\ DOMAIN t.wx = {t.order} /\ t.ver + 1 \in Nat
        /\ t.wx[t.order] = [status |-> "cancelled", slot |-> t.from, version |-> t.ver + 1]
        /\ sess[t.order].version = t.ver
        /\ DOMAIN t.ws = {t.from} /\ t.ws[t.from] = "cancelled"
    <3>1. /\ t.order \in Orders /\ t.from \in Slots /\ t.ver \in Nat
          /\ DOMAIN t.wx = {t.order} /\ sess[t.order].version = t.ver
          /\ t.wx[t.order] = [status |-> "cancelled", slot |-> sess[t.order].slot,
                              version |-> t.ver + 1]
      BY <1>1, <1>2, <1>8, Typed DEF TxStage, TxSession
    <3>2. sess[t.order].slot = t.from
      BY <1>1, <1>8, <3>1, LiveIsBooked
    <3> QED BY <1>1, <1>2, <1>8, <3>1, <3>2 DEF TxSlots
  <2>2. sess[t.order].status = "live" /\ sess[t.order].slot = t.from /\ slot[t.from] = "booked"
    BY <1>1, <1>2, <1>8, <2>1, LiveIsBooked
  <2>3. sess' = [sess EXCEPT ![t.order] =
                   [status |-> "cancelled", slot |-> t.from, version |-> t.ver + 1]]
    BY <1>2, <2>1
  <2>4. /\ Booked' = Booked \ {t.from} /\ Retired' = Retired \union {t.from}
        /\ t.from \in Booked
    BY <1>2, <2>1, <2>2 DEF Booked, Retired
  <2>5. Cancels(t.from, t.order)
    BY <1>4, <1>8, <2>1, <2>2, <2>3, <2>4 DEF Cancels
  <2> QED BY <2>1, <2>5 DEF SaleEffect
<1> QED BY <1>3, <1>5, <1>6, <1>7, <1>8

\* Whatever a commit sells, moves or cancels, booked slots and live sessions
\* still agree.
LEMMA EffectSafe ==
  ASSUME HoldsInv, SaleEffect, unread = {}
  PROVE  BookedIsLive'
<1>1. /\ sess = [o \in Orders |-> sess[o]]
      /\ \A s \in Slots : s \in Booked <=> \E o \in Orders : sess[o].status = "live" /\ sess[o].slot = s
      /\ \A o, x \in Orders :
           sess[o].status = "live" /\ sess[x].status = "live" /\ sess[o].slot = sess[x].slot => o = x
  BY Typed DEF HoldsInv, BookedIsLive, OwnSlot, Booked
<1>2. CASE SellsNothing
  BY <1>1, <1>2 DEF SellsNothing, BookedIsLive, Booked
<1>3. ASSUME NEW s \in Slots, NEW o \in Orders, Sells(s, o)
      PROVE  BookedIsLive'
  <2>1. /\ \A x \in Orders : x # o => sess'[x] = sess[x]
        /\ sess'[o].status = "live" /\ sess'[o].slot = s
    BY <1>1, <1>3 DEF Sells
  <2>2. \A x \in Slots : slot'[x] = "booked" <=> x \in Booked \/ x = s
    BY <1>3 DEF Sells, Booked
  <2> QED BY <1>1, <1>3, <2>1, <2>2 DEF Sells, BookedIsLive
<1>4. ASSUME NEW s \in Slots, NEW o \in Orders, Cancels(s, o)
      PROVE  BookedIsLive'
  <2>1. /\ \A x \in Orders : x # o => sess'[x] = sess[x]
        /\ sess'[o].status = "cancelled" /\ sess'[o].slot = s
    BY <1>1, <1>4 DEF Cancels
  <2>2. \A x \in Slots : slot'[x] = "booked" <=> x \in Booked /\ x # s
    BY <1>4 DEF Cancels, Booked
  <2> QED BY <1>1, <1>4, <2>1, <2>2 DEF Cancels, BookedIsLive
<1>5. ASSUME NEW r \in Slots, NEW s \in Slots, NEW o \in Orders, Moves(r, s, o)
      PROVE  BookedIsLive'
  <2>1. /\ \A x \in Orders : x # o => sess'[x] = sess[x]
        /\ sess'[o].status = "live" /\ sess'[o].slot = s
    BY <1>1, <1>5 DEF Moves
  <2>2. \A x \in Slots : slot'[x] = "booked" <=> (x \in Booked /\ x # r) \/ x = s
    BY <1>5 DEF Moves, Booked
  <2> QED BY <1>1, <1>5, <2>1, <2>2 DEF Moves, BookedIsLive
<1> QED BY <1>2, <1>3, <1>4, <1>5 DEF SaleEffect

\* A hold is consumed by the transaction that inserts the session of one of its
\* orders, and by no other.
LEMMA ConsumedSafe ==
  ASSUME HoldsInv, NEW p \in Procs, Commit(p)
  PROVE  ConsumedIsSold'
<1>1. PICK t : /\ t = tx[p] /\ TxOK(t) /\ TxShape(t) /\ TxStage(t) /\ TxHolds(t)
               /\ TxInserts(t) /\ TxSlots(t) /\ TxFrees(t) /\ TxSession(t)
               /\ \A q \in Procs \ {p} : Apart(t, tx[q])
  BY Current
<1>2. /\ t.pc = "commit"
      /\ \A h \in Holds : hold'[h] = IF h \in DOMAIN t.wh THEN t.wh[h] ELSE hold[h]
      /\ \A o \in Orders : sess'[o] = IF o \in DOMAIN t.wx THEN t.wx[o] ELSE sess[o]
  BY <1>1, Committed
<1>3. CASE t.op = "consume"
  <2>1. /\ t.order \in Orders /\ t.hold \in Holds /\ t.order[1] = t.hold
        /\ DOMAIN t.wh = {t.hold} /\ t.wh[t.hold].status = "consumed"
        /\ DOMAIN t.wx = {t.order} /\ t.wx[t.order].status = "live"
    BY <1>1, <1>2, <1>3 DEF TxStage, TxHolds, TxSession
  <2>2. hold[t.hold].status = "active"
    BY <1>1, <2>1 DEF TxHolds
  <2>3. \A o \in Orders : o[1] = t.hold => sess[o].status = "none"
    BY <2>1, <2>2 DEF HoldsInv, ConsumedIsSold
  <2>4. \A o \in Orders : sess'[o].status # "none" <=> sess[o].status # "none" \/ o = t.order
    BY <1>2, <2>1
  <2>5. \A h \in Holds : hold'[h].status = "consumed" <=> hold[h].status = "consumed" \/ h = t.hold
    BY <1>2, <2>1
  <2>6. \A h \in Holds : hold'[h].status = "consumed" <=>
          \E o \in Orders : o[1] = h /\ sess'[o].status # "none"
    BY <2>1, <2>4, <2>5 DEF HoldsInv, ConsumedIsSold
  <2>7. \A o, x \in Orders :
          sess'[o].status # "none" /\ sess'[x].status # "none" /\ o[1] = x[1] => o = x
    BY <2>1, <2>3, <2>4 DEF HoldsInv, ConsumedIsSold
  <2> QED BY <2>6, <2>7 DEF ConsumedIsSold
<1>4. CASE t.op # "consume"
  <2>1. \A h \in Holds : hold'[h].status = "consumed" <=> hold[h].status = "consumed"
    BY <1>1, <1>2, <1>4 DEF TxHolds, Closed
  <2>2. \A o \in Orders : sess'[o].status # "none" <=> sess[o].status # "none"
    BY <1>1, <1>2, <1>4 DEF TxStage, TxSession
  <2> QED BY <2>1, <2>2 DEF HoldsInv, ConsumedIsSold
<1> QED BY <1>3, <1>4

\* An open transaction is as it was when another one commits: the rows it has
\* written are locked, and a session it read has a new version if it changed.
LEMMA OthersStand ==
  ASSUME HoldsInv, NEW p \in Procs, Commit(p), NEW q \in Procs \ {p}, NEW w, w = tx[q]
  PROVE  TxOK(w)'
<1>1. PICK t : /\ t = tx[p] /\ TxOK(t) /\ TxShape(t) /\ TxStage(t) /\ TxHolds(t)
               /\ TxInserts(t) /\ TxSlots(t) /\ TxFrees(t) /\ TxSession(t)
               /\ \A r \in Procs \ {p} : Apart(t, tx[r])
  BY Current
<1>2. /\ t.pc = "commit" /\ now' = now /\ (unread' = {} => unread = {})
      /\ \A s \in Slots : slot'[s] = IF s \in DOMAIN t.ws THEN t.ws[s] ELSE slot[s]
      /\ \A h \in Holds : hold'[h] = IF h \in DOMAIN t.wh THEN t.wh[h] ELSE hold[h]
      /\ \A o \in Orders : sess'[o] = IF o \in DOMAIN t.wx THEN t.wx[o] ELSE sess[o]
      /\ slot' = [s \in Slots |-> slot'[s]]
  BY <1>1, Committed
<1>3. /\ TxShape(w) /\ TxStage(w) /\ TxHolds(w) /\ TxInserts(w) /\ TxSlots(w) /\ TxFrees(w)
      /\ TxSession(w) /\ Apart(t, w)
  BY <1>1, Typed DEF TxOK
<1>4. /\ DOMAIN w.wh \subseteq Holds /\ DOMAIN w.ws \subseteq Slots
      /\ \A h \in DOMAIN w.wh : h \notin DOMAIN t.wh /\ hold'[h] = hold[h]
      /\ \A s \in DOMAIN w.ws : s \notin DOMAIN t.ws /\ slot'[s] = slot[s]
  BY <1>2, <1>3 DEF Apart, TxHolds, TxSlots
<1>5. \A h \in Holds : hold[h].status # "none" =>
        hold'[h].status # "none" /\ hold'[h].slot = hold[h].slot
  BY <1>1, <1>2 DEF TxHolds, Closed
<1>6. \A o \in Orders : sess[o].status # "none" =>
        /\ sess'[o].status # "none"
        /\ sess'[o] = sess[o] \/ (o \in DOMAIN t.wx /\ sess'[o].version = sess[o].version + 1)
  <2> SUFFICES ASSUME NEW o \in Orders, sess[o].status # "none", o \in DOMAIN t.wx
               PROVE  sess'[o].status # "none" /\ sess'[o].version = sess[o].version + 1
    BY <1>2
  <2>1. t.op \in {"consume", "reschedule", "cancel"} /\ t.order = o
    BY <1>1 DEF TxSession
  <2>2. t.op # "consume"
    <3> SUFFICES ASSUME t.op = "consume" PROVE FALSE
      OBVIOUS
    <3>1. t.hold \in Holds /\ o[1] = t.hold /\ t.hold \in DOMAIN t.wh
          /\ t.wh[t.hold].status = "consumed"
      BY <1>1, <1>2, <2>1 DEF TxStage, TxHolds
    <3>2. hold[t.hold].status = "active"
      BY <1>1, <3>1 DEF TxHolds
    <3> QED BY <3>1, <3>2 DEF HoldsInv, ConsumedIsSold
  <2> QED BY <1>1, <1>2, <2>1, <2>2 DEF TxSession
<1>7. TxStage(w)'
  <2>1. w.op \in {"reschedule", "cancel"} =>
          /\ sess'[w.order].status # "none" /\ w.ver <= sess'[w.order].version
          /\ sess'[w.order].version = w.ver =>
               sess'[w.order].status = "live" /\ sess'[w.order].slot = w.from
    <3> SUFFICES ASSUME w.op \in {"reschedule", "cancel"}
                 PROVE  /\ sess'[w.order].status # "none" /\ w.ver <= sess'[w.order].version
                        /\ sess'[w.order].version = w.ver =>
                             sess'[w.order].status = "live" /\ sess'[w.order].slot = w.from
      OBVIOUS
    <3>1. /\ w.order \in Orders /\ w.ver \in Nat /\ sess[w.order].status # "none"
          /\ w.ver <= sess[w.order].version /\ sess[w.order].version \in Nat
          /\ sess[w.order].version = w.ver =>
               sess[w.order].status = "live" /\ sess[w.order].slot = w.from
      BY <1>3, Typed DEF TxStage, SessRow
    <3> QED BY <1>6, <3>1
  <2>2. w.op = "consume" =>
          w.hold \in Holds /\ hold'[w.hold].status # "none" /\ hold'[w.hold].slot = w.slot
    BY <1>3, <1>5 DEF TxStage
  <2>3. \A h \in w.seen : h \in Holds /\ hold'[h].status # "none"
    BY <1>3, <1>5 DEF TxStage
  <2> QED BY <1>2, <1>3, <2>1, <2>2, <2>3 DEF TxStage
<1>8. TxHolds(w)'
  BY <1>3, <1>4 DEF TxHolds
<1>9. TxInserts(w)'
  <2>1. ASSUME NEW g \in DOMAIN w.wh, w.wh[g].status = "active", NEW h \in Holds,
               hold'[h].status = "active", hold'[h].slot = w.wh[g].slot
        PROVE  h \in DOMAIN w.wh
    <3>1. h \notin DOMAIN t.wh
      BY <1>2, <1>3, <2>1 DEF Apart
    <3> QED BY <1>2, <1>3, <2>1, <3>1 DEF TxInserts
  <2> QED BY <1>3, <2>1 DEF TxInserts
<1>10. TxSlots(w)'
  <2>1. w.op = "reschedule" /\ sess'[w.order].version = w.ver => sess[w.order].version = w.ver
    <3> SUFFICES ASSUME w.op = "reschedule", sess'[w.order].version = w.ver
                 PROVE  sess[w.order].version = w.ver
      OBVIOUS
    <3>1. /\ w.order \in Orders /\ w.ver \in Nat /\ sess[w.order].status # "none"
          /\ w.ver <= sess[w.order].version /\ sess[w.order].version \in Nat
      BY <1>3, Typed DEF TxStage, SessRow
    <3> QED BY <1>6, <3>1
  <2>2. w.op = "cancel" /\ w.pc = "commit" => sess'[w.order] = sess[w.order]
    <3> SUFFICES ASSUME w.op = "cancel", w.pc = "commit" PROVE sess'[w.order] = sess[w.order]
      OBVIOUS
    <3>1. w.order \in Orders /\ DOMAIN w.wx = {w.order}
      BY <1>3 DEF TxStage, TxSession
    <3> QED BY <1>2, <1>3, <3>1 DEF Apart
  <2> QED BY <1>2, <1>3, <1>4, <2>1, <2>2 DEF TxSlots
<1>11. TxFrees(w)'
  <2>1. ASSUME NEW h \in DOMAIN w.wh, w.pc \notin {"free", "sell"}, hold[h].status = "active",
               Over(slot', w.ws)[hold[h].slot] = "held"
        PROVE  \E g \in DOMAIN w.wh : w.wh[g].status = "active" /\ w.wh[g].slot = hold[h].slot
    <3> DEFINE s == hold[h].slot
    <3>1. s \in Slots /\ h \in Holds
      BY <1>4, <2>1 DEF HoldsInv, Linked
    <3>2. /\ Over(slot', w.ws)[s] = IF s \in DOMAIN w.ws THEN w.ws[s] ELSE slot'[s]
          /\ Over(slot, w.ws)[s] = IF s \in DOMAIN w.ws THEN w.ws[s] ELSE slot[s]
      BY <1>2, <3>1, Typed, OverFacts
    <3> HIDE DEF s
    <3>3. ASSUME s \in DOMAIN t.ws, t.ws[s] = "held" PROVE FALSE
      <4>1. PICK g \in DOMAIN t.wh : t.wh[g].status = "active" /\ t.wh[g].slot = s
        BY <1>1, <3>3 DEF TxSlots
      <4>2. h \in DOMAIN t.wh
        BY <1>1, <2>1, <3>1, <4>1 DEF TxInserts, s
      <4> QED BY <1>4, <4>2
    <3>4. Over(slot, w.ws)[s] = "held"
      BY <1>2, <2>1, <3>1, <3>2, <3>3 DEF s
    <3> QED BY <1>3, <2>1, <3>4 DEF TxFrees, s
  <2> QED BY <1>4, <2>1 DEF TxFrees
<1>12. TxSession(w)'
  <2>1. w.op \in {"reschedule", "cancel"} /\ w.pc \in {"retire", "commit"} =>
          sess'[w.order] = sess[w.order]
    <3> SUFFICES ASSUME w.op \in {"reschedule", "cancel"}, w.pc \in {"retire", "commit"}
                 PROVE  sess'[w.order] = sess[w.order]
      OBVIOUS
    <3>1. w.order \in Orders /\ DOMAIN w.wx = {w.order}
      BY <1>3 DEF TxStage, TxSession
    <3> QED BY <1>2, <1>3, <3>1 DEF Apart
  <2>2. \A o \in DOMAIN w.wx : \A x \in Orders \ {o} :
          sess'[x].status # "none" => sess'[x].slot # w.wx[o].slot
    BY <1>2, <1>3 DEF TxSession, Apart
  <2> QED BY <1>3, <2>1, <2>2 DEF TxSession
<1>13. TxShape(w)'
  BY <1>3 DEF TxShape
<1> QED BY <1>7, <1>8, <1>9, <1>10, <1>11, <1>12, <1>13 DEF TxOK

LEMMA CommitSafe ==
  ASSUME HoldsInv, NEW p \in Procs, Commit(p)
  PROVE  HoldsInv'
<1>1. PICK t : /\ t = tx[p] /\ TxOK(t) /\ TxShape(t) /\ TxStage(t) /\ TxHolds(t)
               /\ TxInserts(t) /\ TxSlots(t) /\ TxFrees(t) /\ TxSession(t)
               /\ \A r \in Procs \ {p} : Apart(t, tx[r])
  BY Current
<1>2. /\ t.pc = "commit" /\ now' = now
      /\ \A s \in Slots : slot'[s] = IF s \in DOMAIN t.ws THEN t.ws[s] ELSE slot[s]
      /\ \A h \in Holds : hold'[h] = IF h \in DOMAIN t.wh THEN t.wh[h] ELSE hold[h]
      /\ \A o \in Orders : sess'[o] = IF o \in DOMAIN t.wx THEN t.wx[o] ELSE sess[o]
      /\ slot' = [s \in Slots |-> slot'[s]]
      /\ hold' = [h \in Holds |-> hold'[h]]
      /\ sess' = [o \in Orders |-> sess'[o]]
      /\ \A q \in Procs : tx'[q] = IF q = p THEN Idle ELSE tx[q]
      /\ tx' = [q \in Procs |-> tx'[q]]
  BY <1>1, Committed
<1>3. \A o \in Orders \intersect DOMAIN t.wx :
        t.wx[o] \in SessRow /\ t.wx[o].status # "none" /\ t.wx[o].slot \in Slots
  <2> SUFFICES ASSUME NEW o \in Orders, o \in DOMAIN t.wx
               PROVE  t.wx[o] \in SessRow /\ t.wx[o].status # "none" /\ t.wx[o].slot \in Slots
    OBVIOUS
  <2>1. t.op \in {"consume", "reschedule", "cancel"} /\ t.order = o
    BY <1>1 DEF TxSession
  <2>2. CASE t.op = "consume"
    <3>1. t.wx[o] = [status |-> "live", slot |-> t.slot, version |-> 1] /\ t.slot \in Slots
      BY <1>1, <1>2, <2>1, <2>2 DEF TxSession, TxStage
    <3> QED BY <3>1, Typed DEF SessRow
  <2>3. CASE t.op = "reschedule"
    <3>1. /\ t.wx[o] = [status |-> "live", slot |-> t.slot, version |-> t.named + 1]
          /\ t.slot \in Slots /\ t.named \in 0 .. MaxMoves
      BY <1>1, <1>2, <2>1, <2>3 DEF TxSession, TxStage
    <3> QED BY <3>1, Typed DEF SessRow
  <2>4. CASE t.op = "cancel"
    <3>1. /\ t.wx[o] = [status |-> "cancelled", slot |-> sess[o].slot, version |-> t.named + 1]
          /\ sess[o].slot \in Slots /\ t.named \in 0 .. MaxMoves
      BY <1>1, <1>2, <2>1, <2>4 DEF TxSession, TxStage, HoldsInv, Linked
    <3> QED BY <3>1, Typed DEF SessRow
  <2> QED BY <2>1, <2>2, <2>3, <2>4
<1>4. TypeOK'
  <2>1. \A s \in DOMAIN t.ws : t.ws[s] \in SlotStatus
    BY <1>1 DEF TxSlots, SlotStatus
  <2>2. \A h \in DOMAIN t.wh : t.wh[h] \in HoldRow
    BY <1>1 DEF TxHolds
  <2>3. slot' \in [Slots -> SlotStatus]
    BY <1>2, <2>1, Typed
  <2>4. hold' \in [Holds -> HoldRow]
    BY <1>2, <2>2, Typed
  <2>5. sess' \in [Orders -> SessRow]
    BY <1>2, <1>3, Typed
  <2>6. unread' \subseteq Orders
    BY <1>1, Committed DEF TxStage, Ops, HoldsInv, TypeOK
  <2> QED BY <1>2, <2>3, <2>4, <2>5, <2>6, Typed DEF TypeOK
<1>5. Transactions'
  <2>1. ASSUME NEW q \in Procs
        PROVE  TxOK(tx[q])'
    <3>1. CASE q = p
      <4>1. now' \in Nat
        BY <1>2, Typed
      <4>2. TxOK(Idle)'
        <5>1. TxStage(Idle)'
          BY <4>1, IdleFacts DEF TxStage, Ops, Pcs
        <5>2. TxHolds(Idle)' /\ TxInserts(Idle)' /\ TxFrees(Idle)'
          BY IdleFacts DEF TxHolds, TxInserts, TxFrees
        <5>3. TxSlots(Idle)' /\ TxSession(Idle)' /\ TxShape(Idle)'
          BY IdleFacts DEF TxSlots, TxSession, TxShape
        <5> QED BY <5>1, <5>2, <5>3 DEF TxOK
      <4> QED BY <1>2, <3>1, <4>2
    <3>2. CASE q # p
      <4>1. PICK w : w = tx[q]
        OBVIOUS
      <4>2. TxOK(w)'
        BY <3>2, <4>1, OthersStand
      <4> QED BY <1>2, <3>2, <4>1, <4>2
    <3> QED BY <3>1, <3>2
  <2>2. ASSUME NEW q \in Procs, NEW r \in Procs, q # r
        PROVE  Apart(tx[q], tx[r])'
    <3>1. Apart(tx'[q], tx'[r])
      BY <1>2, <2>2, IdleFacts, EmptyApart DEF HoldsInv, Transactions
    <3> QED BY <3>1 DEF Apart
  <2> QED BY <1>2, <2>1, <2>2 DEF Transactions
<1>6. Linked'
  <2>1. \A h \in Holds : hold'[h].status # "none" => hold'[h].slot \in Slots
    BY <1>1, <1>2 DEF TxHolds, HoldsInv, Linked
  <2>2. \A o \in Orders : sess'[o].status # "none" => sess'[o].slot \in Slots
    BY <1>2, <1>3 DEF HoldsInv, Linked
  <2> QED BY <2>1, <2>2 DEF Linked
<1>7. OneHold'
  <2> SUFFICES ASSUME NEW g \in Holds, NEW h \in Holds, hold'[g].status = "active",
                      hold'[h].status = "active", hold'[g].slot = hold'[h].slot
               PROVE  g = h
    BY DEF OneHold
  <2> QED BY <1>1, <1>2 DEF TxInserts, HoldsInv, OneHold
<1>8. HeldSlotHasHold'
  <2> SUFFICES ASSUME NEW s \in Slots, slot'[s] = "held"
               PROVE  \E h \in Holds : hold'[h].status = "active" /\ hold'[h].slot = s
    BY DEF HeldSlotHasHold, ActiveOn
  <2>1. CASE s \in DOMAIN t.ws
    BY <1>1, <1>2, <2>1 DEF TxSlots, TxHolds
  <2>2. CASE s \notin DOMAIN t.ws
    <3>1. slot[s] = "held" /\ Over(slot, t.ws)[s] = "held"
      BY <1>2, <2>2, Typed, OverFacts
    <3>2. PICK h \in Holds : hold[h].status = "active" /\ hold[h].slot = s
      BY <3>1 DEF HoldsInv, HeldSlotHasHold, ActiveOn
    <3>3. CASE h \notin DOMAIN t.wh
      BY <1>2, <3>2, <3>3
    <3>4. CASE h \in DOMAIN t.wh
      <4>1. PICK g \in DOMAIN t.wh : t.wh[g].status = "active" /\ t.wh[g].slot = s
        BY <1>1, <1>2, <3>1, <3>2, <3>4 DEF TxFrees
      <4> QED BY <1>1, <1>2, <4>1 DEF TxHolds
    <3> QED BY <3>3, <3>4
  <2> QED BY <2>1, <2>2
<1>9. OwnSlot'
  <2> SUFFICES ASSUME NEW o \in Orders, NEW x \in Orders, sess'[o].status # "none",
                      sess'[x].status # "none", sess'[o].slot = sess'[x].slot
               PROVE  o = x
    BY DEF OwnSlot
  <2>1. \A y \in DOMAIN t.wx : DOMAIN t.wx = {y}
    BY <1>1 DEF TxSession
  <2> QED BY <1>1, <1>2, <2>1 DEF TxSession, HoldsInv, OwnSlot
<1>10. ConsumedIsSold'
  BY ConsumedSafe
<1>11. ASSUME unread' = {}
       PROVE  BookedIsLive'
  <2>1. unread = {}
    BY <1>11, <1>1, Committed
  <2> QED BY <1>11, <2>1, CommitEffect, EffectSafe
<1> QED BY <1>4, <1>5, <1>6, <1>7, <1>8, <1>9, <1>10, <1>11 DEF HoldsInv

-----------------------------------------------------------------------------
(* Every step of the system.                                                *)

LEMMA HandlerSafe ==
  ASSUME HoldsInv, NEW p \in Procs, Handler(p)
  PROVE  HoldsInv'
  BY BeginSweepSafe, BeginCreateSafe, BeginReleaseSafe, BeginConsumeSafe, BeginRescheduleSafe,
     BeginCancelSafe DEF Handler

LEMMA StatementSafe ==
  ASSUME HoldsInv, NEW p \in Procs, Statement(p)
  PROVE  HoldsInv'
<1>1. CASE ExpireHolds(p)
  BY <1>1, CloseHoldsSafe DEF ExpireHolds
<1>2. CASE ReleaseHold(p)
  BY <1>2, CloseHoldsSafe DEF ReleaseHold
<1> QED BY <1>1, <1>2, SelectStaleSafe, FreeSlotsSafe, InsertHoldSafe, HoldSlotSafe,
           ConsumeHoldSafe, SellSlotSafe, InsertSessionSafe, BookNewSlotSafe,
           VacateOldSlotSafe, TransitionSafe, RetireSlotSafe DEF Statement

LEMMA HoldsPreserved == HoldsInv /\ [Next]_vars => HoldsInv'
<1> SUFFICES ASSUME HoldsInv, [Next]_vars PROVE HoldsInv'
  OBVIOUS
<1>1. CASE Tick
  BY <1>1, TickSafe
<1>2. ASSUME NEW p \in Procs, Handler(p) \/ Statement(p) \/ Commit(p) \/ Crash(p)
      PROVE  HoldsInv'
  BY <1>2, HandlerSafe, StatementSafe, CommitSafe, RollbackSafe DEF Crash
<1>3. CASE UNCHANGED vars
  <2>1. UNCHANGED <<now, slot, hold, sess, tx, unread>>
    BY <1>3 DEF vars
  <2>2. ASSUME NEW q \in Procs
        PROVE  TxOK(tx[q])'
    <3>1. PICK w : w = tx[q]
      OBVIOUS
    <3>2. TxOK(w)'
      BY <2>1, <3>1, SameTables DEF HoldsInv, Transactions
    <3> QED BY <2>1, <3>1, <3>2
  <2>3. Transactions'
    BY <2>1, <2>2 DEF HoldsInv, Transactions, Apart
  <2>4. TypeOK' /\ Linked' /\ OneHold' /\ HeldSlotHasHold' /\ OwnSlot' /\ ConsumedIsSold'
        /\ (unread = {} => BookedIsLive)'
    BY <2>1 DEF HoldsInv, TypeOK, Linked, OneHold, HeldSlotHasHold, ActiveOn, BookedIsLive,
                ConsumedIsSold, OwnSlot
  <2> QED BY <2>3, <2>4 DEF HoldsInv
<1> QED BY <1>1, <1>2, <1>3 DEF Next

\* Only a commit changes a committed row.
LEMMA OnlyCommits ==
  ASSUME [Next]_vars
  PROVE  UNCHANGED <<slot, hold, sess, unread>> \/ \E p \in Procs : Commit(p)
<1>1. ASSUME NEW p \in Procs, Handler(p)
      PROVE  UNCHANGED <<slot, hold, sess, unread>>
  BY <1>1 DEF Handler, BeginSweep, BeginCreate, BeginRelease, BeginConsume, BeginReschedule,
              BeginCancel, Begin, Goto
<1>2. ASSUME NEW p \in Procs, Statement(p)
      PROVE  UNCHANGED <<slot, hold, sess, unread>>
  BY <1>2 DEF Statement, SelectStale, ExpireHolds, ReleaseHold, CloseHolds, FreeSlots, InsertHold,
              HoldSlot, ConsumeHold, SellSlot, InsertSession, BookNewSlot, VacateOldSlot,
              Transition, RetireSlot, MoveSlot, Rollback, Goto
<1> QED BY <1>1, <1>2 DEF Next, Tick, Crash, Rollback, Goto, vars

LEMMA AtMostOne ==
  ASSUME NEW S, \A x, y \in S : x = y
  PROVE  Cardinality(S) <= 1
<1>1. CASE S = {}
  BY <1>1, FS_EmptySet
<1>2. ASSUME NEW x \in S PROVE Cardinality(S) <= 1
  <2>1. S = {x}
    BY <1>2
  <2> QED BY <2>1, FS_Singleton
<1> QED BY <1>1, <1>2

-----------------------------------------------------------------------------
(* What the tables promise.                                                 *)

\* The committed rows keep the shape of the schema.
THEOREM HoldsTyped == Spec => []TypeOK
<1>1. HoldsInv => TypeOK
  BY DEF HoldsInv
<1> QED BY <1>1, HoldsInitially, HoldsPreserved, PTL DEF Spec

\* A slot is never left held with no active hold behind it.
THEOREM HeldIsBacked == Spec => []HeldSlotHasHold
<1>1. HoldsInv => HeldSlotHasHold
  BY DEF HoldsInv
<1> QED BY <1>1, HoldsInitially, HoldsPreserved, PTL DEF Spec

\* Two students never hold one slot at once.
THEOREM HoldIsExclusive == Spec => []OneActiveHoldPerSlot
<1>1. HoldsInv => OneActiveHoldPerSlot
  BY AtMostOne DEF HoldsInv, OneHold, OneActiveHoldPerSlot, ActiveOn
<1> QED BY <1>1, HoldsInitially, HoldsPreserved, PTL DEF Spec

\* Two live sessions never stand on one slot, whatever versions the clients
\* name; and until one of them names a version its handler has not read, a slot is
\* booked exactly when a live session stands on it.
THEOREM BookedIsOneSession == Spec => []BookedSlotHasOneSession
<1>1. HoldsInv => BookedSlotHasOneSession
  <2> SUFFICES ASSUME HoldsInv, NEW s \in Slots
               PROVE  /\ Cardinality(LiveOn(s)) <= 1
                      /\ unread = {} => (slot[s] = "booked" <=> LiveOn(s) # {})
    BY DEF BookedSlotHasOneSession
  <2>1. unread = {} => (slot[s] = "booked" <=> LiveOn(s) # {})
    BY DEF HoldsInv, BookedIsLive, LiveOn
  <2>2. \A o, x \in LiveOn(s) : o = x
    BY DEF HoldsInv, OwnSlot, LiveOn
  <2> QED BY <2>1, <2>2, AtMostOne
<1> QED BY <1>1, HoldsInitially, HoldsPreserved, PTL DEF Spec

\* A hold is consumed exactly when one of its orders was sold a session.
THEOREM ConsumedIsOneSession == Spec => []ConsumedHoldHasOneSession
<1>1. HoldsInv => ConsumedHoldHasOneSession
  <2> SUFFICES ASSUME HoldsInv, NEW h \in Holds
               PROVE  (hold[h].status = "consumed" <=> SoldFrom(h) # {})
                      /\ Cardinality(SoldFrom(h)) <= 1
    BY DEF ConsumedHoldHasOneSession
  <2>1. hold[h].status = "consumed" <=> SoldFrom(h) # {}
    BY DEF HoldsInv, ConsumedIsSold, SoldFrom
  <2>2. \A o, x \in SoldFrom(h) : o = x
    BY DEF HoldsInv, ConsumedIsSold, SoldFrom
  <2> QED BY <2>1, <2>2, AtMostOne
<1> QED BY <1>1, HoldsInitially, HoldsPreserved, PTL DEF Spec

\* A hold that was consumed, released or expired stays so.
THEOREM ClosedStaysClosed == Spec => HoldClosesOnce
<1>1. HoldsInv /\ [Next]_vars =>
        [\A h \in Holds : hold[h].status \in {"consumed", "released", "expired"}
                            => hold'[h] = hold[h]]_vars
  <2> SUFFICES ASSUME HoldsInv, [Next]_vars, NEW h \in Holds,
                      hold[h].status \in {"consumed", "released", "expired"}
               PROVE  hold'[h] = hold[h]
    OBVIOUS
  <2>1. CASE UNCHANGED <<slot, hold, sess, unread>>
    BY <2>1
  <2>2. ASSUME NEW p \in Procs, Commit(p)
        PROVE  hold'[h] = hold[h]
    <3>1. PICK t : t = tx[p] /\ TxHolds(t)
      BY Current
    <3>2. h \notin DOMAIN t.wh
      BY <3>1 DEF TxHolds
    <3> QED BY <2>2, <3>1, <3>2, Committed
  <2> QED BY <2>1, <2>2, OnlyCommits
<1> QED BY <1>1, HoldsInitially, HoldsPreserved, PTL DEF Spec, HoldClosesOnce

\* Every commit is a sale, a move, a retirement or nothing to the slot sale.
LEMMA EffectIsSale ==
  ASSUME HoldsInv, SaleEffect, unread = {}
  PROVE  [Sale!SaleNext]_(Sale!saleVars)
<1> DEFINE owners == [s \in Slots |-> LiveOn(s)]
           sold == {o \in Orders : sess[o].status # "none"}
<1>1. /\ sess = [o \in Orders |-> sess[o]]
      /\ \A s \in Slots : s \in Booked <=> LiveOn(s) # {}
      /\ \A s \in Slots : \A o, x \in LiveOn(s) : o = x
      /\ \A s \in Slots, o \in Orders : o \in LiveOn(s) <=> sess[o].status = "live" /\ sess[o].slot = s
      /\ \A s \in Slots, o \in Orders :
           o \in LiveOn(s)' <=> sess'[o].status = "live" /\ sess'[o].slot = s
      /\ \A s \in Slots : LiveOn(s) \subseteq Orders /\ LiveOn(s)' \subseteq Orders
  BY Typed DEF HoldsInv, BookedIsLive, OwnSlot, LiveOn, Booked
<1>2. CASE SellsNothing
  BY <1>2 DEF SellsNothing, Sale!saleVars, LiveOn, Retired
<1>3. ASSUME NEW s \in Slots, NEW o \in Orders, Sells(s, o)
      PROVE  Sale!Sell(s, o)
  <2>1. /\ \A x \in Orders : x # o => sess'[x] = sess[x]
        /\ sess'[o].status = "live" /\ sess'[o].slot = s /\ sess[o].status = "none"
    BY <1>1, <1>3 DEF Sells
  <2>2. LiveOn(s) = {} /\ s \notin Retired /\ o \notin sold
    BY <1>1, <1>3 DEF Sells
  <2>3. LiveOn(s)' = {o}
    BY <1>1, <2>1, <2>2
  <2>4. \A x \in Slots : x # s => LiveOn(x)' = LiveOn(x)
    BY <2>1 DEF LiveOn
  <2>5. owners' = [owners EXCEPT ![s] = {o}]
    BY <2>3, <2>4
  <2>6. sold' = sold \union {o}
    BY <2>1
  <2>7. Retired' = Retired
    BY <1>3 DEF Sells
  <2> QED BY <2>2, <2>5, <2>6, <2>7 DEF Sale!Sell, Sale!Free, Retired
<1>4. ASSUME NEW s \in Slots, NEW o \in Orders, Cancels(s, o)
      PROVE  Sale!Retire(s, o)
  <2>1. /\ \A x \in Orders : x # o => sess'[x] = sess[x]
        /\ sess'[o].status = "cancelled" /\ sess[o].status = "live" /\ sess[o].slot = s
    BY <1>1, <1>4 DEF Cancels
  <2>2. LiveOn(s) = {o}
    BY <1>1, <2>1
  <2>3. LiveOn(s)' = {}
    BY <1>1, <2>1, <2>2
  <2>4. \A x \in Slots : x # s => LiveOn(x)' = LiveOn(x)
    BY <2>1 DEF LiveOn
  <2>5. owners' = [owners EXCEPT ![s] = {}]
    BY <2>3, <2>4
  <2>6. sold' = sold
    BY <2>1
  <2>7. Retired' = Retired \union {s}
    BY <1>4 DEF Cancels
  <2> QED BY <2>2, <2>5, <2>6, <2>7 DEF Sale!Retire, Retired
<1>5. ASSUME NEW r \in Slots, NEW s \in Slots, NEW o \in Orders, Moves(r, s, o)
      PROVE  Sale!Move(r, s, o)
  <2>1. /\ \A x \in Orders : x # o => sess'[x] = sess[x]
        /\ sess'[o].status = "live" /\ sess'[o].slot = s
        /\ sess[o].status = "live" /\ sess[o].slot = r /\ r # s
    BY <1>1, <1>5 DEF Moves
  <2>2. LiveOn(r) = {o}
    BY <1>1, <2>1
  <2>3. LiveOn(s) = {} /\ s \notin Retired
    BY <1>1, <1>5 DEF Moves
  <2>4. LiveOn(r)' = {}
    BY <1>1, <2>1, <2>2
  <2>5. LiveOn(s)' = {o}
    BY <1>1, <2>1, <2>3
  <2>6. \A x \in Slots : x # s /\ x # r => LiveOn(x)' = LiveOn(x)
    BY <2>1 DEF LiveOn
  <2>7. owners' = [owners EXCEPT ![r] = {}, ![s] = {o}]
    BY <2>1, <2>4, <2>5, <2>6
  <2>8. sold' = sold
    BY <2>1
  <2>9. Retired' = Retired
    BY <1>5 DEF Moves
  <2> QED BY <2>2, <2>3, <2>7, <2>8, <2>9 DEF Sale!Move, Sale!Free, Retired
<1> QED BY <1>2, <1>3, <1>4, <1>5 DEF SaleEffect, Sale!SaleNext

\* The statement-level system, whatever the interleaving of its transactions,
\* implements the slot sale until a client names a version its handler has not read.
THEOREM HoldsImplementSale == Spec => ImplementsSlotSale
<1>1. Init => Sale!SaleInit
  BY DEF Init, NoSess, Sale!SaleInit, LiveOn
<1>2. HoldsInv /\ [Next]_vars => [unread' # {} \/ Sale!SaleNext]_(Sale!saleVars)
  <2> SUFFICES ASSUME HoldsInv, [Next]_vars, unread' = {}
               PROVE  [Sale!SaleNext]_(Sale!saleVars)
    OBVIOUS
  <2>1. CASE UNCHANGED <<slot, hold, sess, unread>>
    BY <2>1 DEF Sale!saleVars, LiveOn
  <2>2. ASSUME NEW p \in Procs, Commit(p)
        PROVE  [Sale!SaleNext]_(Sale!saleVars)
    <3>1. unread = {}
      BY <2>2, Committed
    <3> QED BY <2>2, <3>1, CommitEffect, EffectIsSale
  <2> QED BY <2>1, <2>2, OnlyCommits
<1> QED BY <1>1, <1>2, HoldsInitially, HoldsPreserved, PTL DEF Spec, ImplementsSlotSale
=============================================================================
