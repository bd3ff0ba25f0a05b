------------------------- MODULE ControlSync_proofs -------------------------
(***************************************************************************)
(* ControlSync, for any number of orders, reads in flight, crashes and     *)
(* failures: the types, and that no order wipes a position opened after    *)
(* the order was applied.                                                  *)
(*                                                                         *)
(* The argument follows the stamp: a position carries the stamp the store  *)
(* had when it was opened, no copy of the store -- published, being        *)
(* published, or read back -- has a stamp older than a position on its     *)
(* book, and an order is applied only over an older stamp.                 *)
(*                                                                         *)
(* While nothing has failed: whatever copy of the store the engine may     *)
(* come back from obeys a kill given while it was down, or is older and    *)
(* the boot applies it (StoppedInv); and from the flush on every copy in   *)
(* flight has the store's book, or is behind an order the file still has   *)
(* (FlushInv).                                                             *)
(***************************************************************************)
EXTENDS ControlSync, TLAPS

(* A copy of the store knows the orders its positions came after.          *)
Stamped(s) ==
  /\ \A p \in s.book : p.era <= s.appliedAt
  /\ \A p \in s.wiped : p.era < s.appliedAt

StampInv ==
  /\ Stamped(store) /\ Stamped(saved)
  /\ Stamped(publisher.busy.state) /\ Stamped(publisher.flush.state)
  /\ \A p \in engine.held : p.era <= store.appliedAt

IInv == TypeOK /\ StampInv

-----------------------------------------------------------------------------
(* The initial values are of their kinds, and an empty store is stamped.   *)
LEMMA InitialOK ==
  /\ NoOrder \in Orders /\ EmptyStore \in Stores /\ NoContent \in Contents
  /\ Down \in Engines /\ Quiet \in [lastAt : Int, busy : Contents, flush : Contents]
  /\ NoReads \in [Slots -> [phase : {"free", "asked", "answered"}, order : Orders]]
  /\ Stamped(EmptyStore) /\ NoContent.state = EmptyStore
<1>1. NoOrder \in Orders
  BY DEF NoOrder, Orders
<1>2. EmptyStore \in Stores
  BY <1>1 DEF EmptyStore, Stores, Never
<1>3. NoContent \in Contents
  BY <1>2 DEF NoContent, Contents, Never
<1>4. Down \in Engines
  BY DEF Down, Engines
<1>5. Quiet \in [lastAt : Int, busy : Contents, flush : Contents]
  BY <1>3 DEF Quiet, Never
<1>6. NoReads \in [Slots -> [phase : {"free", "asked", "answered"}, order : Orders]]
  BY <1>1 DEF NoReads, NoRead
<1>7. Stamped(EmptyStore) /\ NoContent.state = EmptyStore
  BY DEF Stamped, EmptyStore, NoContent
<1> QED  BY <1>1, <1>2, <1>3, <1>4, <1>5, <1>6, <1>7

(* What an order does to a stamped store: the store stays stamped, its     *)
(* stamp never goes back, and whatever it wipes is older than the order.   *)
LEMMA ApplyOK ==
  ASSUME NEW s \in Stores, Stamped(s), NEW o \in Orders
  PROVE  /\ ApplyControl(s, o) \in Stores
         /\ Stamped(ApplyControl(s, o))
         /\ s.appliedAt <= ApplyControl(s, o).appliedAt
         /\ \A p \in ApplyControl(s, o).wiped \ s.wiped : p.era < ApplyControl(s, o).appliedAt
<1> DEFINE r == ApplyControl(s, o)
<1>1. CASE AlreadyApplied(s, o)
  BY <1>1 DEF ApplyControl, Stores
<1>2. CASE ~AlreadyApplied(s, o)
  <2> DEFINE t == IF o.action = "reset" THEN Wipe(s) ELSE Flip(s, o)
  <2>1. o.at \in Nat /\ s.appliedAt \in Nat /\ s.appliedAt < o.at
    BY <1>2 DEF AlreadyApplied, Orders, Stores
  <2>2. Wipe(s) \in Stores /\ Wipe(s).book = {} /\ Wipe(s).wiped = s.wiped \cup s.book
    <3>1. s.wiped \cup s.book \in SUBSET Positions /\ {} \in SUBSET Positions /\ Never \in Int
      BY DEF Stores, Never
    <3>2. Wipe(s) = [s EXCEPT !.savedAt = Never, !.engaged = FALSE, !.book = {},
                              !.wiped = s.wiped \cup s.book]
      BY DEF Wipe, Stores
    <3> QED  BY <3>1, <3>2 DEF Stores
  <2>3. Flip(s, o) \in Stores /\ Flip(s, o).book = s.book /\ Flip(s, o).wiped = s.wiped
    <3> DEFINE engaged == o.action = "kill"
    <3>1. engaged \in BOOLEAN
      OBVIOUS
    <3>2. Flip(s, o) = s \/ Flip(s, o) = [s EXCEPT !.savedAt = o.at, !.engaged = engaged]
      BY DEF Flip
    <3> HIDE DEF engaged
    <3>3. CASE Flip(s, o) = [s EXCEPT !.savedAt = o.at, !.engaged = engaged]
      <4>1. o.at \in Int
        BY <2>1
      <4> HIDE DEF Flip, Stamped, ApplyControl
      <4> QED  BY <3>1, <3>3, <4>1 DEF Stores
    <3> QED  BY <3>2, <3>3
  <2>4. t \in Stores /\ t.book \subseteq s.book /\ t.wiped \subseteq s.wiped \cup s.book
    BY <2>2, <2>3
  <2> HIDE DEF t
  <2>5. r = [t EXCEPT !.appliedAt = o.at, !.last = o]
    BY <1>2 DEF ApplyControl, t
  <2>6. r \in Stores /\ r.appliedAt = o.at /\ r.book = t.book /\ r.wiped = t.wiped
    BY <2>1, <2>4, <2>5 DEF Stores
  <2>7. \A p \in s.book \cup s.wiped : p.era \in Nat /\ p.era < o.at
    BY <2>1 DEF Stamped, Stores, Positions
  <2> QED  BY <2>1, <2>4, <2>6, <2>7 DEF Stamped
<1> QED  BY <1>1, <1>2

(* maybePublish takes a copy of the store it is given, or does nothing.    *)
LEMMA PublishOK ==
  ASSUME TypeOK, NEW s \in Stores, Stamped(s), StampInv
  PROVE  /\ MaybePublish(s) \in [lastAt : Int, busy : Contents, flush : Contents]
         /\ Stamped(MaybePublish(s).busy.state)
         /\ Stamped(MaybePublish(s).flush.state)
<1>1. [at |-> clock, state |-> s] \in Contents
  BY DEF TypeOK, Contents
<1>2. CASE MaybePublish(s) = publisher
  BY <1>2 DEF TypeOK, StampInv
<1>3. CASE MaybePublish(s) = [publisher EXCEPT !.busy = [at |-> clock, state |-> s]]
  BY <1>1, <1>3 DEF TypeOK, StampInv
<1> QED  BY <1>2, <1>3 DEF MaybePublish

LEMMA IInvInit == Init => IInv
  BY InitialOK DEF Init, IInv, TypeOK, StampInv, Down, Quiet

(* Every step keeps the invariant, and no step wipes a newer position.     *)
LEMMA IInvStep ==
  ASSUME ControlSyncAssumption, IInv, [Next]_vars
  PROVE  /\ IInv'
         /\ \A p \in store'.wiped \ store.wiped : p.era < store'.appliedAt
<1>t. TypeOK /\ StampInv
  BY DEF IInv
<1>1. CASE \E a \in Actions : PhoneOrders(a)
  <2>1. PICK a \in Actions : PhoneOrders(a)
    BY <1>1
  <2>2. file' \in Orders /\ sent' \in Nat
    BY <2>1, <1>t DEF PhoneOrders, TypeOK, Orders, Running
  <2> QED  BY <2>1, <2>2, <1>t DEF PhoneOrders, IInv, TypeOK, StampInv, Stamped
<1>2. CASE Boot
  <2>1. store' = ApplyControl(saved, file) \/ store' = saved
    BY <1>2 DEF Boot, BootStore, Restored
  <2>2. /\ store' \in Stores /\ Stamped(store')
        /\ \A p \in store'.wiped : p.era < store'.appliedAt
    BY <2>1, <1>t, ApplyOK DEF TypeOK, StampInv, Stamped
  <2>3. engine' \in Engines /\ engine'.held = {}
    BY <1>2 DEF Boot, Down, Engines
  <2>4. failures' \in Nat
    BY <1>2, <1>t DEF Boot, TypeOK
  <2> QED  BY <1>2, <2>2, <2>3, <2>4, <1>t DEF Boot, IInv, TypeOK, StampInv, Stamped
<1>3. CASE StartPass
  <2>1. engine' \in Engines /\ engine'.held = store.book
    BY <1>3, <1>t DEF StartPass, TypeOK, Engines, Stores
  <2> QED  BY <1>3, <2>1, <1>t DEF StartPass, IInv, TypeOK, StampInv, Stamped
<1>4. CASE \E p \in engine.held : Tick(p)
  <2>1. PICK p \in engine.held : Tick(p)
    BY <1>4
  <2>2. p \in Positions /\ p.era <= store.appliedAt
    BY <1>t DEF TypeOK, StampInv, Engines
  <2>3. store' \in Stores /\ store'.book = store.book \cup {p} /\ store'.wiped = store.wiped
        /\ store'.appliedAt = store.appliedAt
    BY <2>1, <2>2, <1>t DEF Tick, TypeOK, Stores
  <2> QED  BY <2>1, <2>2, <2>3, <1>t DEF Tick, IInv, TypeOK, StampInv, Stamped
<1>5. CASE \E p \in store.book : ClosePosition(p)
  <2>1. PICK p \in store.book : ClosePosition(p)
    BY <1>5
  <2>2. store' \in Stores /\ store'.book \subseteq store.book /\ store'.wiped = store.wiped
        /\ store'.appliedAt = store.appliedAt
    BY <2>1, <1>t DEF ClosePosition, TypeOK, Stores
  <2>3. engine' \in Engines /\ engine'.held \subseteq engine.held
    BY <2>1, <1>t DEF ClosePosition, TypeOK, Engines
  <2> QED  BY <2>1, <2>2, <2>3, <1>t DEF ClosePosition, IInv, TypeOK, StampInv, Stamped
<1>6. CASE Open
  <2> DEFINE p == [at |-> engine.at, era |-> store.appliedAt]
  <2>1. p \in Positions /\ p.era <= store.appliedAt
    BY <1>t DEF TypeOK, Positions, Engines, Stores
  <2>2. store' \in Stores /\ store'.book = store.book \cup {p} /\ store'.wiped = store.wiped
        /\ store'.appliedAt = store.appliedAt
    BY <1>6, <2>1, <1>t DEF Open, TypeOK, Stores
  <2>3. engine' \in Engines /\ engine'.held = engine.held \cup {p}
    BY <1>6, <2>1, <1>t DEF Open, TypeOK, Engines
  <2> HIDE DEF p
  <2> QED  BY <1>6, <2>1, <2>2, <2>3, <1>t DEF Open, IInv, TypeOK, StampInv, Stamped
<1>7. CASE EndPass
  <2>1. /\ store' \in Stores /\ store'.book = store.book /\ store'.wiped = store.wiped
        /\ store'.appliedAt = store.appliedAt
    <3>1. store \in Stores /\ engine.at \in Int /\ engine.killed \in BOOLEAN
      BY <1>t DEF TypeOK, Engines
    <3>2. store' = [store EXCEPT !.savedAt = engine.at, !.engaged = engine.killed]
      BY <1>7 DEF EndPass, Checkpoint
    <3> QED  BY <3>1, <3>2 DEF Stores
  <2>2. engine' \in Engines /\ engine'.held = {}
    <3>1. engine \in Engines
      BY <1>t DEF TypeOK
    <3>2. engine' = [engine EXCEPT !.pc = "idle", !.at = 0, !.killed = FALSE, !.held = {}]
      BY <1>7 DEF EndPass
    <3> QED  BY <3>1, <3>2 DEF Engines
  <2>3. reads' \in [Slots -> [phase : {"free", "asked", "answered"}, order : Orders]]
    BY <1>7, <1>t DEF EndPass, LaunchRead, TypeOK
  <2> QED  BY <1>7, <2>1, <2>2, <2>3, <1>t DEF EndPass, IInv, TypeOK, StampInv, Stamped
<1>8. CASE FailPass
  <2>1. engine' \in Engines /\ engine'.held = {}
    <3>1. engine \in Engines
      BY <1>t DEF TypeOK
    <3>2. engine' = [engine EXCEPT !.pc = "idle", !.at = 0, !.killed = FALSE, !.held = {}]
      BY <1>8 DEF FailPass
    <3> QED  BY <3>1, <3>2 DEF Engines
  <2>2. failures' \in Nat
    BY <1>8, <1>t DEF FailPass, TypeOK
  <2> QED  BY <1>8, <2>1, <2>2, <1>t DEF FailPass, IInv, TypeOK, StampInv, Stamped
<1>9. ASSUME NEW r \in Slots, Fetch(r)
      PROVE  IInv' /\ \A p \in store'.wiped \ store.wiped : p.era < store'.appliedAt
  <2>1. reads' \in [Slots -> [phase : {"free", "asked", "answered"}, order : Orders]]
    BY <1>9, <1>t DEF Fetch, TypeOK
  <2> QED  BY <1>9, <2>1, <1>t DEF Fetch, IInv, TypeOK, StampInv, Stamped
<1>10. ASSUME NEW r \in Slots, Land(r)
       PROVE  IInv' /\ \A p \in store'.wiped \ store.wiped : p.era < store'.appliedAt
  <2>1. reads[r].order \in Orders /\ store \in Stores /\ Stamped(store)
    BY <1>t DEF TypeOK, StampInv
  <2>2. /\ store' \in Stores /\ Stamped(store') /\ store.appliedAt <= store'.appliedAt
        /\ \A p \in store'.wiped \ store.wiped : p.era < store'.appliedAt
    BY <1>10, <2>1, ApplyOK DEF Land
  <2>3. reads' \in [Slots -> [phase : {"free", "asked", "answered"}, order : Orders]]
    BY <1>10, <1>t, InitialOK DEF Land, TypeOK, NoRead
  <2>4. publisher' = MaybePublish(store')
    BY <1>10 DEF Land
  <2>5. /\ publisher' \in [lastAt : Int, busy : Contents, flush : Contents]
        /\ Stamped(publisher'.busy.state) /\ Stamped(publisher'.flush.state)
    BY <1>t, <2>2, <2>4, PublishOK
  <2>6. \A p \in engine.held : p.era <= store'.appliedAt
    BY <2>2, <1>t DEF TypeOK, StampInv, Engines, Positions, Stores
  <2> QED  BY <1>10, <2>2, <2>3, <2>5, <2>6, <1>t DEF Land, IInv, TypeOK, StampInv, Stamped
<1>11. ASSUME NEW r \in Slots, FailRead(r)
       PROVE  IInv' /\ \A p \in store'.wiped \ store.wiped : p.era < store'.appliedAt
  <2>1. reads' \in [Slots -> [phase : {"free", "asked", "answered"}, order : Orders]]
    BY <1>11, <1>t, InitialOK DEF FailRead, TypeOK, NoRead
  <2>2. /\ publisher' \in [lastAt : Int, busy : Contents, flush : Contents]
        /\ Stamped(publisher'.busy.state) /\ Stamped(publisher'.flush.state)
    BY <1>11, <1>t, PublishOK DEF FailRead, TypeOK, StampInv
  <2>3. failures' \in Nat
    BY <1>11, <1>t DEF FailRead, TypeOK
  <2> QED  BY <1>11, <2>1, <2>2, <2>3, <1>t DEF FailRead, IInv, TypeOK, StampInv, Stamped
<1>12. CASE PublishLands \/ FlushLands
  <2>1. PICK slot \in {"busy", "flush"} : Lands(slot)
    BY <1>12 DEF PublishLands, FlushLands
  <2>2. saved' \in Stores /\ Stamped(saved')
    BY <2>1, <1>t DEF Lands, TypeOK, StampInv, Contents
  <2>3. /\ publisher' \in [lastAt : Int, busy : Contents, flush : Contents]
        /\ Stamped(publisher'.busy.state) /\ Stamped(publisher'.flush.state)
    <3>1. CASE slot = "busy"
      BY <2>1, <3>1, <1>t, InitialOK DEF Lands, TypeOK, StampInv, Contents
    <3>2. CASE slot = "flush"
      BY <2>1, <3>2, <1>t, InitialOK DEF Lands, TypeOK, StampInv, Contents
    <3> QED  BY <3>1, <3>2
  <2>4. engine' \in Engines /\ engine'.held = engine.held
    BY <1>12, <1>t DEF PublishLands, FlushLands, TypeOK, Engines
  <2> QED  BY <1>12, <2>2, <2>3, <2>4, <1>t
           DEF PublishLands, FlushLands, IInv, TypeOK, StampInv, Stamped
<1>13. CASE PublishFails \/ FlushFails
  <2>1. /\ publisher' \in [lastAt : Int, busy : Contents, flush : Contents]
        /\ Stamped(publisher'.busy.state) /\ Stamped(publisher'.flush.state)
    BY <1>13, <1>t, InitialOK DEF PublishFails, FlushFails, TypeOK, StampInv
  <2>2. engine' \in Engines /\ engine'.held = engine.held /\ failures' \in Nat
    BY <1>13, <1>t DEF PublishFails, FlushFails, TypeOK, Engines
  <2> QED  BY <1>13, <2>1, <2>2, <1>t
           DEF PublishFails, FlushFails, IInv, TypeOK, StampInv, Stamped
<1>14. CASE Stop
  <2>1. engine' \in Engines /\ engine'.held = engine.held
    BY <1>14, <1>t DEF Stop, TypeOK, Engines
  <2> QED  BY <1>14, <2>1, <1>t DEF Stop, IInv, TypeOK, StampInv, Stamped
<1>15. CASE Flush
  <2>1. /\ publisher' \in [lastAt : Int, busy : Contents, flush : Contents]
        /\ Stamped(publisher'.busy.state) /\ Stamped(publisher'.flush.state)
    <3>1. [at |-> clock, state |-> store] \in Contents
      BY <1>t DEF TypeOK, Contents
    <3> QED  BY <1>15, <3>1, <1>t DEF Flush, TypeOK, StampInv
  <2>2. engine' \in Engines /\ engine'.held = engine.held
    BY <1>15, <1>t DEF Flush, TypeOK, Engines
  <2> QED  BY <1>15, <2>1, <2>2, <1>t DEF Flush, IInv, TypeOK, StampInv, Stamped
<1>16. CASE Exit \/ Crash
  <2>1. /\ engine' = Down /\ store' = EmptyStore /\ publisher' = Quiet
        /\ reads' \in [Slots -> [phase : {"free", "asked", "answered"}, order : Orders]]
        /\ crashes' \in Nat
    BY <1>16, <1>t, InitialOK DEF Exit, Crash, TypeOK
  <2>2. engine'.held = {} /\ publisher'.busy.state = EmptyStore /\ publisher'.flush.state = EmptyStore
        /\ store'.wiped = {}
    BY <2>1 DEF Down, Quiet, NoContent, EmptyStore
  <2> QED  BY <1>16, <2>1, <2>2, <1>t, InitialOK DEF Exit, Crash, IInv, TypeOK, StampInv
<1>17. CASE AdvanceClock \/ UNCHANGED vars
  BY <1>17, <1>t DEF AdvanceClock, vars, IInv, TypeOK, StampInv, Stamped
<1> QED  BY <1>1, <1>2, <1>3, <1>4, <1>5, <1>6, <1>7, <1>8, <1>9, <1>10, <1>11, <1>12,
            <1>13, <1>14, <1>15, <1>16, <1>17 DEF Next

LEMMA IInvCorrect == Spec => []IInv
<1>1. ControlSyncAssumption
  BY ControlSyncAssumption
<1>2. IInv /\ [Next]_vars => IInv'
  BY <1>1, IInvStep
<1> QED  BY <1>2, IInvInit, PTL DEF Spec

(* Every variable keeps its type.                                          *)
THEOREM TypeCorrect == Spec => []TypeOK
<1>1. IInv => TypeOK
  BY DEF IInv
<1> QED  BY <1>1, IInvCorrect, PTL

(* However often an order is read -- by late requests, by the processes    *)
(* that follow -- it wipes nothing that was opened after it was applied.   *)
THEOREM ResetWipesOnceAlways == Spec => ResetWipesOnce
<1>1. ControlSyncAssumption
  BY ControlSyncAssumption
<1>2. IInv /\ [Next]_vars
        => [\A p \in store'.wiped \ store.wiped : p.era < store'.appliedAt]_vars
  BY <1>1, IInvStep
<1> QED  BY <1>2, IInvCorrect, PTL DEF Spec, ResetWipesOnce
-----------------------------------------------------------------------------
(* A run in which no request, pass or publication has failed. Nothing is   *)
(* stamped with an instant to come, and no store has applied an order      *)
(* later than the file's.                                                  *)
Taken(content) == content # NoContent

Older(s) == s.appliedAt <= file.at /\ s.savedAt <= clock

ClockInv ==
  /\ file.at <= clock /\ engine.at <= clock
  /\ Older(store) /\ Older(saved)
  /\ Older(publisher.busy.state) /\ Older(publisher.flush.state)
  /\ \A r \in Slots : reads[r].order.at <= file.at

(* A process that is gone has no request in flight.                        *)
QuietInv == ~Running => reads = NoReads /\ publisher = Quiet

(* A kill given while the engine was down is obeyed by every store the     *)
(* engine has had since; the published one may still be the one of before, *)
(* which the next boot applies the kill to.                                *)
KilledDown == file.down /\ file.action = "kill"
Obeys(s) == s.appliedAt = file.at /\ s.engaged
Unaware(s) == s.appliedAt < file.at /\ s.savedAt <= file.at

StoppedInv ==
  failures = 0 /\ KilledDown =>
    /\ Running => Obeys(store)
    /\ Obeys(saved) \/ Unaware(saved)
    /\ Taken(publisher.busy) => Obeys(publisher.busy.state)
    /\ Taken(publisher.flush) => Obeys(publisher.flush.state)
    /\ engine.pc = "pass" => engine.killed

(* From the flush on, a copy of the store has its book, or is from before  *)
(* an order the store has applied since.                                   *)
Behind(s) ==
  /\ s.appliedAt <= store.appliedAt
  /\ s.appliedAt = store.appliedAt => s.book = store.book

FlushInv ==
  failures = 0 /\ engine.pc \in {"flushing", "stopped"} =>
    /\ Taken(publisher.busy) => Behind(publisher.busy.state)
    /\ Taken(publisher.flush) => Behind(publisher.flush.state)
    /\ engine.pc = "flushing" => Taken(publisher.flush)
    /\ engine.pc = "stopped" => Behind(saved)

RunInv == ClockInv /\ QuietInv /\ StoppedInv /\ FlushInv

(* What the types say of the instants.                                     *)
LEMMA Instants ==
  ASSUME TypeOK
  PROVE  /\ clock \in Nat /\ file.at \in Nat /\ engine.at \in Nat /\ failures \in Nat
         /\ store.appliedAt \in Nat /\ store.savedAt \in Int
         /\ saved.appliedAt \in Nat /\ saved.savedAt \in Int
         /\ publisher.busy.state \in Stores /\ publisher.flush.state \in Stores
         /\ \A r \in Slots : reads[r].order \in Orders /\ reads[r].order.at \in Nat
         /\ \A s \in Stores : s.appliedAt \in Nat /\ s.savedAt \in Int
<1>1. \A s \in Stores : s.appliedAt \in Nat /\ s.savedAt \in Int
  BY DEF Stores
<1>2. \A c \in Contents : c.state \in Stores
  BY DEF Contents
<1>3. publisher.busy \in Contents /\ publisher.flush \in Contents
  BY DEF TypeOK
<1> QED  BY <1>1, <1>2, <1>3 DEF TypeOK, Orders, Engines

(* The initial values carry no instant.                                    *)
LEMMA NoInstant ==
  /\ NoOrder.at = 0 /\ ~NoOrder.down /\ NoRead.order = NoOrder /\ Down.at = 0 /\ Down.pc = "down"
  /\ Quiet.busy = NoContent /\ Quiet.flush = NoContent /\ ~Taken(NoContent)
  /\ NoContent.state = EmptyStore /\ EmptyStore.appliedAt = 0 /\ EmptyStore.savedAt = Never
  /\ Never \in Int /\ Never <= 0
BY DEF NoOrder, NoRead, Down, Quiet, Taken, NoContent, EmptyStore, Never

(* An order leaves the store as it was, or becomes its last one.           *)
LEMMA ApplyEffect ==
  ASSUME NEW s \in Stores, NEW o \in Orders, TypeOK, s.savedAt <= clock, o.at <= clock
  PROVE  /\ o.at <= s.appliedAt => ApplyControl(s, o) = s
         /\ \/ ApplyControl(s, o) = s
            \/ /\ ApplyControl(s, o).appliedAt = o.at /\ s.appliedAt < o.at
               /\ ApplyControl(s, o).savedAt <= clock
               /\ o.action = "kill" /\ s.savedAt <= o.at => ApplyControl(s, o).engaged
         /\ s.appliedAt < o.at => ApplyControl(s, o).appliedAt = o.at
<1> DEFINE t == IF o.action = "reset" THEN Wipe(s) ELSE Flip(s, o)
           r == ApplyControl(s, o)
<1>1. o.at \in Nat /\ s.appliedAt \in Nat /\ s.savedAt \in Int /\ clock \in Nat
  BY DEF Orders, Stores, TypeOK
<1>2. AlreadyApplied(s, o) <=> o = NoOrder \/ ~(s.appliedAt < o.at)
  BY <1>1 DEF AlreadyApplied
<1>3. s.appliedAt < o.at => o # NoOrder
  BY <1>1, NoInstant
<1>4. CASE AlreadyApplied(s, o)
  BY <1>1, <1>2, <1>3, <1>4 DEF ApplyControl
<1>5. CASE ~AlreadyApplied(s, o)
  <2>1. Wipe(s) \in Stores /\ Wipe(s).savedAt <= clock
    <3>1. s.wiped \cup s.book \in SUBSET Positions /\ {} \in SUBSET Positions
      BY DEF Stores
    <3>2. Wipe(s) = [s EXCEPT !.savedAt = Never, !.engaged = FALSE, !.book = {},
                              !.wiped = s.wiped \cup s.book]
      BY DEF Wipe, Stores
    <3>3. Never \in Int /\ Never <= clock
      BY <1>1 DEF Never
    <3>4. [s EXCEPT !.savedAt = Never, !.engaged = FALSE, !.book = {},
                    !.wiped = s.wiped \cup s.book] \in Stores
      BY <3>1, <3>3 DEF Stores
    <3>5. Wipe(s).savedAt = Never
      BY <3>2 DEF Stores
    <3> QED  BY <3>2, <3>3, <3>4, <3>5
  <2>2. /\ Flip(s, o) \in Stores /\ Flip(s, o).savedAt <= clock
        /\ o.action = "kill" /\ s.savedAt <= o.at => Flip(s, o).engaged
    <3> DEFINE engaged == o.action = "kill"
    <3>1. engaged \in BOOLEAN /\ s.engaged \in BOOLEAN
      BY DEF Stores
    <3>2. CASE Stale(s, o)
      BY <1>1, <3>2 DEF Flip, Stale
    <3>3. CASE s.savedAt # Never /\ s.engaged = engaged
      BY <3>1, <3>3 DEF Flip
    <3>4. CASE ~Stale(s, o) /\ ~(s.savedAt # Never /\ s.engaged = engaged)
      <4>1. Flip(s, o) = [s EXCEPT !.savedAt = o.at, !.engaged = engaged]
        BY <3>4 DEF Flip
      <4>2. engaged <=> o.action = "kill"
        OBVIOUS
      <4>4. o.at \in Int
        BY <1>1
      <4> HIDE DEF engaged, t, r
      <4>3. Flip(s, o) \in Stores /\ Flip(s, o).savedAt = o.at /\ Flip(s, o).engaged = engaged
        BY <3>1, <4>1, <4>4 DEF Stores
      <4> QED  BY <4>2, <4>3
    <3> QED  BY <3>2, <3>3, <3>4
  <2>3. /\ t \in Stores /\ t.savedAt <= clock
        /\ o.action = "kill" /\ s.savedAt <= o.at => t.engaged
    BY <2>1, <2>2
  <2> HIDE DEF t
  <2>4. r = [t EXCEPT !.appliedAt = o.at, !.last = o]
    BY <1>5 DEF ApplyControl, t
  <2>5. r.appliedAt = o.at /\ r.savedAt = t.savedAt /\ r.engaged = t.engaged
    BY <2>3, <2>4 DEF Stores
  <2> QED  BY <1>1, <1>2, <1>5, <2>3, <2>5
<1> QED  BY <1>4, <1>5

LEMMA RunInvInit == Init => RunInv
<1> SUFFICES ASSUME Init PROVE RunInv
  OBVIOUS
<1>1. ClockInv
  BY NoInstant DEF Init, ClockInv, Older, NoReads
<1>2. QuietInv
  BY DEF Init, QuietInv
<1>3. StoppedInv
  BY NoInstant DEF Init, StoppedInv, KilledDown
<1>4. FlushInv
  BY NoInstant DEF Init, FlushInv
<1> QED  BY <1>1, <1>2, <1>3, <1>4 DEF RunInv

(* A step that leaves the file, the clock, the requests and every copy's   *)
(* stamps and switch alone keeps the invariant: opening, advancing and     *)
(* closing positions, starting and ending a pass.                          *)
LEMMA PassKeeps ==
  ASSUME IInv, RunInv, engine' \in Engines,
         UNCHANGED <<clock, file, saved, publisher>>,
         store'.appliedAt = store.appliedAt,
         \/ store'.savedAt = store.savedAt /\ store'.engaged = store.engaged
         \/ store'.savedAt = engine.at /\ store'.engaged = engine.killed /\ engine.pc = "pass",
         Running, Running', engine'.at <= clock,
         engine'.pc = "pass" => \/ engine'.killed = engine.killed /\ engine.pc = "pass"
                                \/ engine'.killed = store.engaged,
         engine.pc \in {"idle", "pass"}, engine'.pc \in {"idle", "pass", "stopping"},
         \A r \in Slots : reads'[r].order \in {reads[r].order, NoOrder},
         failures' \in Nat, failures' = 0 => failures = 0
  PROVE  RunInv'
<1>1. TypeOK
  BY DEF IInv
<1>2. ClockInv'
  BY <1>1, Instants, NoInstant DEF RunInv, ClockInv, Older
<1>3. QuietInv'
  BY DEF QuietInv
<1>4. StoppedInv'
  BY <1>1, Instants DEF RunInv, StoppedInv, KilledDown, Obeys, Unaware, TypeOK, Engines, Stores
<1>5. FlushInv'
  BY DEF FlushInv
<1> QED  BY <1>2, <1>3, <1>4, <1>5 DEF RunInv

(* A request answered, or swallowed: the store may take one more order,    *)
(* and a publication of it may begin.                                      *)
LEMMA LandKeeps ==
  ASSUME IInv, RunInv, IInv', NEW o \in Orders, o.at <= file.at,
         store' = ApplyControl(store, o) \/ store' = store,
         publisher' = MaybePublish(store'),
         Running,
         UNCHANGED <<clock, file, saved, engine>>,
         \A r \in Slots : reads'[r].order \in {reads[r].order, NoOrder},
         failures' \in Nat, failures' = 0 => failures = 0
  PROVE  RunInv'
<1>1. TypeOK /\ TypeOK'
  BY DEF IInv
<1>2. /\ store \in Stores /\ store' \in Stores /\ o.at \in Nat /\ o.at <= clock
      /\ store.savedAt <= clock /\ store.appliedAt \in Nat /\ file.at \in Nat /\ clock \in Nat
  BY <1>1, Instants DEF TypeOK, Orders, RunInv, ClockInv, Older
<1>3. store' = store \/ /\ store'.appliedAt = o.at /\ store.appliedAt < o.at
                        /\ store'.savedAt <= clock
  BY <1>1, <1>2, ApplyEffect
<1>4. Older(store)' /\ Behind(store)' /\ store.appliedAt <= store'.appliedAt
  BY <1>2, <1>3 DEF RunInv, ClockInv, Older, Behind
<1>5. /\ publisher'.flush = publisher.flush
      /\ publisher'.busy = publisher.busy \/ publisher'.busy.state = store'
  BY <1>1 DEF MaybePublish, TypeOK
<1>6. \A s \in Stores : Behind(s) => Behind(s)'
  <2> SUFFICES ASSUME NEW s \in Stores, Behind(s) PROVE Behind(s)'
    OBVIOUS
  <2>1. s.appliedAt \in Nat
    BY DEF Stores
  <2> QED  BY <1>2, <1>3, <2>1 DEF Behind
<1>7. publisher.busy.state \in Stores /\ publisher.flush.state \in Stores
  BY <1>1, Instants
<1>8. ClockInv'
  BY <1>1, <1>2, <1>4, <1>5, Instants, NoInstant DEF RunInv, ClockInv, Older
<1>9. QuietInv'
  BY DEF QuietInv, Running
<1>10. StoppedInv'
  <2> SUFFICES ASSUME failures = 0, KilledDown
               PROVE  /\ Obeys(store)'
                      /\ (Obeys(saved) \/ Unaware(saved))'
                      /\ (Taken(publisher.busy) => Obeys(publisher.busy.state))'
                      /\ (Taken(publisher.flush) => Obeys(publisher.flush.state))'
                      /\ (engine.pc = "pass" => engine.killed)'
    BY DEF StoppedInv, KilledDown
  <2>1. Obeys(store) /\ store' = store
    BY <1>2, <1>3 DEF RunInv, StoppedInv, Obeys
  <2> QED  BY <1>5, <2>1 DEF RunInv, StoppedInv, Obeys, Unaware, Taken
<1>11. FlushInv'
  <2> SUFFICES ASSUME failures = 0, engine.pc \in {"flushing", "stopped"}
               PROVE  /\ (Taken(publisher.busy) => Behind(publisher.busy.state))'
                      /\ (Taken(publisher.flush) => Behind(publisher.flush.state))'
                      /\ (engine.pc = "flushing" => Taken(publisher.flush))'
                      /\ (engine.pc = "stopped" => Behind(saved))'
    BY DEF FlushInv
  <2>1. (Taken(publisher.busy) => Behind(publisher.busy.state))'
    <3>1. CASE publisher'.busy = publisher.busy
      BY <1>6, <1>7, <3>1 DEF RunInv, FlushInv, Taken, Behind
    <3>2. CASE publisher'.busy.state = store'
      BY <1>4, <3>2 DEF Behind
    <3> QED  BY <1>5, <3>1, <3>2
  <2>2. (Taken(publisher.flush) => Behind(publisher.flush.state))'
    BY <1>5, <1>6, <1>7 DEF RunInv, FlushInv, Taken, Behind
  <2>3. (engine.pc = "stopped" => Behind(saved))'
    BY <1>1, <1>6 DEF RunInv, FlushInv, TypeOK, Behind
  <2> QED  BY <1>5, <2>1, <2>2, <2>3 DEF RunInv, FlushInv, Taken
<1> QED  BY <1>8, <1>9, <1>10, <1>11 DEF RunInv

LEMMA RunInvStep ==
  ASSUME ControlSyncAssumption, IInv, RunInv, IInv', [Next]_vars
  PROVE  RunInv'
<1>t. TypeOK /\ TypeOK' /\ failures \in Nat /\ failures' \in Nat
  BY DEF IInv, TypeOK
<1>e. /\ engine' \in Engines /\ engine.at <= clock
      /\ \A r \in Slots : reads[r].order \in {reads[r].order, NoOrder}
  BY <1>t DEF TypeOK, RunInv, ClockInv
<1> DEFINE Typed == [Slots -> [phase : {"free", "asked", "answered"}, order : Orders]]
<1>1. CASE \E a \in Actions : PhoneOrders(a)
  <2>1. PICK a \in Actions : PhoneOrders(a)
    BY <1>1
  <2>2. /\ file.at < clock /\ file'.at = clock /\ (file'.down <=> ~Running)
        /\ UNCHANGED <<clock, store, saved, engine, reads, publisher, failures>>
    BY <1>t, <2>1, Instants DEF PhoneOrders
  <2>3. ClockInv' /\ QuietInv' /\ FlushInv'
    BY <1>t, <2>2, Instants
       DEF RunInv, ClockInv, Older, QuietInv, Running, FlushInv, Taken, Behind
  <2>4. StoppedInv'
    <3> SUFFICES ASSUME ~Running PROVE StoppedInv'
      BY <2>2 DEF StoppedInv, KilledDown
    <3>1. engine.pc = "down" /\ publisher = Quiet
      BY DEF RunInv, QuietInv, Running
    <3>2. saved.appliedAt < file'.at /\ saved.savedAt <= file'.at
      BY <1>t, <2>2, Instants DEF RunInv, ClockInv, Older
    <3> QED  BY <2>2, <3>1, <3>2, NoInstant DEF StoppedInv, Running, Unaware, Taken
  <2> QED  BY <2>3, <2>4 DEF RunInv
<1>2. CASE Boot
  <2>1. /\ ~Running /\ UNCHANGED <<clock, file, saved, reads, publisher>>
        /\ engine'.pc = "idle" /\ engine'.at = 0
        /\ \/ store' = ApplyControl(saved, file) /\ failures' = failures
           \/ store' = saved /\ failures' = failures + 1
    BY <1>2 DEF Boot, BootStore, Restored, Down
  <2>2. /\ saved \in Stores /\ file \in Orders /\ saved.savedAt <= clock /\ file.at <= clock
        /\ saved.appliedAt <= file.at
    BY <1>t DEF TypeOK, RunInv, ClockInv, Older
  <2>3. publisher = Quiet /\ ~Taken(publisher.busy) /\ ~Taken(publisher.flush)
    BY <2>1, NoInstant DEF RunInv, QuietInv
  <2>4. ClockInv'
    <3>1. Older(store)'
      BY <1>t, <2>1, <2>2, ApplyEffect, Instants DEF Older, RunInv, ClockInv
    <3> QED  BY <1>t, <2>1, <3>1, Instants DEF RunInv, ClockInv, Older
  <2>5. QuietInv' /\ FlushInv'
    BY <2>1 DEF QuietInv, FlushInv, Running
  <2>6. StoppedInv'
    <3> SUFFICES ASSUME failures' = 0, KilledDown PROVE Obeys(store)'
      BY <1>t, <2>1, <2>3 DEF StoppedInv, KilledDown, RunInv, Obeys, Unaware, Taken
    <3>1. failures = 0 /\ store' = ApplyControl(saved, file)
      BY <1>t, <2>1
    <3>2. Obeys(saved) \/ Unaware(saved)
      BY <3>1 DEF RunInv, StoppedInv
    <3>3. CASE Obeys(saved)
      <4>1. store' = saved
        BY <1>t, <2>2, <3>1, <3>3, ApplyEffect, Instants DEF Obeys
      <4> QED  BY <2>1, <3>3, <4>1 DEF Obeys
    <3>4. CASE Unaware(saved)
      <4>1. store'.appliedAt = file.at /\ store'.engaged
        BY <1>t, <2>2, <3>1, <3>4, ApplyEffect, Instants DEF Unaware, KilledDown
      <4> QED  BY <2>1, <4>1 DEF Obeys
    <3> QED  BY <3>2, <3>3, <3>4
  <2> QED  BY <2>4, <2>5, <2>6 DEF RunInv
<1>3. CASE StartPass
  <2>1. /\ UNCHANGED <<clock, file, saved, publisher, store, reads, failures>>
        /\ Running /\ Running' /\ engine.pc = "idle" /\ engine'.pc = "pass"
        /\ engine'.at <= clock /\ engine'.killed = store.engaged
    BY <1>t, <1>3 DEF StartPass, Running, TypeOK, Engines
  <2> QED  BY <1>t, <1>e, <2>1, PassKeeps
<1>4. CASE \E p \in engine.held : Tick(p)
  <2>1. PICK p \in engine.held : Tick(p)
    BY <1>4
  <2>2. store'.appliedAt = store.appliedAt /\ store'.savedAt = store.savedAt
        /\ store'.engaged = store.engaged
    BY <1>t, <2>1 DEF Tick, TypeOK, Stores
  <2>3. /\ UNCHANGED <<clock, file, saved, publisher, engine, reads, failures>>
        /\ engine.pc = "pass" /\ Running /\ Running'
    BY <2>1 DEF Tick, Running
  <2> QED  BY <1>t, <1>e, <2>2, <2>3, PassKeeps
<1>5. CASE \E p \in store.book : ClosePosition(p)
  <2>1. PICK p \in store.book : ClosePosition(p)
    BY <1>5
  <2>2. store'.appliedAt = store.appliedAt /\ store'.savedAt = store.savedAt
        /\ store'.engaged = store.engaged
        /\ engine'.pc = engine.pc /\ engine'.at = engine.at /\ engine'.killed = engine.killed
    BY <1>t, <2>1 DEF ClosePosition, TypeOK, Stores, Engines
  <2>3. /\ UNCHANGED <<clock, file, saved, publisher, reads, failures>>
        /\ engine.pc = "pass" /\ Running /\ Running'
    BY <2>1, <2>2 DEF ClosePosition, Running
  <2> QED  BY <1>t, <1>e, <2>2, <2>3, PassKeeps
<1>6. CASE Open
  <2>2. store'.appliedAt = store.appliedAt /\ store'.savedAt = store.savedAt
        /\ store'.engaged = store.engaged
        /\ engine'.pc = engine.pc /\ engine'.at = engine.at /\ engine'.killed = engine.killed
    BY <1>t, <1>6 DEF Open, TypeOK, Stores, Engines
  <2>3. /\ UNCHANGED <<clock, file, saved, publisher, reads, failures>>
        /\ engine.pc = "pass" /\ Running /\ Running'
    BY <1>6, <2>2 DEF Open, Running
  <2> QED  BY <1>t, <1>e, <2>2, <2>3, PassKeeps
<1>7. CASE EndPass
  <2>1. /\ store'.appliedAt = store.appliedAt /\ store'.savedAt = engine.at
        /\ store'.engaged = engine.killed
        /\ engine'.pc = "idle" /\ engine'.at = 0
    BY <1>t, <1>7 DEF EndPass, Checkpoint, TypeOK, Stores, Engines
  <2>2. \A r \in Slots : reads'[r].order = reads[r].order
    BY <1>t, <1>7 DEF EndPass, LaunchRead, TypeOK
  <2>3. /\ UNCHANGED <<clock, file, saved, publisher, failures>>
        /\ engine.pc = "pass" /\ Running /\ Running' /\ engine'.at <= clock
    BY <1>t, <1>7, <2>1 DEF EndPass, Running, TypeOK
  <2> QED  BY <1>t, <1>e, <2>1, <2>2, <2>3, PassKeeps
<1>8. CASE FailPass
  <2>1. engine'.pc = "idle" /\ engine'.at = 0
    BY <1>t, <1>8 DEF FailPass, TypeOK, Engines
  <2>3. /\ UNCHANGED <<clock, file, saved, publisher, store, reads>> /\ failures' # 0
        /\ engine.pc = "pass" /\ Running /\ Running' /\ engine'.at <= clock
    BY <1>t, <1>8, <2>1 DEF FailPass, Running, TypeOK
  <2> QED  BY <1>t, <1>e, <2>1, <2>3, PassKeeps
<1>9. ASSUME NEW r \in Slots, Fetch(r)
      PROVE  RunInv'
  <2>1. /\ UNCHANGED <<clock, file, store, saved, engine, publisher, failures>>
        /\ reads'[r].order = file /\ \A q \in Slots : q # r => reads'[q] = reads[q]
        /\ Running
    BY <1>t, <1>9 DEF Fetch, TypeOK, RunInv, QuietInv, NoReads, NoRead
  <2>2. ClockInv'
    BY <1>t, <2>1, Instants DEF RunInv, ClockInv, Older
  <2> QED  BY <2>1, <2>2
           DEF RunInv, QuietInv, Running, StoppedInv, KilledDown, Obeys, Unaware, Taken,
               FlushInv, Behind
<1>10. ASSUME NEW r \in Slots, Land(r)
       PROVE  RunInv'
  <2> DEFINE o == reads[r].order
  <2>1. o \in Orders /\ o.at <= file.at /\ Running
    BY <1>t, <1>10 DEF Land, TypeOK, RunInv, ClockInv, QuietInv, NoReads, NoRead
  <2>2. \A q \in Slots : reads'[q].order \in {reads[q].order, NoOrder}
    BY <1>t, <1>10, NoInstant DEF Land, TypeOK
  <2>3. /\ store' = ApplyControl(store, o) /\ publisher' = MaybePublish(store')
        /\ UNCHANGED <<clock, file, saved, engine, failures>>
    BY <1>10 DEF Land
  <2> HIDE DEF o
  <2> QED  BY <1>t, <2>1, <2>2, <2>3, LandKeeps
<1>11. ASSUME NEW r \in Slots, FailRead(r)
       PROVE  RunInv'
  <2>1. Running
    BY <1>t, <1>11 DEF FailRead, TypeOK, RunInv, QuietInv, NoReads, NoRead
  <2>2. \A q \in Slots : reads'[q].order \in {reads[q].order, NoOrder}
    BY <1>t, <1>11, NoInstant DEF FailRead, TypeOK
  <2>3. /\ store' = store /\ publisher' = MaybePublish(store')
        /\ UNCHANGED <<clock, file, saved, engine>> /\ failures' # 0
    BY <1>t, <1>11 DEF FailRead
  <2>4. NoOrder \in Orders /\ NoOrder.at <= file.at
    BY <1>t, InitialOK, NoInstant, Instants
  <2> QED  BY <1>t, <2>1, <2>2, <2>3, <2>4, LandKeeps
<1>12. CASE PublishLands \/ FlushLands
  <2>1. PICK slot \in {"busy", "flush"} :
          /\ Lands(slot)
          /\ slot = "flush" => engine.pc = "flushing" /\ engine'.pc = "stopped"
          /\ slot = "busy" => engine' = engine
    BY <1>t, <1>12 DEF PublishLands, FlushLands, TypeOK, Engines
  <2>2. /\ UNCHANGED <<clock, file, store, reads, failures>>
        /\ engine'.at = engine.at /\ (engine'.pc = "pass" => engine' = engine)
        /\ (Running <=> Running') /\ Running
    BY <1>t, <1>12, <2>1, NoInstant
       DEF PublishLands, FlushLands, TypeOK, Engines, Running, RunInv, QuietInv, Lands, Taken
  <2>3. /\ saved' = publisher[slot].state /\ Taken(publisher[slot])
        /\ publisher'.busy \in {publisher.busy, NoContent}
        /\ publisher'.flush \in {publisher.flush, NoContent}
        /\ slot = "busy" => publisher'.flush = publisher.flush
    BY <1>t, <2>1 DEF Lands, TypeOK, Taken
  <2>4. ClockInv'
    BY <1>t, <2>1, <2>2, <2>3, NoInstant, Instants DEF RunInv, ClockInv, Older
  <2>5. QuietInv'
    BY <2>2 DEF QuietInv
  <2>6. StoppedInv'
    BY <2>1, <2>2, <2>3, NoInstant DEF RunInv, StoppedInv, KilledDown, Obeys, Unaware, Taken
  <2>7. FlushInv'
    <3>1. CASE slot = "busy"
      BY <2>1, <2>2, <2>3, <3>1, NoInstant DEF RunInv, FlushInv, Behind, Taken
    <3>2. CASE slot = "flush"
      BY <2>1, <2>2, <2>3, <3>2, NoInstant DEF RunInv, FlushInv, Behind, Taken
    <3> QED  BY <2>1, <3>1, <3>2
  <2> QED  BY <2>4, <2>5, <2>6, <2>7 DEF RunInv
<1>13. CASE PublishFails \/ FlushFails
  <2>1. /\ failures' # 0 /\ UNCHANGED <<clock, file, store, saved, reads>>
        /\ publisher'.busy \in {publisher.busy, NoContent}
        /\ publisher'.flush \in {publisher.flush, NoContent}
        /\ engine'.at = engine.at /\ Running'
    BY <1>t, <1>13, NoInstant
       DEF PublishFails, FlushFails, TypeOK, Engines, Running, RunInv, QuietInv
  <2>2. ClockInv'
    BY <1>t, <2>1, NoInstant, Instants DEF RunInv, ClockInv, Older
  <2> QED  BY <2>1, <2>2 DEF RunInv, QuietInv, StoppedInv, FlushInv
<1>14. CASE Stop
  <2>1. engine'.pc = "stopping" /\ engine'.at = engine.at /\ engine'.killed = engine.killed
    BY <1>t, <1>14 DEF Stop, TypeOK, Engines
  <2>3. /\ UNCHANGED <<clock, file, saved, publisher, store, reads, failures>>
        /\ engine.pc = "idle" /\ Running /\ Running' /\ engine'.at <= clock
    BY <1>e, <1>14, <2>1 DEF Stop, Running
  <2> QED  BY <1>t, <1>e, <2>1, <2>3, PassKeeps
<1>15. CASE Flush
  <2>1. /\ UNCHANGED <<clock, file, store, saved, reads, failures>>
        /\ engine.pc = "stopping" /\ engine'.pc = "flushing" /\ engine'.at = engine.at
        /\ publisher.busy = NoContent /\ publisher'.busy = NoContent
        /\ publisher'.flush = [at |-> clock, state |-> store]
    BY <1>t, <1>15 DEF Flush, FlushReady, TypeOK, Engines
  <2>2. ClockInv'
    BY <1>t, <2>1, NoInstant, Instants DEF RunInv, ClockInv, Older
  <2>3. publisher'.flush.state = store /\ Taken(publisher.flush)'
    <3>1. clock # Never
      BY <1>t DEF TypeOK, Never
    <3> QED  BY <2>1, <3>1 DEF Taken, NoContent
  <2>4. QuietInv' /\ FlushInv'
    BY <1>t, <2>1, <2>3, NoInstant, Instants DEF QuietInv, Running, FlushInv, Behind
  <2>5. StoppedInv'
    BY <2>1, <2>3, NoInstant
       DEF RunInv, StoppedInv, KilledDown, Running, Obeys, Unaware, Taken
  <2> QED  BY <2>2, <2>4, <2>5 DEF RunInv
<1>16. CASE Exit \/ Crash
  <2>1. /\ engine' = Down /\ store' = EmptyStore /\ publisher' = Quiet /\ reads' = NoReads
        /\ UNCHANGED <<clock, file, saved, failures>>
    BY <1>16 DEF Exit, Drained, Crash
  <2>2. ClockInv'
    <3>1. \A r \in Slots : reads'[r].order = NoOrder
      BY <2>1, NoInstant DEF NoReads
    <3> QED  BY <1>t, <2>1, <3>1, NoInstant, Instants DEF RunInv, ClockInv, Older
  <2>3. QuietInv' /\ FlushInv'
    BY <2>1, NoInstant DEF QuietInv, FlushInv
  <2>4. StoppedInv'
    BY <2>1, NoInstant DEF RunInv, StoppedInv, KilledDown, Running, Obeys, Unaware, Taken
  <2> QED  BY <2>2, <2>3, <2>4 DEF RunInv
<1>17. CASE AdvanceClock \/ UNCHANGED vars
  <2>1. /\ UNCHANGED <<file, store, saved, engine, reads, publisher, failures>>
        /\ clock' \in {clock, clock + 1}
    BY <1>17 DEF AdvanceClock, vars
  <2>2. ClockInv'
    BY <1>t, <2>1, Instants DEF RunInv, ClockInv, Older
  <2> QED  BY <2>1, <2>2
           DEF RunInv, QuietInv, Running, StoppedInv, KilledDown, Obeys, Unaware, Taken,
               FlushInv, Behind
<1> QED  BY <1>1, <1>2, <1>3, <1>4, <1>5, <1>6, <1>7, <1>8, <1>9, <1>10, <1>11, <1>12,
            <1>13, <1>14, <1>15, <1>16, <1>17 DEF Next

LEMMA RunInvCorrect == Spec => [](IInv /\ RunInv)
<1>1. ControlSyncAssumption
  BY ControlSyncAssumption
<1>2. IInv /\ RunInv /\ IInv' /\ [Next]_vars => RunInv'
  BY <1>1, RunInvStep
<1> QED  BY <1>2, IInvCorrect, RunInvInit, PTL DEF Spec

(* ComesBackStopped: while nothing has failed, an engine that was down     *)
(* when the kill was given runs every pass with the switch engaged until   *)
(* the phone gives another order, however often it crashes, flushes and    *)
(* boots from an older publication in between.                             *)
THEOREM ComesBackStoppedUntilAFailure == Spec => [](failures = 0 => ComesBackStopped)
<1>1. RunInv => (failures = 0 => ComesBackStopped)
  BY DEF RunInv, StoppedInv, KilledDown, ComesBackStopped
<1> QED  BY <1>1, RunInvCorrect, PTL

(* FlushKeepsTheBook: while nothing has failed, what the flush leaves      *)
(* published once every request has been answered has the store's book, or *)
(* the order the store applied meanwhile is in the file for the next run.  *)
THEOREM FlushKeepsTheBookUntilAFailure == Spec => [](failures = 0 => FlushKeepsTheBook)
<1>1. IInv /\ RunInv => (failures = 0 => FlushKeepsTheBook)
  <2> SUFFICES ASSUME IInv, RunInv, failures = 0, engine.pc = "stopped"
               PROVE  saved.book = store.book \/ file.at > saved.appliedAt
    BY DEF FlushKeepsTheBook
  <2>1. Behind(saved) /\ store.appliedAt <= file.at
    BY DEF RunInv, FlushInv, ClockInv, Older
  <2>2. /\ saved.appliedAt \in Nat /\ store.appliedAt \in Nat /\ file.at \in Nat
    BY Instants DEF IInv
  <2> QED  BY <2>1, <2>2 DEF Behind
<1> QED  BY <1>1, RunInvCorrect, PTL
=============================================================================
