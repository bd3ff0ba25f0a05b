-------------------------- MODULE Settlement_proofs --------------------------
(***************************************************************************)
(* Proofs about Settlement for every ladder, storage and bound, in three   *)
(* parts.                                                                  *)
(*                                                                         *)
(* What was decided: IInv says the same thing twice, of the store the      *)
(* process reads and of the store a restart would find, and ties the       *)
(* orders the process has in its hands to the decision they came from.     *)
(*                                                                         *)
(* What is held: the tape is always in the order things happened (Flow),   *)
(* so rebuilding the broker from it is a fold that one more fill extends   *)
(* by one step. Until a write fails, then, the cached broker, the tape and *)
(* what the sweep reads off it say the same (LotsInv), a closer's job is   *)
(* one sale (CloseInv), and no slot is retired over a holding (OrphanInv). *)
(*                                                                         *)
(* The record: with those, every step over the durable store is a step of  *)
(* PositionBook or leaves it alone.                                        *)
(***************************************************************************)
EXTENDS MCSettlement, FiniteSetTheorems, WellFoundedInduction, TLAPS

(* `part` is one of the orders the decision of bar `at` wrote down.        *)
InDecision(at, part, d) ==
  \E e \in d : e.bar = at /\ \E k \in DOMAIN e.orders : e.orders[k] = part

Announced(t, d) ==
  \A i \in DOMAIN t : t[i].via = "tick" => InDecision(t[i].at, t[i].part, d)

PendingAnnounced(r, d) ==
  \A k \in DOMAIN r.pending : InDecision(r.lastBar, r.pending[k], d)

(* No bar after the row's last one has been decided, and none twice.       *)
Once(r, d) ==
  /\ \A e \in d : e.bar <= r.lastBar
  /\ \A e \in d, f \in d : e.bar = f.bar => e = f

Canonical(t) ==
  \A i \in DOMAIN t : t[i].n > 0 => Keyed(t, t[i].at, t[i].part, 0)

StoreInv(r, t, d) ==
  /\ Announced(t, d)
  /\ PendingAnnounced(r, d)
  /\ Once(r, d)
  /\ Canonical(t)

(* What the process holds in its hands.                                    *)
JobInv ==
  /\ pc # "idle" /\ job.via = "tick" =>
       \A k \in DOMAIN job.todo : InDecision(job.key, job.todo[k], decided)
  /\ pc = "record" /\ job.via = "tick" => InDecision(job.key, job.part, decided)
  /\ pc = "record" /\ job.n > 0 => Keyed(tape, job.key, job.part, 0)
  /\ pc # "idle" /\ job.next = "decide" => \A b \in job.bars : b > row.lastBar

IInv ==
  /\ TypeOK
  /\ StoreInv(row, tape, decided)
  /\ StoreInv(disk.row, disk.tape, disk.decided)
  /\ JobInv

-----------------------------------------------------------------------------
(* Sequences                                                               *)

(* Every element of the tail is an element of the sequence.                *)
LEMMA TailElements ==
  ASSUME NEW S, NEW s \in Seq(S), s # <<>>
  PROVE  /\ Tail(s) \in Seq(S) /\ Head(s) \in S
         /\ 1 \in DOMAIN s /\ Head(s) = s[1]
         /\ \A k \in DOMAIN Tail(s) : k + 1 \in DOMAIN s /\ Tail(s)[k] = s[k + 1]
  OBVIOUS

(* A tape with one more well-formed fill is a tape: the old fills where    *)
(* they were, the new one last.                                            *)
LEMMA AppendTape ==
  ASSUME NEW t, IsTape(t), NEW f,
         f.at \in Int, f.part \in Orders, f.n \in Nat,
         f.side \in {"buy", "sell"}, f.via \in {"tick", "sweep"}
  PROVE  /\ IsTape(Append(t, f))
         /\ DOMAIN t \subseteq DOMAIN Append(t, f)
         /\ \A i \in DOMAIN t : Append(t, f)[i] = t[i]
         /\ \A i \in DOMAIN Append(t, f) : i \in DOMAIN t \/ Append(t, f)[i] = f
         /\ \E i \in DOMAIN Append(t, f) : Append(t, f)[i] = f
<1> DEFINE R == {t[i] : i \in DOMAIN t}
           u == Append(t, f)
<1>1. t \in Seq(R)
  BY DEF IsTape
<1>2. /\ u \in Seq(R \cup {f}) /\ Len(u) = Len(t) + 1 /\ Len(t) \in Nat
      /\ DOMAIN t = 1..Len(t) /\ DOMAIN u = 1..(Len(t) + 1)
      /\ \A i \in 1..Len(t) : u[i] = t[i]
      /\ u[Len(t) + 1] = f
  <2>1. t \in Seq(R \cup {f})
    BY <1>1
  <2> QED  BY <2>1
<1>3. {u[i] : i \in DOMAIN u} = R \cup {f}
  <2>1. ASSUME NEW i \in DOMAIN u PROVE u[i] \in R \cup {f}
    BY <1>2
  <2>2. ASSUME NEW x \in R \cup {f} PROVE \E i \in DOMAIN u : u[i] = x
    <3>1. CASE x = f
      BY <3>1, <1>2
    <3>2. CASE x \in R
      <4>1. PICK i \in DOMAIN t : x = t[i]
        BY <3>2
      <4>2. i \in DOMAIN u /\ u[i] = x
        BY <4>1, <1>2
      <4> QED  BY <4>2
    <3> QED  BY <3>1, <3>2
  <2> QED  BY <2>1, <2>2
<1>4. u \in Seq({u[i] : i \in DOMAIN u})
  BY <1>2, <1>3
<1>5. \A i \in DOMAIN u : i \in DOMAIN t \/ u[i] = f
  BY <1>2
<1>6. IsTape(u)
  <2> HIDE DEF u
  <2>1. \A i \in DOMAIN t : u[i] = t[i]
    BY <1>2
  <2> QED  BY <1>4, <1>5, <2>1 DEF IsTape
<1> QED  BY <1>2, <1>5, <1>6

-----------------------------------------------------------------------------
(* Type correctness                                                        *)

JobOK(j) ==
  /\ DOMAIN j = {"todo", "key", "time", "next", "via", "bars", "refused", "before",
                 "part", "lots", "n", "stamp"}
  /\ j.todo \in Seq(Orders) /\ j.key \in Int /\ j.next \in Nexts
  /\ j.via \in {"tick", "sweep"} /\ j.bars \subseteq Nat /\ j.n \in Nat

StoreOK(r, t, d) == r \in Rows /\ IsTape(t) /\ d \subseteq Decisions

(* The types of the parts make the type of the whole.                      *)
LEMMA TypeParts ==
  TypeOK <=> /\ clock \in Nat /\ crashes \in Nat /\ failures \in Nat
             /\ StoreOK(row, tape, decided)
             /\ StoreOK(disk.row, disk.tape, disk.decided)
             /\ broker.warm \in BOOLEAN
             /\ pc \in Pcs /\ JobOK(job)
             /\ pc = "record" => job.part \in Orders
<1>1. DOMAIN Idle = {"todo", "key", "time", "next", "via", "bars", "refused", "before",
                     "part", "lots", "n", "stamp"}
  BY DEF Idle
<1> QED  BY <1>1 DEF TypeOK, JobOK, StoreOK

LEMMA IdleOK == JobOK(Idle) /\ Idle.todo = <<>> /\ Idle.next = "idle"
  BY DEF JobOK, Idle, Nexts

(* The order sequences the engine builds.                                  *)
LEMMA OrderSeqs ==
  /\ <<>> \in Seq(Orders)
  /\ \A o \in Orders : <<o>> \in Seq(Orders)
  /\ \A s \in Seq(Orders), t \in Seq(Orders) : s \o t \in Seq(Orders)
  OBVIOUS

(* Whatever the storage, a write leaves on disk what was there or what the *)
(* process now reads.                                                      *)
LEMMA PersistOK ==
  ASSUME Persist
  PROVE  \/ disk' = disk
         \/ disk'.row = row' /\ disk'.tape = tape' /\ disk'.decided = decided'
  BY DEF Persist, Durable

LEMMA BuysAreOrders == Buys \subseteq Orders /\ Sales \subseteq Orders /\ Orders = Buys \cup Sales
  BY DEF Orders

(* A walk is made of bars the clock has seen.                              *)
LEMMA WalkOK ==
  ASSUME clock \in Nat, NEW candles \in CandleSets
  PROVE  Unprocessed(candles, row.lastBar) \subseteq Nat
  BY DEF CandleSets, ClosedBars, Unprocessed

(* The first write under a key wins; either way the result is a tape.      *)
LEMMA RecordOK ==
  ASSUME TypeOK, pc = "record"
  PROVE  /\ IsTape(RecordFill(NextFill))
         /\ \A i \in DOMAIN tape : /\ i \in DOMAIN RecordFill(NextFill)
                                  /\ RecordFill(NextFill)[i] = tape[i]
         /\ \A i \in DOMAIN RecordFill(NextFill) :
              i \in DOMAIN tape \/ RecordFill(NextFill)[i] = NextFill
         /\ Keyed(RecordFill(NextFill), job.key, job.part, job.n)
<1> DEFINE f == NextFill
<1>1. /\ f.at = job.key /\ f.part = job.part /\ f.n = job.n /\ f.via = job.via
      /\ f.side \in {"buy", "sell"}
  BY DEF NextFill
<1>2. /\ f.at \in Int /\ f.part \in Orders /\ f.n \in Nat
      /\ f.side \in {"buy", "sell"} /\ f.via \in {"tick", "sweep"} /\ IsTape(tape)
  BY <1>1 DEF TypeOK
<1> HIDE DEF f
<1>3. CASE Keyed(tape, f.at, f.part, f.n)
  BY <1>1, <1>2, <1>3 DEF RecordFill, f
<1>4. CASE ~Keyed(tape, f.at, f.part, f.n)
  <2>1. RecordFill(f) = Append(tape, f)
    BY <1>4 DEF RecordFill
  <2>2. /\ IsTape(Append(tape, f))
        /\ DOMAIN tape \subseteq DOMAIN Append(tape, f)
        /\ \A i \in DOMAIN tape : Append(tape, f)[i] = tape[i]
        /\ \A i \in DOMAIN Append(tape, f) : i \in DOMAIN tape \/ Append(tape, f)[i] = f
        /\ \E i \in DOMAIN Append(tape, f) : Append(tape, f)[i] = f
    BY <1>2, AppendTape
  <2>3. Keyed(Append(tape, f), job.key, job.part, job.n)
    BY <1>1, <2>2 DEF Keyed
  <2>4. f = NextFill
    BY DEF f
  <2> HIDE DEF f
  <2> QED  BY <2>1, <2>2, <2>3, <2>4
<1> QED  BY <1>3, <1>4

(* The decision of a bar is a sequence of orders, and its level a number.  *)
LEMMA DecisionOK ==
  ASSUME TypeOK, SettlementAssumption,
         NEW entry \in EntryChoices, NEW exit \in ExitChoices,
         NEW orders \in AfterDeath(entry.orders, exit)
  PROVE  /\ orders \in Seq(Orders) /\ entry.level \in Nat
         /\ Ladder.level \in Nat /\ Ladder.inTrade \in BOOLEAN
<1>1. Ladder.level \in Nat /\ Ladder.inTrade \in BOOLEAN
  BY DEF Ladder, TypeOK, Rows, Holding
<1>2. /\ "Exit" \in Orders /\ "DEATH" \in Orders
      /\ \A i \in 1..Len(LotIds) : LotIds[i] \in Orders
      /\ Len(LotIds) \in Nat \ {0}
  BY DEF Orders, Sales, TickSales, Buys, SettlementAssumption
<1>3. entry.orders \in Seq(Orders) /\ entry.level \in Nat
  <2>1. CASE entry = [orders |-> <<>>, level |-> Ladder.level]
    BY <2>1, <1>1
  <2>2. ASSUME NEW n \in 0..(Len(LotIds) - 1),
               entry = [orders |-> <<LotIds[n + 1]>>, level |-> n + 1]
        PROVE  entry.orders \in Seq(Orders) /\ entry.level \in Nat
    <3>1. n + 1 \in 1..Len(LotIds)
      BY <1>2
    <3>2. LotIds[n + 1] \in Orders
      BY <1>2, <3>1
    <3> QED  BY <2>2, <3>2
  <2> QED  BY <2>1, <2>2 DEF EntryChoices
<1>4. exit \in Seq(Orders)
  <2>1. exit = <<>> \/ exit = <<"Exit">>
    BY DEF ExitChoices
  <2> QED  BY <2>1, <1>2, OrderSeqs
<1>5. orders \in Seq(Orders)
  <2>1. <<"DEATH">> \in Seq(Orders) /\ <<>> \in Seq(Orders) /\ entry.orders \o exit \in Seq(Orders)
    BY <1>2, <1>3, <1>4, OrderSeqs
  <2> QED  BY <2>1, <1>4 DEF AfterDeath
<1> QED  BY <1>1, <1>3, <1>5

LEMMA TypeInit == SettlementAssumption /\ Init => TypeOK
<1> SUFFICES ASSUME SettlementAssumption, Init PROVE TypeOK
  OBVIOUS
<1>1. IsTape(<<>>)
  BY DEF IsTape
<1>2. FreshRow \in Rows
  BY DEF FreshRow, Rows
<1>3. {} \subseteq Decisions
  OBVIOUS
<1>4. StoreOK(row, tape, decided) /\ StoreOK(disk.row, disk.tape, disk.decided)
  BY <1>1, <1>2, <1>3 DEF Init, StoreOK
<1>5. JobOK(job) /\ pc = "idle" /\ pc \in Pcs
  BY IdleOK DEF Init, Pcs
<1> QED  BY <1>4, <1>5, TypeParts DEF Init

(* Every step keeps the types.                                             *)
LEMMA TypeStep == SettlementAssumption /\ TypeOK /\ [Next]_vars => TypeOK'
<1> SUFFICES ASSUME SettlementAssumption, TypeOK, [Next]_vars PROVE TypeOK'
  OBVIOUS
<1>t. /\ clock \in Nat /\ crashes \in Nat /\ failures \in Nat
      /\ StoreOK(row, tape, decided)
      /\ StoreOK(disk.row, disk.tape, disk.decided)
      /\ broker.warm \in BOOLEAN
      /\ pc \in Pcs /\ JobOK(job)
      /\ pc = "record" => job.part \in Orders
  BY TypeParts
<1>goal. ASSUME /\ clock' \in Nat /\ crashes' \in Nat /\ failures' \in Nat
                /\ StoreOK(row', tape', decided')
                /\ StoreOK(disk'.row, disk'.tape, disk'.decided)
                /\ broker'.warm \in BOOLEAN
                /\ pc' \in Pcs /\ JobOK(job')
                /\ pc' = "record" => job'.part \in Orders
         PROVE  TypeOK'
  <2>1. DOMAIN job' = DOMAIN Idle
    BY <1>goal DEF JobOK, Idle
  <2> QED  BY <1>goal, <2>1 DEF TypeOK, JobOK, StoreOK
<1>persist. ASSUME Persist, StoreOK(row', tape', decided')
            PROVE  StoreOK(disk'.row, disk'.tape, disk'.decided)
  BY <1>t, <1>persist, PersistOK
<1>warm. BrokerFor.warm \in BOOLEAN
  BY DEF BrokerFor
<1>1. CASE StartTick
  <2>0. PICK candles \in CandleSets : \E bar \in Unprocessed(candles, row.lastBar) :
          job' = [Idle EXCEPT !.todo = row.pending, !.key = PendingKey(bar), !.time = bar,
                              !.next = "decide", !.bars = Unprocessed(candles, row.lastBar)]
    BY <1>1 DEF StartTick
  <2>1. PICK bar \in Unprocessed(candles, row.lastBar) :
          job' = [Idle EXCEPT !.todo = row.pending, !.key = PendingKey(bar), !.time = bar,
                              !.next = "decide", !.bars = Unprocessed(candles, row.lastBar)]
    BY <2>0
  <2>2. JobOK(job')
    BY <2>1, <1>t, WalkOK DEF JobOK, Idle, StoreOK, Rows, PendingKey, Nexts
  <2> QED  BY <1>1, <1>t, <1>warm, <2>2, <1>goal DEF StartTick, Pcs
<1>2. CASE Decide
  <2>1. PICK bar \in job.bars, entry \in EntryChoices, exit \in ExitChoices :
          \E orders \in AfterDeath(entry.orders, exit) : DecideOn(bar, entry.level, orders)
    BY <1>2 DEF Decide
  <2>2. PICK orders \in AfterDeath(entry.orders, exit) : DecideOn(bar, entry.level, orders)
    BY <2>1
  <2>3. /\ orders \in Seq(Orders) /\ entry.level \in Nat /\ Ladder.inTrade \in BOOLEAN
        /\ bar \in Nat /\ job.bars \ {bar} \subseteq Nat
    BY DecisionOK, <1>t DEF JobOK
  <2>4. StoreOK(row', tape', decided')
    <3>1. row' = [row EXCEPT !.lastBar = bar, !.pending = orders,
                             !.level = entry.level, !.inTrade = Ladder.inTrade]
      BY <2>2 DEF DecideOn
    <3>2. row' \in Rows
      <4>1. row \in Rows
        BY <1>t DEF StoreOK
      <4>2. bar \in Int /\ orders \in Seq(Orders) /\ entry.level \in Nat /\ Ladder.inTrade \in BOOLEAN
        BY <2>3
      <4> HIDE DEF Ladder
      <4> QED  BY <3>1, <4>1, <4>2 DEF Rows
    <3>3. decided' = decided \cup {[bar |-> bar, orders |-> orders]}
      BY <2>2 DEF DecideOn
    <3>4. [bar |-> bar, orders |-> orders] \in Decisions
      BY <2>3 DEF Decisions
    <3>5. decided' \subseteq Decisions
      BY <3>3, <3>4, <1>t DEF StoreOK
    <3> QED  BY <3>2, <3>5, <1>t, <1>2 DEF StoreOK, Decide
  <2>5. JobOK(job') /\ pc' \in {"settle", "idle"}
    <3>1. CASE pc' = "settle" /\ job' = [Idle EXCEPT !.todo = orders, !.key = bar, !.time = bar,
                                                    !.next = "clear"]
      BY <3>1, <2>3 DEF JobOK, Idle, Nexts
    <3>2. CASE pc' = "idle" /\ job' = Idle
      BY <3>2, IdleOK
    <3>3. ASSUME NEW open, pc' = "settle",
                 job' = [Idle EXCEPT !.todo = orders, !.key = bar, !.time = open,
                                     !.next = "decide", !.bars = job.bars \ {bar}]
          PROVE  JobOK(job') /\ pc' = "settle"
      BY <3>3, <2>3 DEF JobOK, Idle, Nexts
    <3> QED  BY <2>2, <3>1, <3>2, <3>3 DEF DecideOn
  <2>6. StoreOK(disk'.row, disk'.tape, disk'.decided)
    BY <1>2, <2>4, <1>persist DEF Decide
  <2> QED  BY <1>2, <1>t, <2>4, <2>5, <2>6, <1>goal DEF Decide, Pcs
<1>3. CASE ClearPending
  <2>1. StoreOK(row', tape', decided')
    <3>1. row' \in Rows
      BY <1>3, <1>t, OrderSeqs DEF ClearPending, StoreOK, Rows
    <3> QED  BY <1>3, <1>t, <3>1 DEF ClearPending, StoreOK
  <2> QED  BY <1>3, <1>t, <2>1, <1>persist, <1>goal, IdleOK DEF ClearPending, Pcs
<1>4. CASE SettleSkip \/ SettleRefuse \/ SettleReject
  <2>1. Tail(job.todo) \in Seq(Orders)
    BY <1>4, <1>t, TailElements DEF JobOK, SettleSkip, SettleRefuse, SettleReject
  <2>2. JobOK(job') /\ job'.part = job.part /\ pc' = "settle"
    BY <1>4, <1>t, <2>1 DEF JobOK, SettleSkip, SettleRefuse, SettleReject
  <2> QED  BY <1>4, <1>t, <2>2, <1>goal DEF SettleSkip, SettleRefuse, SettleReject
<1>5. CASE Execute
  <2>1. Tail(job.todo) \in Seq(Orders) /\ Head(job.todo) \in Orders
    BY <1>5, <1>t, TailElements DEF JobOK, Execute
  <2>2. JobOK(job') /\ job'.part \in Orders /\ pc' = "record" /\ broker'.warm \in BOOLEAN
    BY <1>5, <1>t, <2>1 DEF JobOK, Execute
  <2> QED  BY <1>5, <1>t, <2>2, <1>goal DEF Execute, Pcs
<1>6. CASE Record
  <2>1. StoreOK(row', tape', decided')
    BY <1>6, <1>t, RecordOK DEF Record, StoreOK
  <2>2. JobOK(job') /\ pc' \in {"settle", "record"} /\ (pc' = "record" => job'.part \in Orders)
    <3>1. job.n + 1 \in Nat /\ 0 \in Nat
      BY <1>t DEF JobOK
    <3>2. CASE Tail(job.lots) = <<>>
      BY <1>6, <1>t, <3>1, <3>2 DEF Record, JobOK
    <3>3. CASE Tail(job.lots) # <<>>
      BY <1>6, <1>t, <3>1, <3>3 DEF Record, JobOK
    <3> QED  BY <3>2, <3>3
  <2> QED  BY <1>6, <1>t, <2>1, <2>2, <1>persist, <1>goal DEF Record, Pcs
<1>7. CASE SweepBuy \/ RungBuy
  <2>1. \A n \in NextSteps : LotIds[n] \in Orders
    BY BuysAreOrders DEF Buys, NextSteps
  <2>2. JobOK(job') /\ pc' = "settle" /\ broker'.warm \in BOOLEAN
    <3>1. clock \in Int /\ row.lastBar \in Int
      BY <1>t DEF StoreOK, Rows
    <3>2. broker'.warm \in BOOLEAN
      <4>1. CASE broker' = BrokerFor
        BY <4>1, <1>warm
      <4>2. CASE broker' = [warm |-> TRUE, lots |-> Seed(tape)]
        BY <4>2
      <4> QED  BY <1>7, <4>1, <4>2 DEF SweepBuy, RungBuy, FundedBrokers
    <3>3. PICK n \in NextSteps, k \in Int :
            job' = [Idle EXCEPT !.todo = <<LotIds[n]>>, !.key = k, !.time = clock,
                                !.next = "bought", !.via = "sweep"]
      BY <1>7, <3>1 DEF SweepBuy, RungBuy
    <3>4. <<LotIds[n]>> \in Seq(Orders)
      BY <2>1, OrderSeqs
    <3>5. JobOK(job')
      BY <3>3, <3>4 DEF JobOK, Idle, Nexts
    <3> QED  BY <1>7, <3>2, <3>5 DEF SweepBuy, RungBuy
  <2> QED  BY <1>7, <1>t, <2>2, <1>goal DEF SweepBuy, RungBuy, Pcs
<1>8. CASE Bought
  BY <1>8, <1>t, IdleOK, <1>goal DEF Bought, Pcs
<1>9. ASSUME NEW c \in Closers, CloserSale(c) PROVE TypeOK'
  <2>1. c \in Orders /\ c \in Nexts
    BY BuysAreOrders DEF SettlementAssumption, Sales, SweepClosers, AllocatorClosers, Nexts
  <2>2. JobOK(job') /\ pc' = "settle"
    BY <1>9, <1>t, <2>1 DEF CloserSale, JobOK, Idle, StoreOK, Rows
  <2> QED  BY <1>9, <1>t, <2>2, <1>warm, <1>goal DEF CloserSale, Pcs
<1>10. ASSUME NEW c \in Closers, Close(c) PROVE TypeOK'
  <2>1. StoreOK(row', tape', decided')
    BY <1>10, <1>t DEF Close, StoreOK, Rows, Retires
  <2> QED  BY <1>10, <1>t, <2>1, <1>persist, <1>goal, IdleOK DEF Close, Pcs
<1>11. CASE Release
  <2>1. StoreOK(row', tape', decided')
    BY <1>11, <1>t DEF Release, StoreOK, Rows
  <2> QED  BY <1>11, <1>t, <2>1, <1>persist, <1>goal DEF Release
<1>12. CASE Recapitalise
  BY <1>12, <1>t, <1>goal DEF Recapitalise
<1>13. CASE AdvanceClock
  BY <1>13, <1>t, <1>goal DEF AdvanceClock
<1>14. CASE Publish
  BY <1>14, <1>t, <1>goal DEF Publish
<1>15. CASE StoreFails
  BY <1>15, <1>t, IdleOK, <1>goal DEF StoreFails, Pcs
<1>16. CASE Crash
  BY <1>16, <1>t, IdleOK, <1>goal DEF Crash, Pcs
<1>17. CASE UNCHANGED vars
  BY <1>17, <1>t, <1>goal DEF vars
<1> QED  BY <1>1, <1>2, <1>3, <1>4, <1>5, <1>6, <1>7, <1>8, <1>9, <1>10, <1>11, <1>12,
            <1>13, <1>14, <1>15, <1>16, <1>17 DEF Next

(* Every variable keeps its type, whatever crashes or fails.               *)
THEOREM TypeCorrect == Spec => []TypeOK
<1>1. SettlementAssumption
  BY SettlementAssumption
<1> QED  BY <1>1, TypeInit, TypeStep, PTL DEF Spec

-----------------------------------------------------------------------------
(* The inductive invariant                                                 *)

(* A decision once written down stays written down.                        *)
LEMMA DecisionsStay ==
  ASSUME NEW d, NEW e, d \subseteq e, NEW at, NEW part, InDecision(at, part, d)
  PROVE  InDecision(at, part, e)
  BY DEF InDecision

(* Deciding a bar later than the row's last keeps the store's invariant    *)
(* and announces each of its orders.                                       *)
LEMMA DecisionStored ==
  ASSUME TypeOK, StoreInv(row, tape, decided),
         NEW bar \in Nat, bar > row.lastBar, NEW orders \in Seq(Orders), NEW level,
         row' = [row EXCEPT !.lastBar = bar, !.pending = orders,
                           !.level = level, !.inTrade = Ladder.inTrade],
         decided' = decided \cup {[bar |-> bar, orders |-> orders]},
         tape' = tape
  PROVE  /\ StoreInv(row', tape', decided')
         /\ \A k \in DOMAIN orders : InDecision(bar, orders[k], decided')
         /\ row'.lastBar = bar
<1>1. row \in Rows /\ row.lastBar \in Int /\ decided \subseteq Decisions
  BY DEF TypeOK, Rows
<1>2. row'.lastBar = bar /\ row'.pending = orders
  BY <1>1 DEF Rows
<1>3. \A k \in DOMAIN orders : InDecision(bar, orders[k], decided')
  <2>1. [bar |-> bar, orders |-> orders] \in decided'
    OBVIOUS
  <2> QED  BY <2>1 DEF InDecision
<1>4. PendingAnnounced(row', decided')
  BY <1>2, <1>3 DEF PendingAnnounced
<1>5. Announced(tape', decided')
  BY DecisionsStay DEF StoreInv, Announced
<1>6. Once(row', decided')
  <2>1. \A e \in decided : e.bar \in Int /\ e.bar <= row.lastBar
    BY <1>1 DEF Decisions, StoreInv, Once
  <2>2. \A e \in decided : e.bar < bar
    BY <2>1, <1>1
  <2>3. \A e \in decided' : e \in decided \/ e = [bar |-> bar, orders |-> orders]
    OBVIOUS
  <2>4. \A e \in decided' : e.bar <= bar
    BY <2>1, <2>2, <2>3, <1>1
  <2>5. ASSUME NEW e \in decided', NEW f \in decided', e.bar = f.bar PROVE e = f
    <3>1. CASE e \in decided /\ f \in decided
      BY <2>5, <3>1 DEF StoreInv, Once
    <3>2. CASE e \notin decided /\ f \notin decided
      BY <2>3, <3>2
    <3>3. CASE e \in decided /\ f \notin decided
      <4>1. e.bar < bar /\ f.bar = bar /\ e.bar \in Int
        BY <2>1, <2>2, <2>3, <3>3
      <4> QED  BY <4>1, <2>5
    <3>4. CASE e \notin decided /\ f \in decided
      <4>1. f.bar < bar /\ e.bar = bar /\ f.bar \in Int
        BY <2>1, <2>2, <2>3, <3>4
      <4> QED  BY <4>1, <2>5
    <3> QED  BY <3>1, <3>2, <3>3, <3>4
  <2> QED  BY <1>2, <2>4, <2>5 DEF Once
<1>7. Canonical(tape')
  BY DEF StoreInv
<1> QED  BY <1>2, <1>3, <1>4, <1>5, <1>6, <1>7 DEF StoreInv

(* Recording a fill of an announced order, its canonical key first, keeps  *)
(* the store's invariant.                                                  *)
LEMMA FillStored ==
  ASSUME TypeOK, StoreInv(row, tape, decided), JobInv, pc = "record",
         tape' = RecordFill(NextFill), UNCHANGED <<row, decided>>
  PROVE  /\ StoreInv(row', tape', decided')
         /\ Keyed(tape', job.key, job.part, 0)
<1> DEFINE f == NextFill
<1>1. /\ f.at = job.key /\ f.part = job.part /\ f.n = job.n /\ f.via = job.via
  BY DEF NextFill
<1>2. /\ \A i \in DOMAIN tape : i \in DOMAIN tape' /\ tape'[i] = tape[i]
      /\ \A i \in DOMAIN tape' : i \in DOMAIN tape \/ tape'[i] = f
      /\ Keyed(tape', job.key, job.part, job.n)
  BY RecordOK
<1> HIDE DEF f
<1>3. \A at, part, n : Keyed(tape, at, part, n) => Keyed(tape', at, part, n)
  BY <1>2 DEF Keyed
<1>4. Keyed(tape', job.key, job.part, 0)
  <2>1. CASE job.n > 0
    BY <2>1, <1>3 DEF JobInv
  <2>2. CASE job.n = 0
    BY <2>2, <1>2
  <2> QED  BY <2>1, <2>2 DEF TypeOK
<1>5. Announced(tape', decided')
  <2> SUFFICES ASSUME NEW i \in DOMAIN tape', tape'[i].via = "tick"
               PROVE  InDecision(tape'[i].at, tape'[i].part, decided)
    BY DEF Announced
  <2>1. CASE i \in DOMAIN tape
    BY <2>1, <1>2 DEF StoreInv, Announced
  <2>2. CASE tape'[i] = f
    BY <2>2, <1>1 DEF JobInv
  <2> QED  BY <2>1, <2>2, <1>2
<1>6. Canonical(tape')
  <2> SUFFICES ASSUME NEW i \in DOMAIN tape', tape'[i].n > 0
               PROVE  Keyed(tape', tape'[i].at, tape'[i].part, 0)
    BY DEF Canonical
  <2>1. CASE i \in DOMAIN tape
    BY <2>1, <1>2, <1>3 DEF StoreInv, Canonical
  <2>2. CASE tape'[i] = f
    BY <2>2, <1>1, <1>4
  <2> QED  BY <2>1, <2>2, <1>2
<1> QED  BY <1>4, <1>5, <1>6 DEF StoreInv, PendingAnnounced, Once

LEMMA IInvInit == SettlementAssumption /\ Init => IInv
<1> SUFFICES ASSUME SettlementAssumption, Init PROVE IInv
  OBVIOUS
<1>1. StoreInv(row, tape, decided)
  BY DEF Init, FreshRow, StoreInv, Announced, PendingAnnounced, Once, Canonical
<1>2. disk.row = row /\ disk.tape = tape /\ disk.decided = decided
  BY DEF Init
<1>3. JobInv
  BY DEF Init, JobInv
<1> QED  BY <1>1, <1>2, <1>3, TypeInit DEF IInv

(* Every step keeps the invariant.                                         *)
LEMMA IInvStep == SettlementAssumption /\ IInv /\ [Next]_vars => IInv'
<1> SUFFICES ASSUME SettlementAssumption, IInv, [Next]_vars PROVE IInv'
  OBVIOUS
<1>t. TypeOK /\ TypeOK'
  BY TypeStep DEF IInv
<1>s. StoreInv(row, tape, decided) /\ StoreInv(disk.row, disk.tape, disk.decided) /\ JobInv
  BY DEF IInv
<1>goal. ASSUME /\ StoreInv(row', tape', decided')
                /\ StoreInv(disk'.row, disk'.tape, disk'.decided)
                /\ JobInv'
         PROVE  IInv'
  BY <1>t, <1>goal DEF IInv
<1>persist. ASSUME Persist, StoreInv(row', tape', decided')
            PROVE  StoreInv(disk'.row, disk'.tape, disk'.decided)
  BY <1>s, <1>persist, PersistOK
<1>store. ASSUME UNCHANGED <<row, tape, disk, decided>>, JobInv' PROVE IInv'
  BY <1>s, <1>goal, <1>store
<1>idle. ASSUME pc' = "idle" PROVE JobInv'
  BY <1>idle DEF JobInv
<1>1. CASE StartTick
  <2>1. PICK candles \in CandleSets : \E bar \in Unprocessed(candles, row.lastBar) :
          job' = [Idle EXCEPT !.todo = row.pending, !.key = PendingKey(bar), !.time = bar,
                              !.next = "decide", !.bars = Unprocessed(candles, row.lastBar)]
    BY <1>1 DEF StartTick
  <2>2. /\ job'.todo = row.pending /\ job'.key = row.lastBar
        /\ job'.bars = Unprocessed(candles, row.lastBar)
    BY <2>1 DEF Idle, PendingKey
  <2>3. JobInv'
    BY <1>1, <1>s, <2>2 DEF StartTick, JobInv, StoreInv, PendingAnnounced, Unprocessed
  <2> QED  BY <1>1, <1>store, <2>3 DEF StartTick
<1>2. CASE Decide
  <2>1. PICK bar \in job.bars, entry \in EntryChoices, exit \in ExitChoices :
          \E orders \in AfterDeath(entry.orders, exit) : DecideOn(bar, entry.level, orders)
    BY <1>2 DEF Decide
  <2>2. PICK orders \in AfterDeath(entry.orders, exit) : DecideOn(bar, entry.level, orders)
    BY <2>1
  <2>3. /\ bar \in Nat /\ bar > row.lastBar /\ orders \in Seq(Orders)
        /\ job.bars \subseteq Nat
    BY <1>2, <1>s, <1>t, DecisionOK DEF TypeOK, JobInv, Decide, Settled
  <2>4. /\ StoreInv(row', tape', decided')
        /\ \A k \in DOMAIN orders : InDecision(bar, orders[k], decided')
        /\ row'.lastBar = bar
    BY <1>2, <1>s, <1>t, <2>2, <2>3, DecisionStored DEF DecideOn, Decide
  <2>5. JobInv'
    <3>1. ASSUME pc' = "settle", job'.todo = orders, job'.key = bar, \A b \in job'.bars : b > bar
          PROVE  JobInv'
      BY <3>1, <2>4 DEF JobInv
    <3>2. CASE pc' = "settle" /\ job' = [Idle EXCEPT !.todo = orders, !.key = bar, !.time = bar,
                                                    !.next = "clear"]
      <4>1. job'.todo = orders /\ job'.key = bar /\ job'.bars = {}
        BY <3>2 DEF Idle
      <4> QED  BY <3>1, <3>2, <4>1
    <3>3. CASE pc' = "idle"
      BY <3>3, <1>idle
    <3>4. ASSUME NEW open, pc' = "settle",
                 job' = [Idle EXCEPT !.todo = orders, !.key = bar, !.time = open,
                                     !.next = "decide", !.bars = job.bars \ {bar}]
          PROVE  JobInv'
      <4>1. IsFirst(bar, job.bars)
        BY <2>2 DEF DecideOn
      <4>2. \A b \in job.bars \ {bar} : b > bar
        BY <2>3, <4>1 DEF IsFirst
      <4>3. job'.todo = orders /\ job'.key = bar /\ job'.bars = job.bars \ {bar}
        BY <3>4 DEF Idle
      <4> QED  BY <3>1, <3>4, <4>2, <4>3
    <3> QED  BY <2>2, <3>2, <3>3, <3>4 DEF DecideOn
  <2> QED  BY <1>2, <1>persist, <1>goal, <2>4, <2>5 DEF Decide
<1>3. CASE ClearPending
  <2>1. row'.pending = <<>> /\ row'.lastBar = row.lastBar
    BY <1>3, <1>t DEF ClearPending, TypeOK, Rows
  <2>2. StoreInv(row', tape', decided')
    BY <1>3, <1>s, <2>1 DEF ClearPending, StoreInv, PendingAnnounced, Once
  <2> QED  BY <1>3, <1>idle, <1>persist, <1>goal, <2>2 DEF ClearPending
<1>4. CASE SettleSkip \/ SettleRefuse \/ SettleReject
  <2>1. /\ pc = "settle" /\ pc' = "settle"
        /\ job.todo # <<>> /\ job.todo \in Seq(Orders)
        /\ job'.todo = Tail(job.todo) /\ job'.key = job.key /\ job'.via = job.via
        /\ job'.next = job.next /\ job'.bars = job.bars
    BY <1>4, <1>t DEF SettleSkip, SettleRefuse, SettleReject, TypeOK, Idle
  <2>2. UNCHANGED <<row, tape, disk, decided>>
    BY <1>4 DEF SettleSkip, SettleRefuse, SettleReject
  <2>3. JobInv'
    BY <1>s, <2>1, <2>2, TailElements DEF JobInv
  <2> QED  BY <1>store, <2>2, <2>3
<1>5. CASE Execute
  <2>1. /\ pc = "settle" /\ pc' = "record"
        /\ job.todo # <<>> /\ job.todo \in Seq(Orders)
        /\ job'.todo = Tail(job.todo) /\ job'.part = Head(job.todo) /\ job'.n = 0
        /\ job'.key = job.key /\ job'.via = job.via
        /\ job'.next = job.next /\ job'.bars = job.bars
    BY <1>5, <1>t DEF Execute, TypeOK, Idle
  <2>2. UNCHANGED <<row, tape, disk, decided>>
    BY <1>5 DEF Execute
  <2>3. JobInv'
    BY <1>s, <2>1, <2>2, TailElements DEF JobInv
  <2> QED  BY <1>store, <2>2, <2>3
<1>6. CASE Record
  <2>1. StoreInv(row', tape', decided') /\ Keyed(tape', job.key, job.part, 0)
    BY <1>6, <1>s, <1>t, FillStored DEF Record
  <2>2. /\ job'.todo = job.todo /\ job'.key = job.key /\ job'.via = job.via
        /\ job'.next = job.next /\ job'.bars = job.bars
        /\ pc' = "record" => job'.part = job.part
        /\ pc' \in {"settle", "record"}
    BY <1>6, <1>t DEF Record, TypeOK, Idle
  <2>3. JobInv'
    BY <1>6, <1>s, <2>1, <2>2 DEF Record, JobInv
  <2> QED  BY <1>6, <1>persist, <1>goal, <2>1, <2>3 DEF Record
<1>7. CASE SweepBuy \/ RungBuy
  <2>1. PICK n, k : job' = [Idle EXCEPT !.todo = <<LotIds[n]>>, !.key = k, !.time = clock,
                                        !.next = "bought", !.via = "sweep"]
    BY <1>7 DEF SweepBuy, RungBuy
  <2>2. job'.via = "sweep" /\ job'.next = "bought" /\ job'.n = 0
    BY <2>1 DEF Idle
  <2>3. JobInv'
    BY <2>2 DEF JobInv
  <2> QED  BY <1>7, <1>store, <2>3 DEF SweepBuy, RungBuy
<1>8. CASE Bought \/ Recapitalise \/ AdvanceClock \/ StoreFails \/ UNCHANGED vars
  <2>1. pc' = "idle" \/ (pc' = pc /\ job' = job)
    BY <1>8 DEF Bought, Recapitalise, AdvanceClock, StoreFails, vars
  <2>2. UNCHANGED <<row, tape, disk, decided>>
    BY <1>8 DEF Bought, Recapitalise, AdvanceClock, StoreFails, vars
  <2>3. JobInv'
    BY <1>s, <1>idle, <2>1, <2>2 DEF JobInv
  <2> QED  BY <1>store, <2>2, <2>3
<1>9. ASSUME NEW c \in Closers, CloserSale(c) PROVE IInv'
  <2>1. job'.via = "sweep" /\ job'.next = c /\ job'.n = 0 /\ c # "decide"
    BY <1>9 DEF CloserSale, Idle, SettlementAssumption
  <2>2. JobInv'
    BY <2>1 DEF JobInv
  <2> QED  BY <1>9, <1>store, <2>2 DEF CloserSale
<1>10. ASSUME NEW c \in Closers, Close(c) PROVE IInv'
  <2>1. row'.pending = row.pending /\ row'.lastBar = row.lastBar
    BY <1>10, <1>t DEF Close, TypeOK, Rows
  <2>2. StoreInv(row', tape', decided')
    BY <1>10, <1>s, <2>1 DEF Close, StoreInv, PendingAnnounced, Once
  <2> QED  BY <1>10, <1>idle, <1>persist, <1>goal, <2>2 DEF Close
<1>11. CASE Release
  <2>1. row'.pending = row.pending /\ row'.lastBar = row.lastBar
    BY <1>11, <1>t DEF Release, TypeOK, Rows
  <2>2. StoreInv(row', tape', decided')
    BY <1>11, <1>s, <2>1 DEF Release, StoreInv, PendingAnnounced, Once
  <2>3. pc' = "idle"
    BY <1>11 DEF Release
  <2> QED  BY <1>11, <1>idle, <1>persist, <1>goal, <2>2, <2>3 DEF Release
<1>12. CASE Publish
  <2>1. JobInv'
    BY <1>12, <1>s DEF Publish, JobInv
  <2> QED  BY <1>12, <1>s, <1>goal, <2>1 DEF Publish
<1>13. CASE Crash
  BY <1>13, <1>s, <1>idle, <1>goal DEF Crash
<1> QED  BY <1>1, <1>2, <1>3, <1>4, <1>5, <1>6, <1>7, <1>8, <1>9, <1>10, <1>11, <1>12,
            <1>13 DEF Next

LEMMA IInvCorrect == Spec => []IInv
<1>1. SettlementAssumption
  BY SettlementAssumption
<1> QED  BY <1>1, IInvInit, IInvStep, PTL DEF Spec

(* Whatever dies and whatever fails, a fill of the tick is a fill of a     *)
(* decision that was written down under the bar that decided it.           *)
THEOREM AnnouncedBeforeFilledAlways == Spec => []AnnouncedBeforeFilled
<1>1. IInv => AnnouncedBeforeFilled
  BY DEF IInv, StoreInv, Announced, InDecision, AnnouncedBeforeFilled
<1> QED  BY <1>1, IInvCorrect, PTL

(* A close that was half recorded has its canonical fill on the tape, so   *)
(* recovery never sells it again.                                          *)
THEOREM CanonicalFirstAlways == Spec => []CanonicalFirst
<1>1. IInv => CanonicalFirst
  BY DEF IInv, StoreInv, Canonical, CanonicalFirst, HasFill
<1> QED  BY <1>1, IInvCorrect, PTL

(* No bar is decided twice, across any crash and any failed write.         *)
THEOREM DecidedOnceAlways == Spec => []DecidedOnce
<1>1. IInv => DecidedOnce
  BY DEF IInv, StoreInv, Once, DecidedOnce
<1> QED  BY <1>1, IInvCorrect, PTL

-----------------------------------------------------------------------------
(* Folds over sequences: what PaperBroker.seed and holdingBuys are.        *)

(* A set of numbers that is not empty has a least one: what stands in for  *)
(* induction here, the library's induction theorems being out of reach.    *)
LEMMA LeastNatural ==
  ASSUME NEW T \in SUBSET Nat, T # {}
  PROVE  \E x \in T : \A y \in T : x <= y
<1> DEFINE R == OpToRel(<, Nat)
<1>1. IsWellFoundedOn(R, Nat)
  BY NatLessThanWellFounded
<1>2. \A x, y \in Nat : y < x => <<y, x>> \in R
  BY DEF OpToRel
<1> HIDE DEF R
<1>3. PICK x \in T : \A y \in T : ~ (<<y, x>> \in R)
  BY <1>1, WFMin
<1>4. \A y \in T : x <= y
  <2> TAKE y \in T
  <2>1. ~(y < x)
    BY <1>2, <1>3
  <2> QED  BY <2>1
<1> QED  BY <1>4

(* The function a fold's recursion defines, over the sets of places.       *)
Folded(h, F, base, seq, D) ==
  \A s \in SUBSET D : h[s] = IF s = {} THEN base ELSE F[h[s \ {Max(s)}], seq[Max(s)]]

(* A set of places is finite, and when it is not empty has a last one.     *)
LEMMA PlacesAreFinite ==
  ASSUME NEW n \in Nat, NEW s \in SUBSET (1..n)
  PROVE  /\ IsFiniteSet(s) /\ Cardinality(s) \in Nat
         /\ s # {} => /\ Max(s) \in s /\ \A y \in s : y <= Max(s)
                      /\ Cardinality(s \ {Max(s)}) = Cardinality(s) - 1
<1>1. IsFiniteSet(s) /\ Cardinality(s) \in Nat
  <2>1. IsFiniteSet(1..n)
    BY FS_Interval
  <2>2. IsFiniteSet(s)
    BY <2>1, FS_Subset
  <2> QED  BY <2>2, FS_CardinalityType
<1>2. ASSUME s # {} PROVE \E x \in s : \A y \in s : x >= y
  <2> DEFINE T == {n - x : x \in s}
  <2>1. T \in SUBSET Nat /\ T # {}
    <3>1. \A x \in s : n - x \in Nat
      OBVIOUS
    <3> QED  BY <1>2, <3>1
  <2>2. PICK t \in T : \A u \in T : t <= u
    <3> HIDE DEF T
    <3> QED  BY <2>1, LeastNatural
  <2>3. PICK x \in s : t = n - x
    BY <2>2
  <2>4. \A y \in s : x >= y
    <3> TAKE y \in s
    <3>1. n - x <= n - y
      BY <2>2, <2>3
    <3> QED  BY <3>1
  <2> QED  BY <2>4
<1>3. ASSUME s # {} PROVE Max(s) \in s /\ \A y \in s : y <= Max(s)
  <2>1. Max(s) \in s /\ \A y \in s : Max(s) >= y
    BY <1>2, <1>3 DEF Max
  <2> QED  BY <2>1
<1> QED  BY <1>1, <1>3, FS_RemoveElement

(* There is a function that satisfies the recursion of a fold.             *)
LEMMA FoldExists ==
  ASSUME NEW A, NEW B, NEW F \in [A \X B -> A], NEW base \in A, NEW n \in Nat, NEW seq \in [1..n -> B]
  PROVE  \E h \in [SUBSET (1..n) -> A] : Folded(h, F, base, seq, 1..n)
<1> DEFINE P == SUBSET (1..n)
           Step(h, s) == IF s = {} THEN base ELSE F[h[s \ {Max(s)}], seq[Max(s)]]
           Upto(h, k) == \A s \in P : Cardinality(s) <= k => h[s] = Step(h, s)
           Bad == {k \in Nat : ~ \E h \in [P -> A] : Upto(h, k)}
<1>1. \A s \in P : /\ IsFiniteSet(s) /\ Cardinality(s) \in Nat
                   /\ s # {} => /\ Max(s) \in s /\ s \ {Max(s)} \in P
                                /\ Cardinality(s \ {Max(s)}) = Cardinality(s) - 1
  BY PlacesAreFinite
<1>2. \A h \in [P -> A], s \in P : Step(h, s) \in A
  BY <1>1
<1>3. Bad = {}
  <2> SUFFICES ASSUME Bad # {} PROVE FALSE
    OBVIOUS
  <2>1. PICK k \in Bad : \A m \in Bad : k <= m
    <3> HIDE DEF Bad
    <3>1. Bad \in SUBSET Nat
      BY DEF Bad
    <3> QED  BY <3>1, LeastNatural
  <2>2. k # 0
    <3> SUFFICES ASSUME k = 0 PROVE FALSE
      OBVIOUS
    <3> DEFINE h == [s \in P |-> base]
    <3>1. \A s \in P : Cardinality(s) <= 0 => s = {}
      <4> TAKE s \in P
      <4>1. IsFiniteSet(s) /\ Cardinality(s) \in Nat
        BY <1>1
      <4>2. Cardinality(s) = 0 <=> s = {}
        BY <4>1, FS_EmptySet
      <4> HIDE DEF h, P, Bad
      <4> QED  BY <4>1, <4>2
    <3>2. Upto(h, 0) /\ h \in [P -> A]
      BY <3>1
    <3> QED  BY <2>1, <3>2
  <2>3. k - 1 \in Nat /\ k \in Nat
    <3>1. k \in Nat
      BY <2>1
    <3> HIDE DEF Bad
    <3> QED  BY <2>2, <3>1
  <2>4. PICK h \in [P -> A] : Upto(h, k - 1)
    <3>1. k - 1 \notin Bad
      <4> HIDE DEF Bad
      <4> QED  BY <2>1, <2>3
    <3> HIDE DEF Upto
    <3> QED  BY <2>3, <3>1
  <2> DEFINE g == [s \in P |-> IF Cardinality(s) <= k - 1 THEN h[s] ELSE Step(h, s)]
  <2>5. g \in [P -> A]
    <3> HIDE DEF Step
    <3> QED  BY <1>2
  <2>6. ASSUME NEW s \in P, Cardinality(s) <= k
        PROVE  g[s] = Step(g, s)
    <3>1. Step(g, s) = Step(h, s)
      <4>1. CASE s = {}
        BY <4>1
      <4>2. CASE s # {}
        <5> DEFINE t == s \ {Max(s)}
        <5>1. t \in P /\ Cardinality(t) = Cardinality(s) - 1 /\ Cardinality(s) \in Nat
          BY <1>1, <4>2
        <5>2. Cardinality(t) <= k - 1
          <6>1. Cardinality(t) \in Nat
            BY <1>1, <5>1
          <6> HIDE DEF t, g, Step, Bad
          <6> QED  BY <2>3, <2>6, <5>1, <6>1
        <5>3. g[t] = h[t]
          BY <5>1, <5>2
        <5> HIDE DEF g
        <5> QED  BY <4>2, <5>3
      <4> QED  BY <4>1, <4>2
    <3>2. g[s] = Step(h, s)
      <4> HIDE DEF Step
      <4> QED  BY <2>4
    <3> QED  BY <3>1, <3>2
  <2>7. Upto(g, k)
    <3> HIDE DEF g, Step
    <3> QED  BY <2>6
  <2> QED
    <3> HIDE DEF g, Upto
    <3> QED  BY <2>1, <2>5, <2>7
<1>4. Cardinality(1..n) \in Nat /\ \A s \in P : Cardinality(s) <= Cardinality(1..n)
  <2>1. IsFiniteSet(1..n)
    BY FS_Interval
  <2> QED  BY <2>1, FS_Subset, FS_CardinalityType
<1>5. PICK h \in [P -> A] : Upto(h, Cardinality(1..n))
  <2> HIDE DEF Upto
  <2> QED  BY <1>3, <1>4
<1>6. Folded(h, F, base, seq, 1..n)
  BY <1>4, <1>5 DEF Folded
<1> QED  BY <1>6

(* Two folds of sequences agree as far as the sequences do.                *)
BothFold(h, seq, D, g, longer, E, F, base) ==
  /\ Folded(h, F, base, seq, D) /\ Folded(g, F, base, longer, E)
  /\ D \subseteq E /\ \E n \in Nat : E = 1..n
  /\ \A i \in D : longer[i] = seq[i]

(* Two folds agree on the places their sequences share.                    *)
LEMMA FoldsAgree ==
  ASSUME NEW F, NEW base, NEW D, NEW E, NEW seq, NEW longer, NEW h, NEW g,
         BothFold(h, seq, D, g, longer, E, F, base)
  PROVE  \A s \in SUBSET D : g[s] = h[s]
<1> DEFINE P == SUBSET D
           Bad == {Cardinality(s) : s \in {s \in P : g[s] # h[s]}}
<1> SUFFICES ASSUME Bad # {} PROVE FALSE
  OBVIOUS
<1>0. \A s \in P : /\ IsFiniteSet(s) /\ Cardinality(s) \in Nat
                   /\ s # {} => /\ Max(s) \in s
                                /\ Cardinality(s \ {Max(s)}) = Cardinality(s) - 1
  <2>1. PICK n \in Nat : E = 1..n
    BY DEF BothFold
  <2>2. \A s \in P : s \in SUBSET (1..n)
    BY <2>1 DEF BothFold
  <2> QED  BY <2>2, PlacesAreFinite
<1>1. PICK k \in Bad : \A l \in Bad : k <= l
  <2>1. Bad \in SUBSET Nat
    BY <1>0
  <2> HIDE DEF Bad
  <2> QED  BY <2>1, LeastNatural
<1>2. PICK s \in P : g[s] # h[s] /\ k = Cardinality(s)
  BY <1>1
<1>3. s \in SUBSET E
  BY DEF BothFold
<1>4. /\ h[s] = IF s = {} THEN base ELSE F[h[s \ {Max(s)}], seq[Max(s)]]
      /\ g[s] = IF s = {} THEN base ELSE F[g[s \ {Max(s)}], longer[Max(s)]]
  BY <1>3 DEF BothFold, Folded
<1>5. s # {}
  BY <1>2, <1>4
<1> DEFINE t == s \ {Max(s)}
<1>6. t \in P /\ Cardinality(t) = Cardinality(s) - 1 /\ Cardinality(s) \in Nat /\ Cardinality(t) \in Nat
  BY <1>0, <1>5
<1>7. g[t] = h[t]
  <2>1. Cardinality(t) \notin Bad
    <3> HIDE DEF Bad, t
    <3> QED  BY <1>1, <1>2, <1>6
  <2> HIDE DEF t
  <2> QED  BY <1>6, <2>1
<1>8. longer[Max(s)] = seq[Max(s)]
  BY <1>0, <1>5 DEF BothFold
<1> QED  BY <1>2, <1>4, <1>5, <1>7, <1>8

-----------------------------------------------------------------------------
(* The tape                                                                *)

(* A tape in the order things happened, of fills of this ladder.           *)
FillSet == [at : Int, part : Orders, n : Nat, lot : Buys, time : Int,
            side : {"buy", "sell"}, via : {"tick", "sweep"}]

InOrder(t) == \A i, j \in DOMAIN t : i < j => t[i].time <= t[j].time

TapeOK(t) == t \in Seq(FillSet) /\ InOrder(t)

(* What a tape is made of; on it, earlier means before.                    *)
LEMMA TapeFacts ==
  ASSUME NEW t, TapeOK(t)
  PROVE  /\ Len(t) \in Nat /\ DOMAIN t = 1..Len(t)
         /\ \A i \in DOMAIN t : t[i] \in FillSet
         /\ \A i, j \in DOMAIN t : Earlier(t, j, i) <=> j < i
<1>1. t \in Seq(FillSet) /\ Len(t) \in Nat /\ DOMAIN t = 1..Len(t)
  BY DEF TapeOK
<1>2. \A i \in DOMAIN t : t[i] \in FillSet
  BY <1>1
<1>3. ASSUME NEW i \in DOMAIN t, NEW j \in DOMAIN t
      PROVE  Earlier(t, j, i) <=> j < i
  <2>1. i \in Nat /\ j \in Nat /\ t[i].time \in Int /\ t[j].time \in Int
    BY <1>1, <1>2 DEF FillSet
  <2>2. /\ i < j => t[i].time <= t[j].time
        /\ j < i => t[j].time <= t[i].time
    BY DEF TapeOK, InOrder
  <2> QED  BY <2>1, <2>2 DEF Earlier
<1> QED  BY <1>1, <1>2, <1>3

(* Such a tape is its own sorting.                                         *)
LEMMA SortedIsTape ==
  ASSUME NEW t, TapeOK(t)
  PROVE  Sorted(t) = t
<1>1. Len(t) \in Nat /\ DOMAIN t = 1..Len(t) /\ t \in Seq(FillSet)
  BY TapeFacts DEF TapeOK
<1>2. ASSUME NEW i \in DOMAIN t PROVE Rank(t, i) = i
  <2>1. {j \in DOMAIN t : Earlier(t, j, i)} = 1..(i - 1)
    <3>1. i \in 1..Len(t)
      BY <1>1
    <3>2. \A j \in 1..Len(t) : Earlier(t, j, i) <=> j < i
      BY <1>1, TapeFacts
    <3>3. 1..(i - 1) = {j \in 1..Len(t) : j < i}
      BY <1>1, <3>1
    <3> QED  BY <1>1, <3>2, <3>3
  <2>2. Cardinality(1..(i - 1)) = i - 1
    <3>1. 1 \in Int /\ i - 1 \in Int /\ i \in Nat /\ i >= 1
      BY <1>1
    <3>2. Cardinality(1..(i - 1)) = IF 1 > i - 1 THEN 0 ELSE (i - 1) - 1 + 1
      BY <3>1, FS_Interval
    <3> QED  BY <3>1, <3>2
  <2>3. i \in Nat
    BY <1>1
  <2>4. Rank(t, i) = 1 + Cardinality(1..(i - 1))
    BY <2>1 DEF Rank
  <2> QED  BY <2>2, <2>3, <2>4
<1>3. \A r \in DOMAIN t : (CHOOSE i \in DOMAIN t : Rank(t, i) = r) = r
  BY <1>2
<1>4. Sorted(t) = [r \in DOMAIN t |-> t[r]]
  <2> DEFINE place(r) == CHOOSE i \in DOMAIN t : Rank(t, i) = r
  <2>1. Sorted(t) = [r \in DOMAIN t |-> t[place(r)]]
    BY DEF Sorted
  <2>2. \A r \in DOMAIN t : place(r) = r
    BY <1>3
  <2> HIDE DEF place
  <2> QED  BY <2>1, <2>2
<1> QED  BY <1>1, <1>4

(* A fill no older than the rest may be added.                             *)
LEMMA LongerTape ==
  ASSUME NEW t, TapeOK(t), NEW f \in FillSet, \A i \in DOMAIN t : t[i].time <= f.time
  PROVE  /\ TapeOK(Append(t, f))
         /\ Len(Append(t, f)) = Len(t) + 1 /\ Append(t, f)[Len(t) + 1] = f
         /\ DOMAIN Append(t, f) = 1..(Len(t) + 1)
         /\ \A i \in DOMAIN t : Append(t, f)[i] = t[i]
<1>1. /\ t \in Seq(FillSet) /\ Len(t) \in Nat /\ DOMAIN t = 1..Len(t)
      /\ DOMAIN Append(t, f) = 1..(Len(t) + 1) /\ Append(t, f)[Len(t) + 1] = f
      /\ \A i \in DOMAIN t : Append(t, f)[i] = t[i]
      /\ Append(t, f) \in Seq(FillSet) /\ Len(Append(t, f)) = Len(t) + 1
  BY DEF TapeOK
<1> DEFINE u == Append(t, f)
<1>2. ASSUME NEW i \in DOMAIN u, NEW j \in DOMAIN u, i < j
      PROVE  u[i].time <= u[j].time
  <2>1. i \in DOMAIN t
    BY <1>1, <1>2
  <2>2. CASE j \in DOMAIN t
    BY <1>1, <1>2, <2>1, <2>2 DEF TapeOK, InOrder
  <2>3. CASE j \notin DOMAIN t
    <3>1. j = Len(t) + 1
      BY <1>1, <2>3
    <3> QED  BY <1>1, <2>1, <3>1
  <2> QED  BY <2>2, <2>3
<1> HIDE DEF u
<1> QED  BY <1>1, <1>2 DEF TapeOK, InOrder, u

-----------------------------------------------------------------------------
(* What a fill does to the lots.                                           *)

(* A sale of the oldest lot takes it off the front.                        *)
LEMMA ReplayFacts ==
  ASSUME NEW lots \in Seq(Buys), NEW f \in FillSet
  PROVE  /\ Replay(lots, f) \in Seq(Buys)
         /\ f.side = "buy" => Replay(lots, f) = Append(lots, f.lot)
         /\ f.side = "sell" /\ lots # <<>> /\ f.lot = Head(lots) => Replay(lots, f) = Tail(lots)
<1>1. f.lot \in Buys
  BY DEF FillSet
<1>2. CASE f.side = "buy"
  BY <1>1, <1>2 DEF Replay
<1>3. CASE f.side # "buy" /\ \E i \in DOMAIN lots : lots[i] = f.lot
  <2> DEFINE I == {i \in 1..Len(lots) : lots[i] = f.lot}
             k == SelectInSeq(lots, LAMBDA l : l = f.lot)
  <2>1. I \in SUBSET (1..Len(lots)) /\ I # {} /\ I \in SUBSET Nat /\ Len(lots) \in Nat
    BY <1>3
  <2>2. PICK x \in I : \A y \in I : x <= y
    <3> HIDE DEF I
    <3> QED  BY <2>1, LeastNatural
  <2>3. Min(I) \in I /\ \A y \in I : Min(I) <= y
    <3>1. \E z \in I : \A y \in I : z =< y
      BY <2>2
    <3> HIDE DEF I
    <3> QED  BY <3>1 DEF Min
  <2>4. k = Min(I)
    BY <2>1 DEF SelectInSeq
  <2>5. k \in 1..Len(lots) /\ \A y \in I : k <= y
    BY <2>3, <2>4
  <2>6. Replay(lots, f) = RemoveAt(lots, k)
    BY <1>3 DEF Replay
  <2> HIDE DEF k
  <2>7. RemoveAt(lots, k) \in Seq(Buys)
    <3>1. SubSeq(lots, 1, k - 1) \in Seq(Buys) /\ SubSeq(lots, k + 1, Len(lots)) \in Seq(Buys)
      BY <2>1, <2>5
    <3> QED  BY <3>1 DEF RemoveAt
  <2>8. ASSUME f.side = "sell", lots # <<>>, f.lot = Head(lots)
        PROVE  Replay(lots, f) = Tail(lots)
    <3>1. 1 \in I
      BY <2>1, <2>8
    <3>2. k = 1
      BY <2>5, <3>1
    <3>3. /\ SubSeq(lots, 1, 0) = <<>> /\ SubSeq(lots, 2, Len(lots)) = Tail(lots)
          /\ Tail(lots) \in Seq(Buys)
      BY <2>8
    <3>4. <<>> \o Tail(lots) = Tail(lots)
      BY <3>3
    <3> QED  BY <2>6, <3>2, <3>3, <3>4 DEF RemoveAt
  <2> QED  BY <1>3, <2>6, <2>7, <2>8
<1>4. CASE f.side # "buy" /\ ~ \E i \in DOMAIN lots : lots[i] = f.lot
  <2>1. Replay(lots, f) = lots
    BY <1>4 DEF Replay
  <2>2. lots # <<>> => Head(lots) = lots[1] /\ 1 \in DOMAIN lots
    OBVIOUS
  <2> QED  BY <1>4, <2>1, <2>2
<1> QED  BY <1>2, <1>3, <1>4

-----------------------------------------------------------------------------
(* The broker rebuilt from the tape                                        *)

(* Replay over the fills of this ladder, as a function.                    *)
Replays == [x \in Seq(Buys) \X FillSet |-> Replay(x[1], x[2])]

SeedStep(h, t, s) == IF s = {} THEN <<>> ELSE Replay(h[s \ {Max(s)}], t[Max(s)])
IsSeed(h, t) == h = [s \in SUBSET (DOMAIN t) |-> SeedStep(h, t, s)]

(* Rebuilding the broker is such a fold.                                   *)
LEMMA SeedIsFold ==
  ASSUME NEW t, TapeOK(t)
  PROVE  \E h : /\ h \in [SUBSET (DOMAIN t) -> Seq(Buys)]
                /\ Folded(h, Replays, <<>>, t, DOMAIN t)
                /\ Seed(t) = h[DOMAIN t]
<1> DEFINE n == Len(t)
<1>1. n \in Nat /\ DOMAIN t = 1..n /\ t \in [1..n -> FillSet]
  BY TapeFacts DEF TapeOK
<1>2. Replays \in [Seq(Buys) \X FillSet -> Seq(Buys)]
  BY ReplayFacts DEF Replays
<1>3. <<>> \in Seq(Buys)
  OBVIOUS
<1> HIDE DEF n
<1>4. PICK g \in [SUBSET (1..n) -> Seq(Buys)] : Folded(g, Replays, <<>>, t, 1..n)
  BY <1>1, <1>2, <1>3, FoldExists
<1>5. ASSUME NEW h, NEW s \in SUBSET (1..n), s # {}, h[s \ {Max(s)}] \in Seq(Buys)
      PROVE  Replays[h[s \ {Max(s)}], t[Max(s)]] = Replay(h[s \ {Max(s)}], t[Max(s)])
  <2>1. Max(s) \in 1..n
    BY <1>1, <1>5, PlacesAreFinite
  <2>2. t[Max(s)] \in FillSet
    BY <1>1, <2>1
  <2> QED  BY <1>5, <2>2 DEF Replays
<1>6. IsSeed(g, t)
  <2>1. ASSUME NEW s \in SUBSET (1..n) PROVE g[s] = SeedStep(g, t, s)
    <3>1. s \ {Max(s)} \in SUBSET (1..n)
      OBVIOUS
    <3>2. g[s \ {Max(s)}] \in Seq(Buys)
      BY <1>4, <3>1
    <3> QED  BY <1>4, <1>5, <3>2 DEF Folded, SeedStep
  <2>2. g = [s \in SUBSET (1..n) |-> g[s]]
    BY <1>4
  <2> QED  BY <1>1, <2>1, <2>2 DEF IsSeed
<1> DEFINE h == CHOOSE h : IsSeed(h, t)
<1>7. IsSeed(h, t)
  BY <1>6
<1>8. Seed(t) = h[DOMAIN t]
  <2>1. Seed(t) = FoldLeft(Replay, <<>>, t)
    BY SortedIsTape DEF Seed
  <2> QED  BY <2>1 DEF FoldLeft, MapThenFoldSet, IsSeed, SeedStep
<1> HIDE DEF h
<1>9. \A s \in SUBSET (1..n) : h[s] = SeedStep(h, t, s)
  BY <1>1, <1>7 DEF IsSeed
<1> DEFINE P == SUBSET (1..n)
           Bad == {Cardinality(s) : s \in {s \in P : h[s] \notin Seq(Buys)}}
<1>10. Bad = {}
  <2> SUFFICES ASSUME Bad # {} PROVE FALSE
    OBVIOUS
  <2>1. PICK k \in Bad : \A l \in Bad : k <= l
    <3>1. Bad \in SUBSET Nat
      BY <1>1, PlacesAreFinite
    <3> HIDE DEF Bad
    <3> QED  BY <3>1, LeastNatural
  <2>2. PICK s \in P : h[s] \notin Seq(Buys) /\ k = Cardinality(s)
    BY <2>1
  <2>3. h[s] = SeedStep(h, t, s)
    BY <1>9
  <2>4. s # {}
    BY <1>3, <2>2, <2>3 DEF SeedStep
  <2> DEFINE r == s \ {Max(s)}
  <2>5. r \in P /\ Cardinality(r) = Cardinality(s) - 1 /\ Cardinality(s) \in Nat /\ Cardinality(r) \in Nat
    BY <1>1, <2>4, PlacesAreFinite
  <2>6. h[r] \in Seq(Buys)
    <3>1. Cardinality(r) \notin Bad
      <4> HIDE DEF Bad, r
      <4> QED  BY <2>1, <2>2, <2>5
    <3> HIDE DEF r
    <3> QED  BY <2>5, <3>1
  <2>7. t[Max(s)] \in FillSet
    <3>1. Max(s) \in 1..n
      BY <1>1, <2>4, PlacesAreFinite
    <3> QED  BY <1>1, <3>1
  <2>8. Replay(h[r], t[Max(s)]) \in Seq(Buys)
    BY <2>6, <2>7, ReplayFacts
  <2> QED  BY <2>2, <2>3, <2>4, <2>8 DEF SeedStep
<1>11. \A s \in P : h[s] \in Seq(Buys)
  BY <1>10
<1>12. h \in [SUBSET (DOMAIN t) -> Seq(Buys)]
  <2>1. h = [s \in P |-> SeedStep(h, t, s)]
    BY <1>1, <1>7 DEF IsSeed
  <2> QED  BY <1>1, <1>9, <1>11, <2>1
<1>13. Folded(h, Replays, <<>>, t, 1..n)
  <2> SUFFICES ASSUME NEW s \in SUBSET (1..n)
               PROVE  h[s] = IF s = {} THEN <<>> ELSE Replays[h[s \ {Max(s)}], t[Max(s)]]
    BY DEF Folded
  <2>1. s \ {Max(s)} \in P
    OBVIOUS
  <2>2. h[s \ {Max(s)}] \in Seq(Buys)
    BY <1>11, <2>1
  <2> QED  BY <1>5, <1>9, <2>2 DEF SeedStep
<1> QED  BY <1>1, <1>8, <1>12, <1>13

(* The last place of a longer tape.                                        *)
LEMMA LastPlace ==
  ASSUME NEW n \in Nat
  PROVE  Max(1..(n + 1)) = n + 1 /\ (1..(n + 1)) \ {n + 1} = 1..n
<1>1. 1..(n + 1) \in SUBSET (1..(n + 1)) /\ n + 1 \in Nat /\ n + 1 \in 1..(n + 1)
  OBVIOUS
<1>2. Max(1..(n + 1)) \in 1..(n + 1) /\ \A y \in 1..(n + 1) : y <= Max(1..(n + 1))
  BY <1>1, PlacesAreFinite
<1> QED  BY <1>1, <1>2

(* Rebuilding the broker from a longer tape is one more fill.              *)
LEMMA SeedAppend ==
  ASSUME NEW t, TapeOK(t), NEW f \in FillSet, TapeOK(Append(t, f))
  PROVE  Seed(Append(t, f)) = Replay(Seed(t), f)
<1> DEFINE n == Len(t)
           u == Append(t, f)
<1>1. /\ n \in Nat /\ DOMAIN t = 1..n /\ DOMAIN u = 1..(n + 1) /\ Len(u) = n + 1
      /\ u[n + 1] = f /\ \A i \in 1..n : u[i] = t[i]
  BY DEF TapeOK
<1> HIDE DEF n, u
<1>2. TapeOK(u)
  BY DEF u
<1>3. PICK h : /\ h \in [SUBSET (DOMAIN t) -> Seq(Buys)] /\ Folded(h, Replays, <<>>, t, 1..n)
               /\ Seed(t) = h[1..n]
  BY <1>1, SeedIsFold
<1>4. PICK g : /\ g \in [SUBSET (DOMAIN u) -> Seq(Buys)] /\ Folded(g, Replays, <<>>, u, 1..(n + 1))
               /\ Seed(u) = g[1..(n + 1)]
  BY <1>1, <1>2, SeedIsFold
<1>5. n + 1 \in Nat /\ n <= n + 1
  BY <1>1
<1>6. g[1..n] = h[1..n]
  <2> DEFINE D == 1..n
             E == 1..(n + 1)
  <2>1. D \subseteq E /\ \E m \in Nat : E = 1..m
    BY <1>1, <1>5
  <2>2. BothFold(h, t, D, g, u, E, Replays, <<>>)
    BY <1>1, <1>3, <1>4, <2>1 DEF BothFold
  <2> HIDE DEF D, E
  <2>3. \A s \in SUBSET D : g[s] = h[s]
    BY <2>2, FoldsAgree
  <2> QED  BY <2>3 DEF D
<1>7. Max(1..(n + 1)) = n + 1 /\ (1..(n + 1)) \ {n + 1} = 1..n /\ 1..(n + 1) # {}
  <2>1. n \in Nat
    BY <1>1
  <2>2. Max(1..(n + 1)) = n + 1 /\ (1..(n + 1)) \ {n + 1} = 1..n
    BY <2>1, LastPlace
  <2>3. 1..(n + 1) # {}
    BY <2>1
  <2> QED  BY <2>2, <2>3
<1>8. g[1..(n + 1)] = Replays[g[1..n], f]
  <2>1. 1..(n + 1) \in SUBSET (1..(n + 1))
    OBVIOUS
  <2> QED  BY <1>1, <1>4, <1>7, <2>1 DEF Folded
<1>9. h[1..n] \in Seq(Buys)
  BY <1>1, <1>3
<1>10. Replays[h[1..n], f] = Replay(h[1..n], f)
  BY <1>9 DEF Replays
<1> QED  BY <1>1, <1>3, <1>4, <1>6, <1>8, <1>10 DEF u

(* The rebuilt broker holds entries of this ladder.                        *)
LEMMA SeedFacts ==
  ASSUME NEW t, TapeOK(t)
  PROVE  Seed(t) \in Seq(Buys)
<1>1. PICK h : h \in [SUBSET (DOMAIN t) -> Seq(Buys)] /\ Seed(t) = h[DOMAIN t]
  BY SeedIsFold
<1> QED  BY <1>1

(* No fills, nothing held.                                                 *)
LEMMA SeedEmpty == TapeOK(<<>>) /\ Seed(<<>>) = <<>>
<1>1. TapeOK(<<>>) /\ DOMAIN <<>> = {} /\ Len(<<>>) = 0
  BY DEF TapeOK, InOrder
<1>2. PICK h : Folded(h, Replays, <<>>, <<>>, {}) /\ Seed(<<>>) = h[{}]
  BY <1>1, SeedIsFold
<1> QED  BY <1>1, <1>2 DEF Folded

-----------------------------------------------------------------------------
(* The sweep's reading of the tape                                         *)

(* The same of the sweep's reading of the tape.                            *)
Totals  == [qty : Nat, buys : Nat]
Nothing == [qty |-> 0, buys |-> 0]
Count(t) == FoldLeft(CountBuys, Nothing, Sorted(t))

(* What one fill does to the sweep's totals.                               *)
LEMMA CountType ==
  ASSUME NEW h \in Totals, NEW f \in FillSet
  PROVE  /\ CountBuys(h, f) \in Totals
         /\ f.side = "buy" => CountBuys(h, f).qty = h.qty + 1
         /\ f.side = "sell" /\ h.qty > 0 => CountBuys(h, f).qty = h.qty - 1
<1>1. h.qty \in Nat /\ h.buys \in Nat
  BY DEF Totals
<1>2. CASE f.side = "buy"
  BY <1>1, <1>2 DEF CountBuys, Totals
<1>3. CASE f.side # "buy" /\ h.qty <= 1
  BY <1>1, <1>3 DEF CountBuys, Totals
<1>4. CASE f.side # "buy" /\ h.qty > 1
  <2>1. CountBuys(h, f) = [h EXCEPT !.qty = h.qty - 1]
    BY <1>1, <1>4 DEF CountBuys
  <2>2. h.qty - 1 \in Nat
    BY <1>1, <1>4
  <2> QED  BY <1>4, <2>1, <2>2 DEF Totals
<1> QED  BY <1>1, <1>2, <1>3, <1>4

Counts == [x \in Totals \X FillSet |-> CountBuys(x[1], x[2])]

CountStep(h, t, s) == IF s = {} THEN Nothing ELSE CountBuys(h[s \ {Max(s)}], t[Max(s)])
IsCount(h, t) == h = [s \in SUBSET (DOMAIN t) |-> CountStep(h, t, s)]

(* The sweep's reading is such a fold.                                     *)
LEMMA CountIsFold ==
  ASSUME NEW t, TapeOK(t)
  PROVE  \E h : /\ h \in [SUBSET (DOMAIN t) -> Totals]
                /\ Folded(h, Counts, Nothing, t, DOMAIN t)
                /\ Count(t) = h[DOMAIN t]
<1> DEFINE n == Len(t)
<1>1. n \in Nat /\ DOMAIN t = 1..n /\ t \in [1..n -> FillSet]
  BY TapeFacts DEF TapeOK
<1>2. Counts \in [Totals \X FillSet -> Totals]
  BY CountType DEF Counts
<1>3. Nothing \in Totals
  BY DEF Nothing, Totals
<1> HIDE DEF n
<1>4. PICK g \in [SUBSET (1..n) -> Totals] : Folded(g, Counts, Nothing, t, 1..n)
  BY <1>1, <1>2, <1>3, FoldExists
<1>5. ASSUME NEW h, NEW s \in SUBSET (1..n), s # {}, h[s \ {Max(s)}] \in Totals
      PROVE  Counts[h[s \ {Max(s)}], t[Max(s)]] = CountBuys(h[s \ {Max(s)}], t[Max(s)])
  <2>1. Max(s) \in 1..n
    BY <1>1, <1>5, PlacesAreFinite
  <2>2. t[Max(s)] \in FillSet
    BY <1>1, <2>1
  <2> QED  BY <1>5, <2>2 DEF Counts
<1>6. IsCount(g, t)
  <2>1. ASSUME NEW s \in SUBSET (1..n) PROVE g[s] = CountStep(g, t, s)
    <3>1. s \ {Max(s)} \in SUBSET (1..n)
      OBVIOUS
    <3>2. g[s \ {Max(s)}] \in Totals
      BY <1>4, <3>1
    <3> QED  BY <1>4, <1>5, <3>2 DEF Folded, CountStep
  <2>2. g = [s \in SUBSET (1..n) |-> g[s]]
    BY <1>4
  <2> QED  BY <1>1, <2>1, <2>2 DEF IsCount
<1> DEFINE h == CHOOSE h : IsCount(h, t)
<1>7. IsCount(h, t)
  BY <1>6
<1>8. Count(t) = h[DOMAIN t]
  <2>1. Count(t) = FoldLeft(CountBuys, Nothing, t)
    BY SortedIsTape DEF Count, Nothing
  <2> QED  BY <2>1 DEF FoldLeft, MapThenFoldSet, IsCount, CountStep
<1> HIDE DEF h
<1>9. \A s \in SUBSET (1..n) : h[s] = CountStep(h, t, s)
  BY <1>1, <1>7 DEF IsCount
<1> DEFINE P == SUBSET (1..n)
           Bad == {Cardinality(s) : s \in {s \in P : h[s] \notin Totals}}
<1>10. Bad = {}
  <2> SUFFICES ASSUME Bad # {} PROVE FALSE
    OBVIOUS
  <2>1. PICK k \in Bad : \A l \in Bad : k <= l
    <3>1. Bad \in SUBSET Nat
      BY <1>1, PlacesAreFinite
    <3> HIDE DEF Bad
    <3> QED  BY <3>1, LeastNatural
  <2>2. PICK s \in P : h[s] \notin Totals /\ k = Cardinality(s)
    BY <2>1
  <2>3. h[s] = CountStep(h, t, s)
    BY <1>9
  <2>4. s # {}
    BY <1>3, <2>2, <2>3 DEF CountStep
  <2> DEFINE r == s \ {Max(s)}
  <2>5. r \in P /\ Cardinality(r) = Cardinality(s) - 1 /\ Cardinality(s) \in Nat /\ Cardinality(r) \in Nat
    BY <1>1, <2>4, PlacesAreFinite
  <2>6. h[r] \in Totals
    <3>1. Cardinality(r) \notin Bad
      <4> HIDE DEF Bad, r
      <4> QED  BY <2>1, <2>2, <2>5
    <3> HIDE DEF r
    <3> QED  BY <2>5, <3>1
  <2>7. t[Max(s)] \in FillSet
    <3>1. Max(s) \in 1..n
      BY <1>1, <2>4, PlacesAreFinite
    <3> QED  BY <1>1, <3>1
  <2>8. CountBuys(h[r], t[Max(s)]) \in Totals
    BY <2>6, <2>7, CountType
  <2> QED  BY <2>2, <2>3, <2>4, <2>8 DEF CountStep
<1>11. \A s \in P : h[s] \in Totals
  BY <1>10
<1>12. h \in [SUBSET (DOMAIN t) -> Totals]
  <2>1. h = [s \in P |-> CountStep(h, t, s)]
    BY <1>1, <1>7 DEF IsCount
  <2> QED  BY <1>1, <1>9, <1>11, <2>1
<1>13. Folded(h, Counts, Nothing, t, 1..n)
  <2> SUFFICES ASSUME NEW s \in SUBSET (1..n)
               PROVE  h[s] = IF s = {} THEN Nothing ELSE Counts[h[s \ {Max(s)}], t[Max(s)]]
    BY DEF Folded
  <2>1. s \ {Max(s)} \in P
    OBVIOUS
  <2>2. h[s \ {Max(s)}] \in Totals
    BY <1>11, <2>1
  <2> QED  BY <1>5, <1>9, <2>2 DEF CountStep
<1> QED  BY <1>1, <1>8, <1>12, <1>13

(* Reading a longer tape is counting one more fill.                        *)
LEMMA CountAppend ==
  ASSUME NEW t, TapeOK(t), NEW f \in FillSet, TapeOK(Append(t, f))
  PROVE  Count(Append(t, f)) = CountBuys(Count(t), f)
<1> DEFINE n == Len(t)
           u == Append(t, f)
<1>1. /\ n \in Nat /\ DOMAIN t = 1..n /\ DOMAIN u = 1..(n + 1) /\ Len(u) = n + 1
      /\ u[n + 1] = f /\ \A i \in 1..n : u[i] = t[i]
  BY DEF TapeOK
<1> HIDE DEF n, u
<1>2. TapeOK(u)
  BY DEF u
<1>3. PICK h : /\ h \in [SUBSET (DOMAIN t) -> Totals] /\ Folded(h, Counts, Nothing, t, 1..n)
               /\ Count(t) = h[1..n]
  BY <1>1, CountIsFold
<1>4. PICK g : /\ g \in [SUBSET (DOMAIN u) -> Totals] /\ Folded(g, Counts, Nothing, u, 1..(n + 1))
               /\ Count(u) = g[1..(n + 1)]
  BY <1>1, <1>2, CountIsFold
<1>5. n + 1 \in Nat /\ n <= n + 1
  BY <1>1
<1>6. g[1..n] = h[1..n]
  <2> DEFINE D == 1..n
             E == 1..(n + 1)
  <2>1. D \subseteq E /\ \E m \in Nat : E = 1..m
    BY <1>1, <1>5
  <2>2. BothFold(h, t, D, g, u, E, Counts, Nothing)
    BY <1>1, <1>3, <1>4, <2>1 DEF BothFold
  <2> HIDE DEF D, E
  <2>3. \A s \in SUBSET D : g[s] = h[s]
    BY <2>2, FoldsAgree
  <2> QED  BY <2>3 DEF D
<1>7. Max(1..(n + 1)) = n + 1 /\ (1..(n + 1)) \ {n + 1} = 1..n /\ 1..(n + 1) # {}
  <2>1. n \in Nat
    BY <1>1
  <2>2. Max(1..(n + 1)) = n + 1 /\ (1..(n + 1)) \ {n + 1} = 1..n
    BY <2>1, LastPlace
  <2>3. 1..(n + 1) # {}
    BY <2>1
  <2> QED  BY <2>2, <2>3
<1>8. g[1..(n + 1)] = Counts[g[1..n], f]
  <2>1. 1..(n + 1) \in SUBSET (1..(n + 1))
    OBVIOUS
  <2> QED  BY <1>1, <1>4, <1>7, <2>1 DEF Folded
<1>9. h[1..n] \in Totals
  BY <1>1, <1>3
<1>10. Counts[h[1..n], f] = CountBuys(h[1..n], f)
  BY <1>9 DEF Counts
<1> QED  BY <1>1, <1>3, <1>4, <1>6, <1>8, <1>10 DEF u

(* The sweep reads numbers.                                                *)
LEMMA CountFacts ==
  ASSUME NEW t, TapeOK(t)
  PROVE  Count(t) \in Totals
<1>1. PICK h : h \in [SUBSET (DOMAIN t) -> Totals] /\ Count(t) = h[DOMAIN t]
  BY CountIsFold
<1> QED  BY <1>1

(* No fills, no totals.                                                    *)
LEMMA CountEmpty == Count(<<>>) = Nothing
<1>1. TapeOK(<<>>) /\ DOMAIN <<>> = {}
  BY DEF TapeOK, InOrder
<1>2. PICK h : Folded(h, Counts, Nothing, <<>>, {}) /\ Count(<<>>) = h[{}]
  BY <1>1, CountIsFold
<1> QED  BY <1>1, <1>2 DEF Folded

(* The sweep reads the process's own tape.                                 *)
LEMMA HoldingsCount == Holdings = Count(tape)
  BY DEF Holdings, Count, Nothing

-----------------------------------------------------------------------------
(* What is bought, sold and held                                           *)

(* How often a lot is held, and how often it was bought or sold.           *)
Places(lots, l) == {k \in DOMAIN lots : lots[k] = l}
Of(t, side, l)  == {j \in DOMAIN t : t[j].side = side /\ t[j].lot = l}

(* A broker holds each entry a number of times.                            *)
LEMMA PlacesFinite ==
  ASSUME NEW lots \in Seq(Buys), NEW l
  PROVE  IsFiniteSet(Places(lots, l)) /\ Cardinality(Places(lots, l)) \in Nat
<1>1. IsFiniteSet(1..Len(lots)) /\ Places(lots, l) \in SUBSET (1..Len(lots))
  BY FS_Interval DEF Places
<1> QED  BY <1>1, FS_Subset, FS_CardinalityType

(* Buying an entry holds it once more.                                     *)
LEMMA PlacesAppend ==
  ASSUME NEW lots \in Seq(Buys), NEW x \in Buys, NEW l
  PROVE  Cardinality(Places(Append(lots, x), l)) = Cardinality(Places(lots, l)) + (IF x = l THEN 1 ELSE 0)
<1> DEFINE u == Append(lots, x)
           n == Len(lots)
<1>1. /\ n \in Nat /\ DOMAIN lots = 1..n /\ DOMAIN u = 1..(n + 1) /\ u[n + 1] = x
      /\ \A i \in 1..n : u[i] = lots[i]
  OBVIOUS
<1> HIDE DEF u, n
<1>2. IsFiniteSet(Places(lots, l)) /\ Cardinality(Places(lots, l)) \in Nat
  BY PlacesFinite
<1>3. n + 1 \notin Places(lots, l)
  BY <1>1 DEF Places
<1>4. CASE x = l
  <2>1. Places(u, l) = Places(lots, l) \cup {n + 1}
    BY <1>1, <1>4 DEF Places
  <2>2. Cardinality(Places(lots, l) \cup {n + 1}) = Cardinality(Places(lots, l)) + 1
    BY <1>2, <1>3, FS_AddElement
  <2> QED  BY <1>4, <2>1, <2>2 DEF u
<1>5. CASE x # l
  <2>1. Places(u, l) = Places(lots, l)
    BY <1>1, <1>5 DEF Places
  <2> QED  BY <1>2, <1>5, <2>1 DEF u
<1> QED  BY <1>4, <1>5

(* Selling the oldest entry holds it once less.                            *)
LEMMA PlacesTail ==
  ASSUME NEW lots \in Seq(Buys), lots # <<>>, NEW l
  PROVE  Cardinality(Places(lots, l)) = Cardinality(Places(Tail(lots), l)) + (IF Head(lots) = l THEN 1 ELSE 0)
<1> DEFINE u == Tail(lots)
           n == Len(u)
           S == Places(u, l)
           T == {k + 1 : k \in S}
<1>1. /\ n \in Nat /\ DOMAIN u = 1..n /\ DOMAIN lots = 1..(n + 1) /\ Head(lots) = lots[1]
      /\ \A i \in 1..n : u[i] = lots[i + 1]
  OBVIOUS
<1>2. IsFiniteSet(S) /\ Cardinality(S) \in Nat
  <2>1. u \in Seq(Buys)
    OBVIOUS
  <2> QED  BY <2>1, PlacesFinite
<1> HIDE DEF u, n
<1>3. S \in SUBSET Nat
  BY <1>1 DEF Places
<1>4. IsFiniteSet(T) /\ Cardinality(T) = Cardinality(S)
  <2> DEFINE f == [k \in S |-> k + 1]
  <2> HIDE DEF S
  <2>1. f \in [S -> T] /\ \A k \in S : f[k] = k + 1
    OBVIOUS
  <2>2. f \in Injection(S, T)
    <3>1. \A a \in S, b \in S : f[a] = f[b] => a = b
      BY <1>3, <2>1
    <3> QED  BY <2>1, <3>1 DEF Injection, IsInjective
  <2>3. f \in Surjection(S, T)
    <3>1. \A x \in T : \E k \in S : f[k] = x
      BY <2>1
    <3> QED  BY <2>1, <3>1 DEF Surjection
  <2>4. f \in Bijection(S, T)
    BY <2>2, <2>3 DEF Bijection
  <2>5. ExistsBijection(S, T)
    BY <2>4 DEF ExistsBijection
  <2> HIDE DEF T
  <2> QED  BY <1>2, <2>5, FS_Bijection
<1>5. T = {k \in 2..(n + 1) : lots[k] = l}
  <2>1. ASSUME NEW k \in T PROVE k \in 2..(n + 1) /\ lots[k] = l
    <3>1. PICK j \in S : k = j + 1
      BY <2>1
    <3>2. j \in 1..n /\ u[j] = l
      BY <1>1 DEF Places
    <3> QED  BY <1>1, <3>1, <3>2
  <2>2. ASSUME NEW k \in 2..(n + 1), lots[k] = l PROVE k \in T
    <3>1. k - 1 \in 1..n /\ k = (k - 1) + 1
      BY <1>1
    <3>2. u[k - 1] = l
      BY <1>1, <2>2, <3>1
    <3>3. k - 1 \in S
      BY <1>1, <3>1, <3>2 DEF Places
    <3> QED  BY <3>1, <3>3
  <2> QED  BY <2>1, <2>2
<1> HIDE DEF T
<1>6. CASE Head(lots) = l
  <2>1. Places(lots, l) = T \cup {1} /\ 1 \notin T
    BY <1>1, <1>5, <1>6 DEF Places
  <2> QED  BY <1>2, <1>4, <1>6, <2>1, FS_AddElement DEF u
<1>7. CASE Head(lots) # l
  <2>1. Places(lots, l) = T
    BY <1>1, <1>5, <1>7 DEF Places
  <2> QED  BY <1>2, <1>4, <1>7, <2>1 DEF u
<1> QED  BY <1>6, <1>7

(* One more fill is one more of its side and entry, and of no other.       *)
LEMMA OfAppend ==
  ASSUME NEW t, TapeOK(t), NEW f \in FillSet, TapeOK(Append(t, f)), NEW side, NEW l
  PROVE  /\ IsFiniteSet(Of(t, side, l)) /\ Cardinality(Of(t, side, l)) \in Nat
         /\ Cardinality(Of(Append(t, f), side, l))
              = Cardinality(Of(t, side, l)) + (IF f.side = side /\ f.lot = l THEN 1 ELSE 0)
<1> DEFINE u == Append(t, f)
           n == Len(t)
<1>1. /\ n \in Nat /\ DOMAIN t = 1..n /\ DOMAIN u = 1..(n + 1) /\ u[n + 1] = f
      /\ \A i \in 1..n : u[i] = t[i]
  BY DEF TapeOK
<1> HIDE DEF u, n
<1>2. IsFiniteSet(Of(t, side, l)) /\ Cardinality(Of(t, side, l)) \in Nat
  <2>1. IsFiniteSet(1..n) /\ Of(t, side, l) \in SUBSET (1..n)
    BY <1>1, FS_Interval DEF Of
  <2> QED  BY <2>1, FS_Subset, FS_CardinalityType
<1>3. n + 1 \notin Of(t, side, l)
  BY <1>1 DEF Of
<1>4. CASE f.side = side /\ f.lot = l
  <2>1. Of(u, side, l) = Of(t, side, l) \cup {n + 1}
    BY <1>1, <1>4 DEF Of
  <2>2. Cardinality(Of(t, side, l) \cup {n + 1}) = Cardinality(Of(t, side, l)) + 1
    BY <1>2, <1>3, FS_AddElement
  <2> QED  BY <1>2, <1>4, <2>1, <2>2 DEF u
<1>5. CASE ~(f.side = side /\ f.lot = l)
  <2>1. Of(u, side, l) = Of(t, side, l)
    BY <1>1, <1>5 DEF Of
  <2> QED  BY <1>2, <1>5, <2>1 DEF u
<1> QED  BY <1>4, <1>5

-----------------------------------------------------------------------------
(* A tape that says what it should.                                        *)

NotOversold(t) ==
  \A i \in DOMAIN t : t[i].side = "sell" =>
    LET before(side) == {j \in DOMAIN t : /\ t[j].side = side /\ t[j].lot = t[i].lot
                                          /\ Earlier(t, j, i)}
    IN  Cardinality(before("sell")) < Cardinality(before("buy"))

Balanced(t) ==
  \A l \in Buys : Cardinality(Of(t, "buy", l)) = Cardinality(Of(t, "sell", l)) + Cardinality(Places(Seed(t), l))

Whole(t) == Count(t).qty = Len(Seed(t)) /\ NotOversold(t) /\ Balanced(t)

Prior(t, i, side) == {j \in DOMAIN t : t[j].side = side /\ t[j].lot = t[i].lot /\ Earlier(t, j, i)}

(* One more fill changes nothing before the fills that were there, and has *)
(* the whole tape before it.                                               *)
LEMMA PriorAppend ==
  ASSUME NEW t, TapeOK(t), NEW f \in FillSet, TapeOK(Append(t, f)), NEW side
  PROVE  /\ \A i \in DOMAIN t : Prior(Append(t, f), i, side) = Prior(t, i, side)
         /\ Prior(Append(t, f), Len(t) + 1, side) = Of(t, side, f.lot)
<1> DEFINE u == Append(t, f)
           n == Len(t)
<1>1. /\ n \in Nat /\ DOMAIN t = 1..n /\ DOMAIN u = 1..(n + 1) /\ u[n + 1] = f
      /\ \A i \in 1..n : u[i] = t[i]
  BY DEF TapeOK
<1> HIDE DEF u, n
<1>2. /\ \A i, j \in 1..(n + 1) : Earlier(u, j, i) <=> j < i
      /\ \A i, j \in 1..n : Earlier(t, j, i) <=> j < i
  <2>1. TapeOK(u)
    BY DEF u
  <2> QED  BY <1>1, <2>1, TapeFacts
<1>3. ASSUME NEW i \in 1..n PROVE Prior(u, i, side) = Prior(t, i, side)
  <2>1. ASSUME NEW j \in 1..(n + 1)
        PROVE  j \in Prior(u, i, side) <=> j \in Prior(t, i, side)
    <3>1. CASE j \in 1..n
      BY <1>1, <1>2, <3>1 DEF Prior
    <3>2. CASE j = n + 1
      <4>1. ~ Earlier(u, j, i) /\ j \notin 1..n
        BY <1>1, <1>2, <3>2
      <4> QED  BY <1>1, <4>1 DEF Prior
    <3> QED  BY <1>1, <3>1, <3>2
  <2>2. Prior(u, i, side) \subseteq 1..(n + 1) /\ Prior(t, i, side) \subseteq 1..(n + 1)
    BY <1>1 DEF Prior
  <2> QED  BY <2>1, <2>2
<1>4. Prior(u, n + 1, side) = Of(t, side, f.lot)
  <2>1. ASSUME NEW j \in 1..(n + 1)
        PROVE  j \in Prior(u, n + 1, side) <=> j \in Of(t, side, f.lot)
    <3>1. n + 1 \in 1..(n + 1)
      BY <1>1
    <3>2. CASE j \in 1..n
      BY <1>1, <1>2, <3>1, <3>2 DEF Prior, Of
    <3>3. CASE j = n + 1
      BY <1>1, <1>2, <3>1, <3>3 DEF Prior, Of
    <3> QED  BY <1>1, <3>2, <3>3
  <2>2. Prior(u, n + 1, side) \subseteq 1..(n + 1) /\ Of(t, side, f.lot) \subseteq 1..(n + 1)
    BY <1>1 DEF Prior, Of
  <2> QED  BY <2>1, <2>2
<1> QED  BY <1>1, <1>3, <1>4 DEF u, n

(* A buy, or a sale of the oldest lot, leaves it so.                       *)
LEMMA WholeAppend ==
  ASSUME NEW t, TapeOK(t), Whole(t), NEW f \in FillSet, TapeOK(Append(t, f)),
         f.side = "sell" => Seed(t) # <<>> /\ f.lot = Head(Seed(t))
  PROVE  /\ Whole(Append(t, f))
         /\ Seed(Append(t, f)) = IF f.side = "buy" THEN Append(Seed(t), f.lot) ELSE Tail(Seed(t))
<1> DEFINE u == Append(t, f)
           lots == Seed(t)
<1>1. /\ lots \in Seq(Buys) /\ f.side \in {"buy", "sell"} /\ f.lot \in Buys /\ Count(t) \in Totals
  BY SeedFacts, CountFacts DEF FillSet
<1>2. /\ Seed(u) = Replay(lots, f) /\ Count(u) = CountBuys(Count(t), f)
  BY SeedAppend, CountAppend
<1>3. Count(t).qty = Len(lots) /\ NotOversold(t) /\ Balanced(t)
  BY DEF Whole
<1> HIDE DEF u, lots
<1>4. Seed(u) = IF f.side = "buy" THEN Append(lots, f.lot) ELSE Tail(lots)
  BY <1>1, <1>2, ReplayFacts DEF lots
<1>5. Count(u).qty = Len(Seed(u))
  <2>1. CASE f.side = "buy"
    <3>1. Len(Append(lots, f.lot)) = Len(lots) + 1
      BY <1>1
    <3>2. Count(u).qty = Count(t).qty + 1
      BY <1>1, <1>2, <2>1, CountType
    <3> QED  BY <1>3, <1>4, <2>1, <3>1, <3>2
  <2>2. CASE f.side = "sell"
    <3>1. lots # <<>>
      BY <2>2 DEF lots
    <3>2. Len(Tail(lots)) = Len(lots) - 1 /\ Len(lots) > 0
      BY <1>1, <3>1
    <3>3. Count(u).qty = Count(t).qty - 1
      BY <1>1, <1>2, <1>3, <2>2, <3>2, CountType
    <3> QED  BY <1>3, <1>4, <2>2, <3>2, <3>3
  <2> QED  BY <1>1, <2>1, <2>2
<1>6. ASSUME NEW l \in Buys
      PROVE  Cardinality(Of(u, "buy", l)) = Cardinality(Of(u, "sell", l)) + Cardinality(Places(Seed(u), l))
  <2>1. /\ Cardinality(Of(t, "buy", l)) \in Nat /\ Cardinality(Of(t, "sell", l)) \in Nat
        /\ Cardinality(Of(u, "buy", l))
             = Cardinality(Of(t, "buy", l)) + (IF f.side = "buy" /\ f.lot = l THEN 1 ELSE 0)
        /\ Cardinality(Of(u, "sell", l))
             = Cardinality(Of(t, "sell", l)) + (IF f.side = "sell" /\ f.lot = l THEN 1 ELSE 0)
    BY OfAppend DEF u
  <2>2. Cardinality(Of(t, "buy", l)) = Cardinality(Of(t, "sell", l)) + Cardinality(Places(lots, l))
    BY <1>3 DEF Balanced, lots
  <2>3. Cardinality(Places(lots, l)) \in Nat /\ Cardinality(Places(Seed(u), l)) \in Nat
    <3>1. Seed(u) \in Seq(Buys)
      BY SeedFacts DEF u
    <3> QED  BY <1>1, <3>1, PlacesFinite
  <2>4. CASE f.side = "buy"
    <3>1. Cardinality(Places(Seed(u), l)) = Cardinality(Places(lots, l)) + (IF f.lot = l THEN 1 ELSE 0)
      BY <1>1, <1>4, <2>4, PlacesAppend
    <3> QED  BY <2>1, <2>2, <2>3, <2>4, <3>1
  <2>5. CASE f.side = "sell"
    <3>1. lots # <<>> /\ f.lot = Head(lots)
      BY <2>5 DEF lots
    <3>2. Cardinality(Places(lots, l)) = Cardinality(Places(Seed(u), l)) + (IF f.lot = l THEN 1 ELSE 0)
      BY <1>1, <1>4, <2>5, <3>1, PlacesTail
    <3> QED  BY <2>1, <2>2, <2>3, <2>5, <3>2
  <2> QED  BY <1>1, <2>4, <2>5
<1>7. NotOversold(u)
  <2> SUFFICES ASSUME NEW i \in DOMAIN u, u[i].side = "sell"
               PROVE  Cardinality(Prior(u, i, "sell")) < Cardinality(Prior(u, i, "buy"))
    BY DEF NotOversold, Prior
  <2>1. /\ Len(t) \in Nat /\ DOMAIN t = 1..Len(t) /\ DOMAIN u = 1..(Len(t) + 1) /\ u[Len(t) + 1] = f
        /\ \A j \in DOMAIN t : u[j] = t[j]
    BY DEF u, TapeOK
  <2>2. CASE i \in DOMAIN t
    <3>1. Prior(u, i, "sell") = Prior(t, i, "sell") /\ Prior(u, i, "buy") = Prior(t, i, "buy")
      BY <2>2, PriorAppend DEF u
    <3>2. t[i].side = "sell"
      BY <2>1, <2>2
    <3>3. Cardinality(Prior(t, i, "sell")) < Cardinality(Prior(t, i, "buy"))
      BY <1>3, <2>2, <3>2 DEF NotOversold, Prior
    <3> QED  BY <3>1, <3>3
  <2>3. CASE i = Len(t) + 1
    <3>1. Prior(u, i, "sell") = Of(t, "sell", f.lot) /\ Prior(u, i, "buy") = Of(t, "buy", f.lot)
      BY <2>3, PriorAppend DEF u
    <3>2. f.side = "sell" /\ lots # <<>> /\ f.lot = Head(lots)
      BY <2>1, <2>3 DEF lots
    <3>3. /\ Cardinality(Places(lots, f.lot)) \in Nat
          /\ Cardinality(Places(lots, f.lot)) = Cardinality(Places(Tail(lots), f.lot)) + 1
          /\ Cardinality(Places(Tail(lots), f.lot)) \in Nat
      <4>1. Tail(lots) \in Seq(Buys)
        BY <1>1, <3>2
      <4> QED  BY <1>1, <3>2, <4>1, PlacesFinite, PlacesTail
    <3>4. /\ Cardinality(Of(t, "sell", f.lot)) \in Nat
          /\ Cardinality(Of(t, "buy", f.lot)) = Cardinality(Of(t, "sell", f.lot)) + Cardinality(Places(lots, f.lot))
      BY <1>1, <1>3, OfAppend DEF Balanced, lots
    <3> QED  BY <3>1, <3>3, <3>4
  <2> QED  BY <2>1, <2>2, <2>3
<1> QED  BY <1>4, <1>5, <1>6, <1>7 DEF Whole, Balanced, u, lots

-----------------------------------------------------------------------------
(* The invariants of the money. Flow holds whatever happens; LotsInv and   *)
(* CloseInv until a write of the tape fails; OrphanInv until a write       *)
(* fails or, over the durable store, the process dies.                     *)

(* What the tick sends: never a closer.                                    *)
TickOrders == Buys \cup TickSales

(* The store the process reads and the one a restart would find.           *)
StoreFlow ==
  /\ TapeOK(tape) /\ row.pending \in Seq(TickOrders)
  /\ TapeOK(disk.tape) /\ disk.row.pending \in Seq(TickOrders)

Mirror ==
  /\ Storage = "postgres" => disk.row = row /\ disk.tape = tape /\ disk.decided = decided
  /\ Storage = "memory" => failures = 0

BrokerFlow ==
  /\ broker.lots \in Seq(Buys)
  /\ pc # "idle" => broker.warm /\ row.open

TickJob ==
  pc # "idle" /\ job.next \notin Closers =>
    /\ job.todo \in Seq(TickOrders)
    /\ pc = "record" => job.part \in TickOrders

(* A fill in hand is newer than the tape, and no fill of its order has the *)
(* number it will get.                                                     *)
HandFlow ==
  /\ pc # "idle" => job.time \in Int
  /\ pc = "record" =>
       /\ job.stamp \in Int /\ \A i \in DOMAIN tape : tape[i].time <= job.stamp
       /\ job.lots \in Seq(Buys) /\ job.lots # <<>>
       /\ \A i \in DOMAIN tape :
            tape[i].at = job.key /\ tape[i].part = job.part => tape[i].n < job.n
       /\ job.n > 0 => Keyed(tape, job.key, job.part, job.n - 1)

Flow == StoreFlow /\ Mirror /\ BrokerFlow /\ TickJob /\ HandFlow

LotsInv ==
  failures = 0 =>
    /\ Whole(tape) /\ Whole(disk.tape)
    /\ pc # "record" /\ broker.warm => broker.lots = Seed(tape)
    /\ pc = "record" /\ job.part \in Buys =>
         job.lots = <<job.part>> /\ broker.lots = Append(Seed(tape), job.part)
    /\ pc = "record" /\ job.part \notin Buys =>
         broker.lots = <<>> /\ job.lots = Seed(tape)

CloseInv ==
  failures = 0 /\ pc # "idle" /\ job.next \in Closers =>
    /\ job.before \in Nat
    /\ pc = "settle" /\ job.todo # <<>> => job.todo = <<job.next>> /\ Len(tape) = job.before
    /\ pc = "settle" /\ job.todo = <<>> => Len(tape) = job.before \/ broker.lots = <<>>
    /\ pc = "record" => job.todo = <<>> /\ job.part = job.next

NoCloser(t) == \A i \in DOMAIN t : t[i].part \notin Closers

Clean == failures = 0 /\ (Storage = "memory" \/ crashes = 0)

OrphanInv ==
  Clean =>
    /\ row.open /\ ~(pc # "idle" /\ job.next \in Closers) => NoCloser(tape)
    /\ ~row.open => Seed(tape) = <<>>
    /\ pc # "idle" /\ job.next \in Closers =>
         /\ pc = "settle" /\ job.todo # <<>> => NoCloser(tape) /\ broker.lots # <<>> /\ ~job.refused
         /\ pc = "settle" /\ job.todo = <<>> =>
              \/ job.refused /\ NoCloser(tape)
              \/ ~job.refused /\ Len(tape) > job.before /\ broker.lots = <<>>
         /\ pc = "record" => ~job.refused /\ Len(tape) >= job.before
    /\ Storage = "memory" =>
         /\ disk.row.open => NoCloser(disk.tape)
         /\ ~disk.row.open => Seed(disk.tape) = <<>>

(* The closers are sales the tick never sends.                             *)
LEMMA ClosersApart ==
  ASSUME SettlementAssumption
  PROVE  /\ Closers \subseteq Sales /\ TickSales \subseteq Sales
         /\ \A c \in Closers : c \notin Buys /\ c \notin TickOrders
         /\ \A s \in Sales : s \notin Buys
         /\ "decide" \notin Closers /\ "clear" \notin Closers /\ "bought" \notin Closers
         /\ TickOrders \subseteq Orders
<1>1. Closers \subseteq {"CRASH", "FIXED_TP", "BREAK_EVEN", "STOP_LOSS", "ROTATION", "SCORE_STOP"}
  BY DEF SettlementAssumption
<1>2. Closers \subseteq Sales /\ TickSales \subseteq Sales
  BY <1>1 DEF Sales, SweepClosers, AllocatorClosers, TickSales
<1>3. \A s \in Sales : s \notin Buys
  BY DEF SettlementAssumption
<1>4. \A c \in Closers : c \notin TickSales
  BY <1>1 DEF TickSales
<1>5. "decide" \notin Closers /\ "clear" \notin Closers /\ "bought" \notin Closers
  BY <1>1
<1>6. TickOrders \subseteq Orders
  BY <1>2 DEF TickOrders, Orders
<1> QED  BY <1>2, <1>3, <1>4, <1>5, <1>6 DEF TickOrders

(* The newest stamp is one, and no fill is newer.                          *)
LEMMA NewestFacts ==
  ASSUME TapeOK(tape)
  PROVE  Newest \in Int /\ \A i \in DOMAIN tape : tape[i].time <= Newest
<1> DEFINE times == {-1} \cup {tape[i].time : i \in DOMAIN tape}
<1>1. /\ Len(tape) \in Nat /\ DOMAIN tape = 1..Len(tape)
      /\ \A i \in DOMAIN tape : tape[i].time \in Int
  BY TapeFacts DEF FillSet
<1>2. times \subseteq Int
  BY <1>1
<1>3. \E t \in times : \A u \in times : u <= t
  <2>1. CASE Len(tape) = 0
    <3>1. times = {-1}
      BY <1>1, <2>1
    <3> QED  BY <3>1
  <2>2. CASE Len(tape) # 0
    <3> DEFINE last == tape[Len(tape)].time
    <3>1. Len(tape) \in DOMAIN tape /\ last \in Int /\ last \in times
      BY <1>1, <2>2
    <3>2. \A i \in DOMAIN tape : tape[i].time <= last
      <4>1. \A i \in DOMAIN tape : i < Len(tape) \/ i = Len(tape)
        BY <1>1
      <4> QED  BY <1>1, <3>1, <4>1 DEF TapeOK, InOrder
    <3>3. CASE last >= -1
      <4> HIDE DEF last
      <4>1. \A u \in times : u <= last
        BY <3>2, <3>3
      <4> QED  BY <3>1, <4>1
    <3>4. CASE last < -1
      <4> HIDE DEF last
      <4>1. \A u \in times : u <= -1
        BY <1>1, <3>1, <3>2, <3>4
      <4> QED  BY <4>1
    <3> QED  BY <3>1, <3>3, <3>4
  <2> QED  BY <2>1, <2>2
<1>4. Newest \in times /\ \A u \in times : u <= Newest
  <2>1. Newest = CHOOSE t \in times : \A u \in times : u <= t
    BY DEF Newest
  <2> HIDE DEF times
  <2> QED  BY <1>3, <2>1
<1> QED  BY <1>2, <1>4

(* A fill is stamped no earlier than the tape.                             *)
LEMMA StampFacts ==
  ASSUME TapeOK(tape), job.time \in Int
  PROVE  Stamp(job.time) \in Int /\ \A i \in DOMAIN tape : tape[i].time <= Stamp(job.time)
<1>1. Newest \in Int /\ \A i \in DOMAIN tape : tape[i].time <= Newest /\ tape[i].time \in Int
  BY NewestFacts, TapeFacts DEF FillSet
<1> QED  BY <1>1 DEF Stamp

(* A broker that is asked for is warm, and holds entries of this ladder.   *)
LEMMA BrokerFacts ==
  ASSUME TapeOK(tape), broker.lots \in Seq(Buys)
  PROVE  /\ BrokerFor \in FundedBrokers
         /\ \A b \in FundedBrokers :
              /\ b.warm = TRUE /\ b.lots \in Seq(Buys)
              /\ b.lots = Seed(tape) \/ (broker.warm /\ b.lots = broker.lots)
<1>1. Seed(tape) \in Seq(Buys)
  BY SeedFacts
<1> QED  BY <1>1 DEF FundedBrokers, BrokerFor

(* The sweep buys entries of this ladder.                                  *)
LEMMA StepsAreEntries ==
  ASSUME NEW n \in NextSteps
  PROVE  LotIds[n] \in Buys /\ <<LotIds[n]>> \in Seq(TickOrders)
<1>1. LotIds[n] \in Buys
  BY DEF NextSteps, Buys
<1> QED  BY <1>1 DEF TickOrders

(* What a bar decides is the tick's.                                       *)
LEMMA DecidesTickOrders ==
  ASSUME SettlementAssumption,
         NEW entry \in EntryChoices, NEW exit \in ExitChoices,
         NEW orders \in AfterDeath(entry.orders, exit)
  PROVE  orders \in Seq(TickOrders)
<1>1. /\ "Exit" \in TickOrders /\ "DEATH" \in TickOrders
      /\ \A i \in 1..Len(LotIds) : LotIds[i] \in TickOrders
      /\ Len(LotIds) \in Nat \ {0}
  BY DEF TickOrders, TickSales, Buys, SettlementAssumption
<1>2. entry.orders \in Seq(TickOrders)
  <2>1. CASE entry = [orders |-> <<>>, level |-> Ladder.level]
    BY <2>1
  <2>2. ASSUME NEW n \in 0..(Len(LotIds) - 1),
               entry = [orders |-> <<LotIds[n + 1]>>, level |-> n + 1]
        PROVE  entry.orders \in Seq(TickOrders)
    <3>1. n + 1 \in 1..Len(LotIds)
      BY <1>1
    <3>2. LotIds[n + 1] \in TickOrders
      BY <1>1, <3>1
    <3> QED  BY <2>2, <3>2
  <2> QED  BY <2>1, <2>2 DEF EntryChoices
<1>3. exit \in Seq(TickOrders)
  <2>1. exit = <<>> \/ exit = <<"Exit">>
    BY DEF ExitChoices
  <2>2. <<>> \in Seq(TickOrders) /\ <<"Exit">> \in Seq(TickOrders)
    BY <1>1
  <2> QED  BY <2>1, <2>2
<1>4. <<"DEATH">> \in Seq(TickOrders) /\ <<>> \in Seq(TickOrders)
  BY <1>1
<1>5. entry.orders \o exit \in Seq(TickOrders)
  BY <1>2, <1>3
<1> QED  BY <1>3, <1>4, <1>5 DEF AfterDeath

(* A recorded fill is one more on the tape, never one that was there.      *)
LEMMA RecordAppends ==
  ASSUME IInv, Flow, pc = "record", tape' = RecordFill(NextFill)
  PROVE  /\ NextFill \in FillSet /\ NextFill.lot = Head(job.lots)
         /\ NextFill.at = job.key /\ NextFill.part = job.part /\ NextFill.n = job.n
         /\ NextFill.side = (IF job.part \in Buys THEN "buy" ELSE "sell")
         /\ NextFill.via = job.via /\ NextFill.time = job.stamp
         /\ ~Keyed(tape, job.key, job.part, job.n)
         /\ tape' = Append(tape, NextFill)
         /\ TapeOK(tape) /\ TapeOK(Append(tape, NextFill))
         /\ Len(tape') = Len(tape) + 1 /\ DOMAIN tape' = 1..(Len(tape) + 1)
         /\ tape'[Len(tape) + 1] = NextFill
         /\ \A i \in DOMAIN tape : tape'[i] = tape[i]
<1> DEFINE f == NextFill
<1>1. /\ f.at = job.key /\ f.part = job.part /\ f.n = job.n /\ f.via = job.via
      /\ f.lot = Head(job.lots) /\ f.time = job.stamp
      /\ f.side = (IF job.part \in Buys THEN "buy" ELSE "sell")
  BY DEF NextFill
<1>2. /\ job.key \in Int /\ job.part \in Orders /\ job.n \in Nat
      /\ job.via \in {"tick", "sweep"} /\ job.stamp \in Int
      /\ job.lots \in Seq(Buys) /\ job.lots # <<>>
  BY DEF IInv, TypeOK, Flow, HandFlow
<1>3. Head(job.lots) \in Buys
  BY <1>2
<1>4. f \in FillSet
  BY <1>2, <1>3 DEF NextFill, FillSet
<1>5. ~Keyed(tape, job.key, job.part, job.n)
  BY <1>2 DEF Flow, HandFlow, Keyed
<1> HIDE DEF f
<1>6. TapeOK(tape) /\ \A i \in DOMAIN tape : tape[i].time <= f.time
  BY <1>1 DEF Flow, StoreFlow, HandFlow
<1>7. tape' = Append(tape, f)
  BY <1>1, <1>5 DEF RecordFill, f
<1>8. /\ TapeOK(Append(tape, f)) /\ Len(Append(tape, f)) = Len(tape) + 1
      /\ Append(tape, f)[Len(tape) + 1] = f /\ DOMAIN Append(tape, f) = 1..(Len(tape) + 1)
      /\ \A i \in DOMAIN tape : Append(tape, f)[i] = tape[i]
  BY <1>4, <1>6, LongerTape
<1> QED  BY <1>1, <1>4, <1>5, <1>6, <1>7, <1>8 DEF f

(* The store keeps its shape: a tape in the order things happened, orders  *)
(* of the tick waiting.                                                    *)
LEMMA StoreFlowStep ==
  ASSUME SettlementAssumption, IInv, Flow, [Next]_vars
  PROVE  StoreFlow' /\ Mirror'
<1>t. /\ TapeOK(tape) /\ row.pending \in Seq(TickOrders)
      /\ TapeOK(disk.tape) /\ disk.row.pending \in Seq(TickOrders)
      /\ row \in Rows /\ Mirror /\ Storage \in Storages
  BY DEF Flow, StoreFlow, IInv, TypeOK, SettlementAssumption
<1>persist. ASSUME Persist, TapeOK(tape'), row'.pending \in Seq(TickOrders), failures' = failures
            PROVE  StoreFlow' /\ Mirror'
  <2>1. CASE Storage = "postgres"
    <3>1. disk'.row = row' /\ disk'.tape = tape' /\ disk'.decided = decided'
      BY <1>persist, <2>1 DEF Persist, Durable
    <3> QED  BY <3>1, <1>persist, <2>1 DEF StoreFlow, Mirror
  <2>2. CASE Storage = "memory"
    <3>1. disk' = disk
      BY <1>persist, <2>2 DEF Persist
    <3> QED  BY <3>1, <1>t, <1>persist, <2>2 DEF StoreFlow, Mirror
  <2> QED  BY <2>1, <2>2, <1>t DEF Storages
<1>same. ASSUME UNCHANGED <<row, tape, disk, decided, failures>> PROVE StoreFlow' /\ Mirror'
  BY <1>t, <1>same DEF StoreFlow, Mirror
<1>1. CASE StartTick \/ SettleSkip \/ SettleRefuse \/ SettleReject \/ Execute \/ SweepBuy
           \/ RungBuy \/ Bought \/ Recapitalise \/ AdvanceClock \/ UNCHANGED vars
  BY <1>1, <1>same DEF StartTick, SettleSkip, SettleRefuse, SettleReject, Execute, SweepBuy,
     RungBuy, Bought, Recapitalise, AdvanceClock, vars
<1>2. CASE Decide
  <2>1. PICK bar \in job.bars, entry \in EntryChoices, exit \in ExitChoices :
          \E orders \in AfterDeath(entry.orders, exit) : DecideOn(bar, entry.level, orders)
    BY <1>2 DEF Decide
  <2>2. PICK orders \in AfterDeath(entry.orders, exit) : DecideOn(bar, entry.level, orders)
    BY <2>1
  <2>3. orders \in Seq(TickOrders)
    BY DecidesTickOrders
  <2>4. row'.pending = orders
    BY <2>2, <1>t DEF DecideOn, Rows
  <2> QED  BY <1>2, <1>t, <1>persist, <2>3, <2>4 DEF Decide
<1>3. CASE ClearPending
  <2>1. row'.pending = <<>> /\ <<>> \in Seq(TickOrders)
    BY <1>3, <1>t DEF ClearPending, Rows
  <2> QED  BY <1>3, <1>t, <1>persist, <2>1 DEF ClearPending
<1>4. CASE Record
  <2>1. TapeOK(tape') /\ row' = row
    BY <1>4, RecordAppends DEF Record
  <2> QED  BY <1>4, <1>t, <1>persist, <2>1 DEF Record
<1>5. ASSUME NEW c \in Closers, CloserSale(c) PROVE StoreFlow' /\ Mirror'
  BY <1>5, <1>same DEF CloserSale
<1>6. ASSUME NEW c \in Closers, Close(c) PROVE StoreFlow' /\ Mirror'
  <2>1. row'.pending = row.pending
    BY <1>6, <1>t DEF Close, Rows
  <2> QED  BY <1>6, <1>t, <1>persist, <2>1 DEF Close
<1>7. CASE Release
  <2>1. row'.pending = row.pending
    BY <1>7, <1>t DEF Release, Rows
  <2> QED  BY <1>7, <1>t, <1>persist, <2>1 DEF Release
<1>8. CASE Publish
  BY <1>8, <1>t DEF Publish, StoreFlow, Mirror
<1>9. CASE StoreFails
  BY <1>9, <1>t DEF StoreFails, StoreFlow, Mirror
<1>10. CASE Crash
  BY <1>10, <1>t DEF Crash, StoreFlow, Mirror
<1> QED  BY <1>1, <1>2, <1>3, <1>4, <1>5, <1>6, <1>7, <1>8, <1>9, <1>10 DEF Next

(* What the process holds in its hands while it works.                     *)
LEMMA HandsStep ==
  ASSUME SettlementAssumption, IInv, Flow, [Next]_vars
  PROVE  BrokerFlow' /\ TickJob' /\ HandFlow'
<1>t. /\ TapeOK(tape) /\ row.pending \in Seq(TickOrders) /\ broker.lots \in Seq(Buys)
      /\ BrokerFlow /\ TickJob /\ HandFlow /\ row \in Rows /\ clock \in Nat
      /\ DOMAIN job = DOMAIN Idle /\ job.todo \in Seq(Orders) /\ job.n \in Nat /\ job.bars \subseteq Nat
  BY DEF Flow, StoreFlow, BrokerFlow, IInv, TypeOK
<1>idle. ASSUME pc' = "idle", broker'.lots \in Seq(Buys)
         PROVE  BrokerFlow' /\ TickJob' /\ HandFlow'
  BY <1>idle DEF BrokerFlow, TickJob, HandFlow
<1>begin. ASSUME pc' = "settle", broker' \in FundedBrokers, row'.open, job'.time \in Int,
                 job'.next \notin Closers => job'.todo \in Seq(TickOrders)
          PROVE  BrokerFlow' /\ TickJob' /\ HandFlow'
  <2>1. broker'.warm /\ broker'.lots \in Seq(Buys)
    BY <1>begin, <1>t, BrokerFacts
  <2> QED  BY <1>begin, <2>1 DEF BrokerFlow, TickJob, HandFlow
<1>1. CASE StartTick
  <2>1. PICK candles \in CandleSets : \E bar \in Unprocessed(candles, row.lastBar) :
          job' = [Idle EXCEPT !.todo = row.pending, !.key = PendingKey(bar), !.time = bar,
                              !.next = "decide", !.bars = Unprocessed(candles, row.lastBar)]
    BY <1>1 DEF StartTick
  <2>2. PICK bar \in Unprocessed(candles, row.lastBar) :
          job' = [Idle EXCEPT !.todo = row.pending, !.key = PendingKey(bar), !.time = bar,
                              !.next = "decide", !.bars = Unprocessed(candles, row.lastBar)]
    BY <2>1
  <2>3. bar \in Nat
    BY <1>t, WalkOK
  <2>4. job'.todo = row.pending /\ job'.time \in Int
    BY <2>2, <2>3 DEF Idle
  <2> QED  BY <1>1, <1>t, <1>begin, <2>4, BrokerFacts DEF StartTick
<1>2. CASE Decide
  <2>1. PICK bar \in job.bars, entry \in EntryChoices, exit \in ExitChoices :
          \E orders \in AfterDeath(entry.orders, exit) : DecideOn(bar, entry.level, orders)
    BY <1>2 DEF Decide
  <2>2. PICK orders \in AfterDeath(entry.orders, exit) : DecideOn(bar, entry.level, orders)
    BY <2>1
  <2>3. orders \in Seq(TickOrders) /\ bar \in Nat
    BY <1>t, DecidesTickOrders
  <2>4. /\ pc # "idle" /\ broker' = broker /\ row'.open = row.open
    BY <1>2, <2>2, <1>t DEF Decide, Settled, DecideOn, Rows
  <2>5. ASSUME pc' = "settle", job'.todo = orders, job'.time \in Int
        PROVE  BrokerFlow' /\ TickJob' /\ HandFlow'
    BY <1>t, <2>3, <2>4, <2>5 DEF BrokerFlow, TickJob, HandFlow
  <2>6. CASE pc' = "settle" /\ job' = [Idle EXCEPT !.todo = orders, !.key = bar, !.time = bar,
                                                  !.next = "clear"]
    <3>1. job'.todo = orders /\ job'.time = bar
      BY <2>6 DEF Idle
    <3> QED  BY <2>3, <2>5, <2>6, <3>1
  <2>7. CASE pc' = "idle"
    BY <1>t, <1>idle, <2>4, <2>7
  <2>8. ASSUME NEW open \in job.bars \ {bar}, pc' = "settle",
               job' = [Idle EXCEPT !.todo = orders, !.key = bar, !.time = open,
                                   !.next = "decide", !.bars = job.bars \ {bar}]
        PROVE  BrokerFlow' /\ TickJob' /\ HandFlow'
    <3>1. job'.todo = orders /\ job'.time = open /\ open \in Nat
      BY <2>8, <1>t DEF Idle
    <3> QED  BY <2>5, <2>8, <3>1
  <2> QED  BY <2>2, <2>6, <2>7, <2>8 DEF DecideOn
<1>3. CASE ClearPending \/ Bought \/ Release \/ StoreFails
  BY <1>3, <1>t, <1>idle DEF ClearPending, Bought, Release, StoreFails
<1>4. CASE SettleSkip \/ SettleRefuse \/ SettleReject
  <2>1. /\ pc = "settle" /\ pc' = "settle" /\ job.todo # <<>>
        /\ job'.todo = Tail(job.todo) /\ job'.next = job.next /\ job'.time = job.time
        /\ UNCHANGED <<row, tape, broker>>
    BY <1>4, <1>t DEF SettleSkip, SettleRefuse, SettleReject, Idle
  <2>2. job.next \notin Closers => job'.todo \in Seq(TickOrders)
    BY <1>t, <2>1, TailElements DEF TickJob
  <2> QED  BY <1>t, <2>1, <2>2 DEF BrokerFlow, TickJob, HandFlow
<1>5. CASE Execute
  <2> DEFINE part == Head(job.todo)
  <2>1. /\ pc = "settle" /\ pc' = "record" /\ job.todo # <<>>
        /\ job'.todo = Tail(job.todo) /\ job'.next = job.next /\ job'.time = job.time
        /\ job'.key = job.key /\ job'.part = part /\ job'.n = 0 /\ job'.stamp = Stamp(job.time)
        /\ job'.lots = (IF part \in Buys THEN <<part>> ELSE broker.lots)
        /\ broker'.lots = (IF part \in Buys THEN Append(broker.lots, part) ELSE <<>>)
        /\ broker'.warm = broker.warm
        /\ ~HasFill(job.key, part) /\ ~Rejects(part)
        /\ UNCHANGED <<row, tape>>
    <3>1. broker' = [broker EXCEPT !.lots = IF part \in Buys THEN Append(@, part) ELSE <<>>]
      BY <1>5 DEF Execute
    <3> QED  BY <1>5, <1>t, <3>1 DEF Execute, Idle
  <2>2. part \in Orders
    BY <1>t, <2>1, TailElements
  <2>3. job.next \notin Closers => job'.todo \in Seq(TickOrders) /\ part \in TickOrders
    BY <1>t, <2>1, TailElements DEF TickJob
  <2>4. job'.stamp \in Int /\ \A i \in DOMAIN tape : tape[i].time <= job'.stamp
    BY <1>t, <2>1, StampFacts DEF HandFlow
  <2>5. job'.lots \in Seq(Buys) /\ job'.lots # <<>> /\ broker'.lots \in Seq(Buys)
    <3>1. CASE part \in Buys
      <4>1. <<part>> \in Seq(Buys) /\ <<part>> # <<>> /\ Append(broker.lots, part) \in Seq(Buys)
        BY <1>t, <3>1
      <4> QED  BY <2>1, <3>1, <4>1
    <3>2. CASE part \notin Buys
      BY <1>t, <2>1, <3>2 DEF Rejects
    <3> QED  BY <3>1, <3>2
  <2>6. \A i \in DOMAIN tape : ~(tape[i].at = job.key /\ tape[i].part = part)
    <3> SUFFICES ASSUME NEW i \in DOMAIN tape, tape[i].at = job.key, tape[i].part = part
                 PROVE  FALSE
      OBVIOUS
    <3>1. tape[i].n \in Nat
      BY <1>t, TapeFacts DEF FillSet
    <3>2. Keyed(tape, job.key, part, 0)
      <4>1. CASE tape[i].n = 0
        BY <4>1 DEF Keyed
      <4>2. CASE tape[i].n > 0
        BY <4>2 DEF IInv, StoreInv, Canonical
      <4> QED  BY <3>1, <4>1, <4>2
    <3> QED  BY <2>1, <3>2 DEF HasFill
  <2> HIDE DEF part
  <2> QED  BY <1>t, <2>1, <2>3, <2>4, <2>5, <2>6 DEF BrokerFlow, TickJob, HandFlow
<1>6. CASE Record
  <2>1. /\ pc = "record" /\ UNCHANGED <<row, broker>> /\ tape' = RecordFill(NextFill)
        /\ job'.todo = job.todo /\ job'.next = job.next /\ job'.time = job.time
        /\ pc' \in {"settle", "record"}
        /\ pc' = "record" =>
             /\ job'.lots = Tail(job.lots) /\ Tail(job.lots) # <<>>
             /\ job'.n = job.n + 1 /\ job'.key = job.key /\ job'.part = job.part
             /\ job'.stamp = job.stamp
    BY <1>6, <1>t DEF Record, Idle
  <2>2. /\ NextFill.at = job.key /\ NextFill.part = job.part /\ NextFill.n = job.n
        /\ NextFill.time = job.stamp
        /\ Len(tape) \in Nat /\ DOMAIN tape = 1..Len(tape)
        /\ DOMAIN tape' = 1..(Len(tape) + 1)
        /\ tape'[Len(tape) + 1] = NextFill
        /\ \A i \in DOMAIN tape : tape'[i] = tape[i]
    BY <1>t, <2>1, RecordAppends, TapeFacts
  <2>3. ASSUME pc' = "record"
        PROVE  /\ job'.stamp \in Int /\ \A i \in DOMAIN tape' : tape'[i].time <= job'.stamp
               /\ job'.lots \in Seq(Buys) /\ job'.lots # <<>>
               /\ \A i \in DOMAIN tape' :
                    tape'[i].at = job'.key /\ tape'[i].part = job'.part => tape'[i].n < job'.n
               /\ job'.n > 0 => Keyed(tape', job'.key, job'.part, job'.n - 1)
    <3>1. /\ job.stamp \in Int /\ \A i \in DOMAIN tape : tape[i].time <= job.stamp
          /\ job.lots \in Seq(Buys) /\ job.lots # <<>>
          /\ \A i \in DOMAIN tape :
               tape[i].at = job.key /\ tape[i].part = job.part => tape[i].n < job.n
      BY <1>t, <2>1 DEF HandFlow
    <3>2. Tail(job.lots) \in Seq(Buys)
      BY <3>1
    <3>3. \A i \in DOMAIN tape' : i \in DOMAIN tape \/ i = Len(tape) + 1
      BY <2>2
    <3>4. \A i \in DOMAIN tape' : tape'[i].time <= job.stamp
      <4>1. job.stamp <= job.stamp
        BY <3>1
      <4> QED  BY <2>2, <3>1, <3>3, <4>1
    <3>5. \A i \in DOMAIN tape' :
            tape'[i].at = job.key /\ tape'[i].part = job.part => tape'[i].n < job.n + 1
      <4>1. \A i \in DOMAIN tape : tape[i].n \in Nat
        BY <1>t, TapeFacts DEF FillSet
      <4>2. ASSUME NEW i \in DOMAIN tape', tape'[i].at = job.key, tape'[i].part = job.part
            PROVE  tape'[i].n < job.n + 1
        <5>1. CASE i \in DOMAIN tape
          <6>1. tape[i].n < job.n /\ tape[i].n \in Nat /\ tape'[i] = tape[i]
            BY <2>2, <3>1, <4>1, <4>2, <5>1
          <6> QED  BY <1>t, <6>1
        <5>2. CASE i = Len(tape) + 1
          <6>1. tape'[i].n = job.n
            BY <2>2, <5>2
          <6> QED  BY <1>t, <6>1
        <5> QED  BY <3>3, <5>1, <5>2
      <4> QED  BY <4>2
    <3>6. Keyed(tape', job.key, job.part, job.n)
      <4>1. Len(tape) + 1 \in DOMAIN tape'
        BY <2>2
      <4> QED  BY <2>2, <4>1 DEF Keyed
    <3>7. (job.n + 1) - 1 = job.n
      BY <1>t
    <3> QED  BY <2>1, <2>3, <3>1, <3>2, <3>4, <3>5, <3>6, <3>7
  <2>4. BrokerFlow' /\ TickJob'
    BY <1>t, <2>1 DEF BrokerFlow, TickJob
  <2>5. pc' # "idle" => job'.time \in Int
    BY <1>t, <2>1 DEF HandFlow
  <2> QED  BY <2>3, <2>4, <2>5 DEF HandFlow
<1>7. CASE SweepBuy \/ RungBuy
  <2>1. PICK n \in NextSteps, k \in {clock, row.lastBar} :
          job' = [Idle EXCEPT !.todo = <<LotIds[n]>>, !.key = k, !.time = clock,
                              !.next = "bought", !.via = "sweep"]
    BY <1>7 DEF SweepBuy, RungBuy
  <2>2. job'.todo = <<LotIds[n]>> /\ job'.time = clock
    BY <2>1 DEF Idle
  <2>3. job'.todo \in Seq(TickOrders)
    BY <2>2, StepsAreEntries
  <2>4. pc' = "settle" /\ broker' \in FundedBrokers /\ row'.open
    BY <1>7 DEF SweepBuy, RungBuy
  <2> QED  BY <1>t, <1>begin, <2>2, <2>3, <2>4
<1>8. ASSUME NEW c \in Closers, CloserSale(c) PROVE BrokerFlow' /\ TickJob' /\ HandFlow'
  <2>1. job'.time = clock /\ job'.next = c
    BY <1>8 DEF CloserSale, Idle
  <2>2. pc' = "settle" /\ broker' = BrokerFor /\ row'.open
    BY <1>8 DEF CloserSale
  <2>3. broker' \in FundedBrokers
    BY <1>t, <2>2, BrokerFacts
  <2> QED  BY <1>8, <1>t, <1>begin, <2>1, <2>2, <2>3
<1>9. ASSUME NEW c \in Closers, Close(c) PROVE BrokerFlow' /\ TickJob' /\ HandFlow'
  BY <1>9, <1>t, <1>idle DEF Close
<1>10. CASE Recapitalise \/ Crash
  <2>1. pc' = "idle" /\ broker'.lots = <<>>
    BY <1>10 DEF Recapitalise, Crash
  <2> QED  BY <2>1, <1>idle
<1>11. CASE AdvanceClock \/ Publish \/ UNCHANGED vars
  <2>1. UNCHANGED <<row, tape, broker, pc, job>>
    BY <1>11 DEF AdvanceClock, Publish, vars
  <2> QED  BY <1>t, <2>1 DEF BrokerFlow, TickJob, HandFlow, Keyed
<1> QED  BY <1>1, <1>2, <1>3, <1>4, <1>5, <1>6, <1>7, <1>8, <1>9, <1>10, <1>11 DEF Next

(* A fresh position flows.                                                 *)
LEMMA FlowInit == SettlementAssumption /\ Init => Flow
<1> SUFFICES ASSUME SettlementAssumption, Init PROVE Flow
  OBVIOUS
<1>1. TapeOK(<<>>)
  BY SeedEmpty
<1>2. StoreFlow /\ Mirror
  <2>1. row.pending = <<>> /\ <<>> \in Seq(TickOrders) /\ tape = <<>> /\ failures = 0
    BY DEF Init, FreshRow
  <2>2. disk.row = row /\ disk.tape = tape /\ disk.decided = decided
    BY DEF Init
  <2> QED  BY <1>1, <2>1, <2>2 DEF StoreFlow, Mirror
<1>3. BrokerFlow /\ TickJob /\ HandFlow
  BY DEF Init, BrokerFlow, TickJob, HandFlow
<1> QED  BY <1>2, <1>3 DEF Flow

(* Every reachable state flows, whatever crashes or fails.                 *)
LEMMA FlowCorrect == Spec => [](IInv /\ Flow)
<1>1. SettlementAssumption
  BY SettlementAssumption
<1>2. IInv /\ Flow /\ [Next]_vars => Flow'
  BY <1>1, StoreFlowStep, HandsStep DEF Flow
<1> QED  BY <1>1, <1>2, FlowInit, IInvInit, IInvStep, PTL DEF Spec

-----------------------------------------------------------------------------
(* The broker and the tape                                                 *)

(* A step that begins an order's life leaves the broker the tape's.        *)
LEMMA LotsStep ==
  ASSUME SettlementAssumption, IInv, Flow, LotsInv, [Next]_vars
  PROVE  LotsInv'
<1> SUFFICES ASSUME failures' = 0 PROVE LotsInv'
  BY DEF LotsInv
<1>t. /\ TapeOK(tape) /\ broker.lots \in Seq(Buys) /\ Mirror /\ Storage \in Storages
      /\ DOMAIN job = DOMAIN Idle /\ job.todo \in Seq(Orders) /\ failures \in Nat
  BY DEF Flow, StoreFlow, BrokerFlow, IInv, TypeOK, SettlementAssumption
<1>f. failures = 0
  <2>1. failures' = failures \/ failures' = failures + 1
    BY DEF Next, StartTick, Decide, ClearPending, SettleSkip, SettleRefuse, SettleReject, Execute,
           Record, SweepBuy, RungBuy, Bought, CloserSale, Close, Release, Recapitalise,
           AdvanceClock, Publish, StoreFails, Crash, vars
  <2> QED  BY <1>t, <2>1
<1>l. /\ Whole(tape) /\ Whole(disk.tape)
      /\ pc # "record" /\ broker.warm => broker.lots = Seed(tape)
      /\ pc = "record" /\ job.part \in Buys =>
           job.lots = <<job.part>> /\ broker.lots = Append(Seed(tape), job.part)
      /\ pc = "record" /\ job.part \notin Buys =>
           broker.lots = <<>> /\ job.lots = Seed(tape)
  BY <1>f DEF LotsInv
<1>persist. ASSUME Persist, Whole(tape') PROVE Whole(disk'.tape)
  BY <1>l, <1>persist, PersistOK
<1>quiet. ASSUME tape' = tape, Whole(disk'.tape), pc' # "record",
                 broker'.warm => broker'.lots = Seed(tape)
          PROVE  LotsInv'
  BY <1>l, <1>quiet DEF LotsInv
<1>begin. ASSUME UNCHANGED <<tape, disk>>, pc = "idle", pc' = "settle", broker' \in FundedBrokers
          PROVE  LotsInv'
  <2>1. broker'.lots = Seed(tape)
    BY <1>t, <1>l, <1>begin, BrokerFacts
  <2> QED  BY <1>l, <1>begin, <1>quiet, <2>1
<1>1. CASE StartTick
  <2>1. broker' \in FundedBrokers
    BY <1>1, <1>t, BrokerFacts DEF StartTick
  <2> QED  BY <1>1, <1>begin, <2>1 DEF StartTick
<1>2. CASE SweepBuy \/ RungBuy
  <2>1. UNCHANGED <<tape, disk>> /\ pc = "idle" /\ pc' = "settle" /\ broker' \in FundedBrokers
    BY <1>2 DEF SweepBuy, RungBuy
  <2> QED  BY <1>begin, <2>1
<1>3. ASSUME NEW c \in Closers, CloserSale(c) PROVE LotsInv'
  <2>1. broker' \in FundedBrokers
    BY <1>3, <1>t, BrokerFacts DEF CloserSale
  <2> QED  BY <1>3, <1>begin, <2>1 DEF CloserSale
<1>4. CASE Decide
  <2>1. pc = "settle" /\ UNCHANGED <<tape, broker>> /\ pc' # "record" /\ Persist
    BY <1>4 DEF Decide, Settled, DecideOn
  <2>2. Whole(disk'.tape)
    BY <1>l, <1>persist, <2>1
  <2> QED  BY <1>l, <1>quiet, <2>1, <2>2
<1>5. CASE ClearPending
  <2>1. pc = "settle" /\ UNCHANGED <<tape, broker>> /\ pc' # "record" /\ Persist
    BY <1>5 DEF ClearPending, Settled
  <2>2. Whole(disk'.tape)
    BY <1>l, <1>persist, <2>1
  <2> QED  BY <1>l, <1>quiet, <2>1, <2>2
<1>6. ASSUME NEW c \in Closers, Close(c) PROVE LotsInv'
  <2>1. pc = "settle" /\ UNCHANGED <<tape, broker>> /\ pc' # "record" /\ Persist
    BY <1>6 DEF Close, Settled
  <2>2. Whole(disk'.tape)
    BY <1>l, <1>persist, <2>1
  <2> QED  BY <1>l, <1>quiet, <2>1, <2>2
<1>7. CASE Release
  <2>1. pc = "idle" /\ UNCHANGED <<tape, broker, pc>> /\ Persist
    BY <1>7 DEF Release
  <2>2. Whole(disk'.tape)
    BY <1>l, <1>persist, <2>1
  <2> QED  BY <1>l, <1>quiet, <2>1, <2>2
<1>8. CASE SettleSkip \/ SettleRefuse \/ SettleReject
  <2>1. pc = "settle" /\ UNCHANGED <<tape, broker, disk, pc>>
    BY <1>8 DEF SettleSkip, SettleRefuse, SettleReject
  <2> QED  BY <1>l, <1>quiet, <2>1
<1>9. CASE Execute
  <2> DEFINE part == Head(job.todo)
  <2>1. /\ pc = "settle" /\ pc' = "record" /\ job.todo # <<>>
        /\ job'.part = part /\ job'.lots = (IF part \in Buys THEN <<part>> ELSE broker.lots)
        /\ broker'.lots = (IF part \in Buys THEN Append(broker.lots, part) ELSE <<>>)
        /\ UNCHANGED <<tape, disk>>
    <3>1. broker' = [broker EXCEPT !.lots = IF part \in Buys THEN Append(@, part) ELSE <<>>]
      BY <1>9 DEF Execute
    <3> QED  BY <1>9, <1>t, <3>1 DEF Execute, Idle
  <2>2. broker.lots = Seed(tape)
    BY <1>l, <2>1 DEF Flow, BrokerFlow
  <2> HIDE DEF part
  <2> QED  BY <1>l, <2>1, <2>2 DEF LotsInv
<1>10. CASE Record
  <2>1. /\ pc = "record" /\ UNCHANGED broker /\ tape' = RecordFill(NextFill) /\ Persist
        /\ Tail(job.lots) = <<>> => pc' = "settle"
        /\ Tail(job.lots) # <<>> =>
             pc' = "record" /\ job'.lots = Tail(job.lots) /\ job'.part = job.part
    BY <1>10, <1>t DEF Record, Idle
  <2>2. /\ NextFill \in FillSet /\ NextFill.lot = Head(job.lots)
        /\ NextFill.side = (IF job.part \in Buys THEN "buy" ELSE "sell")
        /\ tape' = Append(tape, NextFill) /\ TapeOK(Append(tape, NextFill))
    BY <2>1, RecordAppends
  <2>3. job.lots \in Seq(Buys) /\ job.lots # <<>>
    BY <2>1 DEF Flow, HandFlow
  <2>4. NextFill.side = "sell" => Seed(tape) # <<>> /\ NextFill.lot = Head(Seed(tape))
    BY <1>l, <2>1, <2>2, <2>3
  <2>5. /\ Whole(tape')
        /\ Seed(tape') = IF job.part \in Buys THEN Append(Seed(tape), Head(job.lots))
                         ELSE Tail(Seed(tape))
    <3>1. /\ Whole(Append(tape, NextFill))
          /\ Seed(Append(tape, NextFill))
               = IF NextFill.side = "buy" THEN Append(Seed(tape), NextFill.lot) ELSE Tail(Seed(tape))
      BY <1>t, <1>l, <2>2, <2>4, WholeAppend
    <3> QED  BY <2>2, <3>1
  <2>6. Whole(disk'.tape)
    BY <1>persist, <2>1, <2>5
  <2>7. CASE job.part \in Buys
    <3>1. job.lots = <<job.part>> /\ broker.lots = Append(Seed(tape), job.part)
      BY <1>l, <2>1, <2>7
    <3>2. Head(job.lots) = job.part /\ Tail(job.lots) = <<>>
      BY <3>1
    <3> QED  BY <2>1, <2>5, <2>6, <2>7, <3>1, <3>2 DEF LotsInv
  <2>8. CASE job.part \notin Buys
    <3>1. broker.lots = <<>> /\ job.lots = Seed(tape)
      BY <1>l, <2>1, <2>8
    <3>2. Seed(tape') = Tail(job.lots)
      BY <2>5, <2>8, <3>1
    <3> QED  BY <2>1, <2>5, <2>6, <2>8, <3>1, <3>2 DEF LotsInv
  <2> QED  BY <2>7, <2>8
<1>11. CASE Bought
  <2>1. pc = "settle" /\ pc' = "idle" /\ UNCHANGED <<tape, broker, disk>>
    BY <1>11 DEF Bought, Settled
  <2> QED  BY <1>l, <1>quiet, <2>1
<1>12. CASE Recapitalise
  <2>1. pc' = "idle" /\ ~broker'.warm /\ UNCHANGED <<tape, disk>>
    BY <1>12 DEF Recapitalise
  <2> QED  BY <1>l, <1>quiet, <2>1
<1>13. CASE AdvanceClock \/ UNCHANGED vars
  <2>1. UNCHANGED <<tape, broker, disk, pc, job, failures>>
    BY <1>13 DEF AdvanceClock, vars
  <2> QED  BY <1>l, <2>1 DEF LotsInv
<1>14. CASE Publish
  <2>1. UNCHANGED <<tape, broker, pc, job>> /\ disk'.tape = tape /\ pc # "record"
    BY <1>14 DEF Publish, Settled
  <2> QED  BY <1>l, <1>quiet, <2>1
<1>15. CASE StoreFails
  BY <1>15, <1>f DEF StoreFails
<1>16. CASE Crash
  <2>1. pc' = "idle" /\ ~broker'.warm /\ tape' = disk.tape /\ disk' = disk
    BY <1>16 DEF Crash
  <2> QED  BY <1>l, <2>1 DEF LotsInv
<1> QED  BY <1>1, <1>2, <1>3, <1>4, <1>5, <1>6, <1>7, <1>8, <1>9, <1>10, <1>11, <1>12, <1>13,
            <1>14, <1>15, <1>16 DEF Next

(* An empty tape is whole.                                                 *)
LEMMA WholeEmpty == Whole(<<>>)
<1>1. Seed(<<>>) = <<>> /\ Count(<<>>) = Nothing
  BY SeedEmpty, CountEmpty
<1>2. Count(<<>>).qty = Len(Seed(<<>>))
  BY <1>1 DEF Nothing
<1>3. NotOversold(<<>>)
  BY DEF NotOversold
<1>4. ASSUME NEW l \in Buys
      PROVE  Cardinality(Of(<<>>, "buy", l)) = Cardinality(Of(<<>>, "sell", l)) + Cardinality(Places(<<>>, l))
  <2>1. DOMAIN <<>> = {}
    OBVIOUS
  <2>2. Of(<<>>, "buy", l) = {}
    BY <2>1 DEF Of
  <2>3. Of(<<>>, "sell", l) = {}
    BY <2>1 DEF Of
  <2>4. Places(<<>>, l) = {}
    BY <2>1 DEF Places
  <2>5. Cardinality({}) = 0 /\ 0 = 0 + 0
    BY FS_EmptySet
  <2> QED  BY <2>2, <2>3, <2>4, <2>5
<1> QED  BY <1>1, <1>2, <1>3, <1>4 DEF Whole, Balanced

(* Until a write fails, the broker and both tapes say the same.            *)
LEMMA LotsCorrect == Spec => [](IInv /\ Flow /\ LotsInv)
<1>1. SettlementAssumption
  BY SettlementAssumption
<1>2. Init => LotsInv
  BY WholeEmpty DEF Init, LotsInv
<1>3. IInv /\ Flow /\ LotsInv /\ [Next]_vars => LotsInv'
  BY <1>1, LotsStep
<1> QED  BY <1>2, <1>3, FlowCorrect, PTL DEF Spec

(* Between passes the cached broker is what a restart would rebuild.       *)
THEOREM BrokerIsTapeAlways == Spec => []BrokerIsTape
<1>1. LotsInv => BrokerIsTape
  BY DEF LotsInv, BrokerIsTape
<1> QED  BY <1>1, LotsCorrect, PTL

(* No sale on the tape sells an entry that is not open where it stands.    *)
THEOREM NeverOversoldAlways == Spec => []NeverOversold
<1>1. LotsInv => NeverOversold
  BY DEF LotsInv, Whole, NotOversold, NeverOversold
<1> QED  BY <1>1, LotsCorrect, PTL

-----------------------------------------------------------------------------
(* Closers                                                                 *)

(* Steps that leave no closer's job behind.                                *)
LEMMA OtherJobs ==
  ASSUME SettlementAssumption, IInv,
         \/ StartTick \/ Decide \/ ClearPending \/ SweepBuy \/ RungBuy \/ Bought
         \/ \E c \in Closers : Close(c)
         \/ Release \/ Recapitalise \/ AdvanceClock \/ StoreFails \/ Crash
  PROVE  ~(pc' # "idle" /\ job'.next \in Closers)
<1>c. "decide" \notin Closers /\ "clear" \notin Closers /\ "bought" \notin Closers
  BY ClosersApart
<1>1. CASE StartTick
  <2>1. PICK candles \in CandleSets : \E bar \in Unprocessed(candles, row.lastBar) :
          job' = [Idle EXCEPT !.todo = row.pending, !.key = PendingKey(bar), !.time = bar,
                              !.next = "decide", !.bars = Unprocessed(candles, row.lastBar)]
    BY <1>1 DEF StartTick
  <2>2. job'.next = "decide"
    BY <2>1 DEF Idle
  <2> QED  BY <1>c, <2>2
<1>2. CASE Decide
  <2>1. PICK bar, level, orders : DecideOn(bar, level, orders)
    BY <1>2 DEF Decide
  <2>2. pc' = "idle" \/ job'.next = "clear" \/ job'.next = "decide"
    <3>1. CASE pc' = "settle" /\ job' = [Idle EXCEPT !.todo = orders, !.key = bar, !.time = bar,
                                                    !.next = "clear"]
      BY <3>1 DEF Idle
    <3>2. ASSUME NEW open,
                 job' = [Idle EXCEPT !.todo = orders, !.key = bar, !.time = open,
                                     !.next = "decide", !.bars = job.bars \ {bar}]
          PROVE  job'.next = "decide"
      BY <3>2 DEF Idle
    <3> QED  BY <2>1, <3>1, <3>2 DEF DecideOn
  <2> QED  BY <1>c, <2>2
<1>3. CASE SweepBuy \/ RungBuy
  <2>1. PICK n \in NextSteps, k \in {clock, row.lastBar} :
          job' = [Idle EXCEPT !.todo = <<LotIds[n]>>, !.key = k, !.time = clock,
                              !.next = "bought", !.via = "sweep"]
    BY <1>3 DEF SweepBuy, RungBuy
  <2>2. job'.next = "bought"
    BY <2>1 DEF Idle
  <2> QED  BY <1>c, <2>2
<1>4. CASE \/ ClearPending \/ Bought \/ (\E c \in Closers : Close(c))
           \/ Release \/ Recapitalise \/ AdvanceClock \/ StoreFails \/ Crash
  BY <1>4 DEF ClearPending, Bought, Close, Release, Recapitalise, AdvanceClock, StoreFails, Crash
<1> QED  BY <1>1, <1>2, <1>3, <1>4

(* A closer's job holds one order, and ends with the sale or without.      *)
LEMMA CloseStep ==
  ASSUME SettlementAssumption, IInv, Flow, LotsInv, CloseInv, [Next]_vars
  PROVE  CloseInv'
<1> SUFFICES ASSUME failures' = 0, pc' # "idle", job'.next \in Closers PROVE CloseInv'
  BY DEF CloseInv
<1>t. /\ DOMAIN job = DOMAIN Idle /\ job.todo \in Seq(Orders) /\ failures \in Nat
  BY DEF IInv, TypeOK
<1>f. failures = 0 \/ StoreFails
  BY DEF Next, StartTick, Decide, ClearPending, SettleSkip, SettleRefuse, SettleReject, Execute,
         Record, SweepBuy, RungBuy, Bought, CloserSale, Close, Release, Recapitalise,
         AdvanceClock, Publish, Crash, vars
<1>1. ASSUME NEW c \in Closers, CloserSale(c) PROVE CloseInv'
  <2>1. /\ job'.todo = <<c>> /\ job'.next = c /\ job'.before = Len(tape) /\ tape' = tape
        /\ pc' = "settle" /\ job'.todo # <<>>
    BY <1>1 DEF CloserSale, Idle
  <2>2. Len(tape) \in Nat
    BY TapeFacts DEF Flow, StoreFlow
  <2> QED  BY <2>1, <2>2 DEF CloseInv
<1>2. CASE SettleSkip \/ SettleRefuse \/ SettleReject
  <2>1. /\ pc = "settle" /\ pc' = "settle" /\ job.todo # <<>> /\ failures = 0
        /\ job'.todo = Tail(job.todo) /\ job'.next = job.next /\ job'.before = job.before
        /\ UNCHANGED <<tape, broker>>
    BY <1>2, <1>t DEF SettleSkip, SettleRefuse, SettleReject, Idle
  <2>2. job.todo = <<job.next>> /\ Len(tape) = job.before /\ job.before \in Nat
    BY <2>1 DEF CloseInv
  <2>3. job'.todo = <<>>
    BY <2>1, <2>2
  <2> QED  BY <2>1, <2>2, <2>3 DEF CloseInv
<1>3. CASE Execute
  <2>1. /\ pc = "settle" /\ pc' = "record" /\ job.todo # <<>> /\ failures = 0
        /\ job'.todo = Tail(job.todo) /\ job'.next = job.next /\ job'.part = Head(job.todo)
        /\ job'.before = job.before
    BY <1>3, <1>t DEF Execute, Idle
  <2>2. job.todo = <<job.next>> /\ job.before \in Nat
    BY <2>1 DEF CloseInv
  <2>3. job'.todo = <<>> /\ job'.part = job.next
    BY <2>1, <2>2
  <2> QED  BY <2>1, <2>3 DEF CloseInv
<1>4. CASE Record
  <2>1. /\ pc = "record" /\ UNCHANGED broker /\ failures = 0
        /\ pc' \in {"settle", "record"}
        /\ job'.todo = job.todo /\ job'.next = job.next /\ job'.before = job.before
        /\ pc' = "record" => job'.part = job.part
    BY <1>4, <1>t DEF Record, Idle
  <2>2. job.todo = <<>> /\ job.part = job.next /\ job.before \in Nat
    BY <2>1 DEF CloseInv
  <2>3. job.part \notin Buys
    BY <2>1, <2>2, ClosersApart
  <2>4. broker.lots = <<>>
    BY <2>1, <2>3 DEF LotsInv
  <2> QED  BY <2>1, <2>2, <2>4 DEF CloseInv
<1>5. CASE Publish \/ UNCHANGED vars
  <2>1. UNCHANGED <<tape, broker, pc, job, failures>>
    BY <1>5 DEF Publish, vars
  <2> QED  BY <2>1 DEF CloseInv
<1>6. CASE \/ StartTick \/ Decide \/ ClearPending \/ SweepBuy \/ RungBuy \/ Bought
           \/ (\E c \in Closers : Close(c))
           \/ Release \/ Recapitalise \/ AdvanceClock \/ StoreFails \/ Crash
  BY <1>6, OtherJobs
<1> QED  BY <1>1, <1>2, <1>3, <1>4, <1>5, <1>6 DEF Next

(* Every reachable closer's job is one order.                              *)
LEMMA CloseCorrect == Spec => [](IInv /\ Flow /\ LotsInv /\ CloseInv)
<1>1. SettlementAssumption
  BY SettlementAssumption
<1>2. Init => CloseInv
  BY DEF Init, CloseInv
<1>3. IInv /\ Flow /\ LotsInv /\ CloseInv /\ [Next]_vars => CloseInv'
  BY <1>1, CloseStep
<1> QED  BY <1>2, <1>3, LotsCorrect, PTL DEF Spec

(* A closer that looks at the tape before it retires the slot leaves       *)
(* nothing on it, until a write fails: the tape grew in its own job, which *)
(* only its own sale does, and that sale emptied the broker.               *)
THEOREM CheckedCloseIsFlatAlways == Spec => CheckedCloseIsFlat
<1>a. SettlementAssumption
  BY SettlementAssumption
<1>1. ASSUME IInv, Flow, LotsInv, CloseInv, NEW c \in CheckedClosers,
             failures = 0, Close(c), ~row'.open
      PROVE  Seed(tape) = <<>>
  <2>1. /\ pc = "settle" /\ job.todo = <<>> /\ job.next = c
        /\ row' = [row EXCEPT !.open = ~Retires(c)]
    BY <1>1 DEF Close, Settled
  <2>2. Retires(c)
    BY <1>1, <2>1 DEF IInv, TypeOK, Rows
  <2>3. Len(tape) > job.before
    BY <2>2 DEF Retires
  <2>4. c \in Closers
    <3>1. job.next \in Nexts /\ c \notin {"idle", "decide", "clear", "bought"}
      BY <1>1 DEF IInv, TypeOK, CheckedClosers
    <3> QED  BY <2>1, <3>1 DEF Nexts
  <2>5. Len(tape) = job.before \/ broker.lots = <<>>
    BY <1>1, <2>1, <2>4 DEF CloseInv
  <2>6. Len(tape) \in Nat
    BY <1>1, TapeFacts DEF Flow, StoreFlow
  <2>7. broker.lots = <<>> /\ broker.warm
    BY <1>1, <2>1, <2>3, <2>5, <2>6 DEF Flow, BrokerFlow
  <2> QED  BY <1>1, <2>1, <2>7 DEF LotsInv
<1>2. IInv /\ Flow /\ LotsInv /\ CloseInv =>
        \A c \in CheckedClosers : failures = 0 /\ Close(c) /\ ~row'.open => Seed(tape) = <<>>
  BY <1>1
<1>3. IInv /\ Flow /\ LotsInv /\ CloseInv =>
        [\A c \in CheckedClosers : failures = 0 /\ Close(c) /\ ~row'.open => Seed(tape) = <<>>]_vars
  BY <1>2
<1> QED  BY <1>3, CloseCorrect, PTL DEF CheckedCloseIsFlat

(* Until something goes wrong no closer's sale is on the tape of an open   *)
(* slot outside the closer's own job, and no slot is retired over lots.    *)
LEMMA OrphanStep ==
  ASSUME SettlementAssumption, IInv, Flow, LotsInv, CloseInv, OrphanInv, [Next]_vars
  PROVE  OrphanInv'
<1> SUFFICES ASSUME Clean' PROVE OrphanInv'
  BY DEF OrphanInv
<1>t. /\ DOMAIN job = DOMAIN Idle /\ job.todo \in Seq(Orders) /\ failures \in Nat /\ crashes \in Nat
      /\ row \in Rows /\ TapeOK(tape) /\ Storage \in Storages
      /\ Len(tape) \in Nat /\ DOMAIN tape = 1..Len(tape)
  BY TapeFacts DEF IInv, TypeOK, Flow, StoreFlow, SettlementAssumption
<1>f. failures = 0 /\ (Storage = "memory" \/ crashes = 0) /\ ~StoreFails
  <2>1. failures' = failures \/ failures' = failures + 1
    BY DEF Next, StartTick, Decide, ClearPending, SettleSkip, SettleRefuse, SettleReject, Execute,
           Record, SweepBuy, RungBuy, Bought, CloserSale, Close, Release, Recapitalise,
           AdvanceClock, Publish, StoreFails, Crash, vars
  <2>2. crashes' = crashes \/ crashes' = crashes + 1
    BY DEF Next, StartTick, Decide, ClearPending, SettleSkip, SettleRefuse, SettleReject, Execute,
           Record, SweepBuy, RungBuy, Bought, CloserSale, Close, Release, Recapitalise,
           AdvanceClock, Publish, StoreFails, Crash, vars
  <2>3. failures = 0 /\ failures' = 0
    BY <1>t, <2>1 DEF Clean
  <2> QED  BY <1>t, <2>2, <2>3 DEF Clean, StoreFails
<1> DEFINE closing == pc # "idle" /\ job.next \in Closers
           kept == /\ disk.row.open => NoCloser(disk.tape)
                   /\ ~disk.row.open => Seed(disk.tape) = <<>>
<1>o. /\ row.open /\ ~closing => NoCloser(tape)
      /\ ~row.open => Seed(tape) = <<>>
      /\ closing /\ pc = "settle" /\ job.todo # <<>> =>
           NoCloser(tape) /\ broker.lots # <<>> /\ ~job.refused
      /\ closing /\ pc = "settle" /\ job.todo = <<>> =>
           \/ job.refused /\ NoCloser(tape)
           \/ ~job.refused /\ Len(tape) > job.before /\ broker.lots = <<>>
      /\ closing /\ pc = "record" => ~job.refused /\ Len(tape) >= job.before
      /\ Storage = "memory" => kept
  BY <1>f DEF OrphanInv, Clean
<1>l. /\ Whole(tape)
      /\ pc # "record" /\ broker.warm => broker.lots = Seed(tape)
      /\ pc = "record" /\ job.part \notin Buys => broker.lots = <<>>
      /\ Count(tape).qty = Len(Seed(tape)) /\ Seed(tape) \in Seq(Buys)
  BY <1>f, <1>t, SeedFacts DEF LotsInv, Whole
<1>b. pc # "idle" => broker.warm /\ row.open
  BY DEF Flow, BrokerFlow
<1>persist. ASSUME Persist, Storage = "memory" PROVE disk' = disk
  BY <1>persist DEF Persist
<1>other. ASSUME tape' = tape, row'.open = row.open, ~(pc' # "idle" /\ job'.next \in Closers),
                 ~closing, Storage = "memory" => disk' = disk
          PROVE  OrphanInv'
  BY <1>o, <1>other DEF OrphanInv
<1>1. CASE StartTick \/ SweepBuy \/ RungBuy \/ Recapitalise \/ AdvanceClock
  <2>1. pc = "idle" /\ UNCHANGED <<tape, row, disk>>
    BY <1>1 DEF StartTick, SweepBuy, RungBuy, Recapitalise, AdvanceClock
  <2>2. ~(pc' # "idle" /\ job'.next \in Closers)
    BY <1>1, OtherJobs
  <2> QED  BY <2>1, <2>2, <1>other
<1>2. CASE Decide \/ ClearPending \/ Bought
  <2>1. ~closing
    BY <1>2, ClosersApart DEF Decide, ClearPending, Bought, Settled
  <2>2. ~(pc' # "idle" /\ job'.next \in Closers)
    BY <1>2, OtherJobs
  <2>3. tape' = tape /\ row'.open = row.open
    BY <1>2, <1>t DEF Decide, DecideOn, ClearPending, Bought, Rows
  <2>4. Storage = "memory" => disk' = disk
    BY <1>2, <1>persist DEF Decide, ClearPending, Bought
  <2> QED  BY <1>other, <2>1, <2>2, <2>3, <2>4
<1>3. ASSUME NEW c \in Closers, CloserSale(c) PROVE OrphanInv'
  <2>1. /\ job'.todo = <<c>> /\ job'.todo # <<>> /\ ~job'.refused /\ pc' = "settle"
        /\ UNCHANGED <<tape, row, disk>> /\ pc = "idle" /\ row.open /\ broker' = BrokerFor
        /\ Holdings.qty > 0
    BY <1>3 DEF CloserSale, Idle
  <2>2. NoCloser(tape)
    BY <1>o, <2>1
  <2>3. Seed(tape) # <<>>
    <3>1. Len(Seed(tape)) > 0
      BY <1>l, <2>1, HoldingsCount
    <3> QED  BY <3>1
  <2>4. broker'.lots = Seed(tape)
    <3>1. broker.lots \in Seq(Buys)
      BY DEF Flow, BrokerFlow
    <3> QED  BY <1>t, <1>l, <2>1, <3>1, BrokerFacts
  <2> QED  BY <1>o, <2>1, <2>2, <2>3, <2>4 DEF OrphanInv
<1>4. CASE (SettleSkip \/ SettleRefuse \/ SettleReject) /\ ~closing
  <2>1. /\ UNCHANGED <<tape, row, disk, pc>> /\ job'.next = job.next
    BY <1>4, <1>t DEF SettleSkip, SettleRefuse, SettleReject, Idle
  <2> QED  BY <1>4, <1>other, <2>1
<1>5. CASE (SettleSkip \/ SettleRefuse \/ SettleReject) /\ closing
  <2>1. /\ pc = "settle" /\ job.todo # <<>> /\ UNCHANGED <<tape, row, disk, pc, broker>>
        /\ job'.next = job.next /\ job'.todo = Tail(job.todo)
    BY <1>5, <1>t DEF SettleSkip, SettleRefuse, SettleReject, Idle
  <2>2. job.todo = <<job.next>> /\ NoCloser(tape) /\ broker.lots # <<>> /\ ~job.refused
    BY <1>5, <1>f, <1>o, <2>1 DEF CloseInv
  <2>3. Head(job.todo) = job.next /\ Tail(job.todo) = <<>>
    BY <2>2
  <2>4. ~HasFill(job.key, job.next)
    BY <1>5, <2>2 DEF HasFill, Keyed, NoCloser
  <2>5. job.next \notin Buys
    BY <1>5, ClosersApart
  <2>6. SettleRefuse
    BY <1>5, <2>2, <2>3, <2>4, <2>5 DEF SettleSkip, SettleReject, Rejects
  <2>7. job'.refused
    BY <2>6, <1>t DEF SettleRefuse, Idle
  <2> QED  BY <1>5, <1>o, <2>1, <2>2, <2>3, <2>7 DEF OrphanInv
<1>6. CASE Execute /\ ~closing
  <2>1. /\ UNCHANGED <<tape, row, disk>> /\ job'.next = job.next /\ pc # "idle"
    BY <1>6, <1>t DEF Execute, Idle
  <2> QED  BY <1>6, <1>other, <2>1
<1>7. CASE Execute /\ closing
  <2>1. /\ pc = "settle" /\ pc' = "record" /\ job.todo # <<>> /\ UNCHANGED <<tape, row, disk>>
        /\ job'.next = job.next /\ job'.refused = job.refused /\ job'.before = job.before
    BY <1>7, <1>t DEF Execute, Idle
  <2>2. Len(tape) = job.before /\ ~job.refused
    BY <1>7, <1>f, <1>o, <2>1 DEF CloseInv
  <2> QED  BY <1>7, <1>t, <1>o, <1>b, <2>1, <2>2 DEF OrphanInv
<1>8. CASE Record
  <2>1. /\ pc = "record" /\ UNCHANGED <<row, broker>> /\ tape' = RecordFill(NextFill) /\ Persist
        /\ pc' \in {"settle", "record"}
        /\ job'.todo = job.todo /\ job'.next = job.next /\ job'.refused = job.refused
        /\ job'.before = job.before
    BY <1>8, <1>t DEF Record, Idle
  <2>2. /\ NextFill.part = job.part /\ Len(tape') = Len(tape) + 1 /\ DOMAIN tape' = 1..(Len(tape) + 1)
        /\ tape'[Len(tape) + 1] = NextFill
        /\ \A i \in DOMAIN tape : tape'[i] = tape[i]
    BY <2>1, RecordAppends
  <2>3. row.open /\ row'.open /\ (Storage = "memory" => disk' = disk)
    BY <1>b, <1>persist, <2>1
  <2>4. CASE closing
    <3>1. /\ job.todo = <<>> /\ job.part = job.next /\ ~job.refused /\ Len(tape) >= job.before
          /\ job.before \in Nat
      BY <1>f, <1>o, <2>1, <2>4 DEF CloseInv
    <3>2. broker.lots = <<>>
      BY <1>l, <2>1, <2>4, <3>1, ClosersApart
    <3>3. (Len(tape') >= job.before) /\ (Len(tape') > job.before)
      BY <1>t, <2>2, <3>1
    <3> QED  BY <1>o, <2>1, <2>3, <2>4, <3>1, <3>2, <3>3 DEF OrphanInv
  <2>5. CASE ~closing
    <3>1. NoCloser(tape) /\ job.part \in TickOrders
      BY <1>o, <1>b, <2>1, <2>5 DEF Flow, TickJob
    <3>2. job.part \notin Closers
      BY <3>1, ClosersApart
    <3>3. \A i \in DOMAIN tape' : i \in DOMAIN tape \/ i = Len(tape) + 1
      BY <1>t, <2>2
    <3>4. NoCloser(tape')
      BY <2>2, <3>1, <3>2, <3>3 DEF NoCloser
    <3> QED  BY <1>o, <2>1, <2>3, <2>5, <3>4 DEF OrphanInv
  <2> QED  BY <2>4, <2>5
<1>9. ASSUME NEW c \in Closers, Close(c) PROVE OrphanInv'
  <2>1. /\ pc = "settle" /\ job.todo = <<>> /\ job.next = c /\ pc' = "idle" /\ tape' = tape
        /\ row'.open = ~Retires(c) /\ Persist
    BY <1>9, <1>t DEF Close, Settled, Rows
  <2>2. \/ job.refused /\ NoCloser(tape)
        \/ ~job.refused /\ Len(tape) > job.before /\ broker.lots = <<>>
    BY <1>9, <1>o, <2>1
  <2>3. CASE job.refused
    <3>1. row'.open /\ NoCloser(tape)
      BY <2>1, <2>2, <2>3 DEF Retires
    <3> QED  BY <1>o, <1>persist, <2>1, <3>1 DEF OrphanInv
  <2>4. CASE ~job.refused
    <3>1. ~row'.open /\ broker.lots = <<>>
      BY <2>1, <2>2, <2>4 DEF Retires
    <3>2. Seed(tape) = <<>>
      BY <1>b, <1>l, <2>1, <3>1
    <3> QED  BY <1>o, <1>persist, <2>1, <3>1, <3>2 DEF OrphanInv
  <2> QED  BY <2>3, <2>4
<1>10. CASE Release
  <2>1. pc' = "idle" /\ tape' = tape /\ ~row'.open /\ Holdings.qty = 0 /\ Persist
    BY <1>10, <1>t DEF Release, Rows
  <2>2. Seed(tape) = <<>>
    <3>1. Len(Seed(tape)) = 0
      BY <1>l, <2>1, HoldingsCount
    <3>2. \A s \in Seq(Buys) : Len(s) = 0 => s = <<>>
      OBVIOUS
    <3> QED  BY <1>l, <3>1, <3>2
  <2> QED  BY <1>o, <1>persist, <2>1, <2>2 DEF OrphanInv
<1>11. CASE Publish
  <2>1. /\ disk'.row = row /\ disk'.tape = tape /\ UNCHANGED <<row, tape, broker, pc, job>>
        /\ ~closing
    BY <1>11, ClosersApart DEF Publish, Settled
  <2> QED  BY <1>o, <2>1 DEF OrphanInv
<1>12. CASE Crash
  <2>1. pc' = "idle" /\ tape' = disk.tape /\ row' = disk.row /\ disk' = disk /\ crashes' = crashes + 1
    BY <1>12 DEF Crash
  <2>2. Storage = "memory"
    BY <1>t, <2>1 DEF Clean
  <2> QED  BY <1>o, <2>1, <2>2 DEF OrphanInv
<1>13. CASE UNCHANGED vars
  <2>1. UNCHANGED <<row, tape, broker, pc, job, disk>>
    BY <1>13 DEF vars
  <2> QED  BY <1>o, <2>1 DEF OrphanInv
<1> QED  BY <1>f, <1>1, <1>2, <1>3, <1>4, <1>5, <1>6, <1>7, <1>8, <1>9, <1>10, <1>11, <1>12,
            <1>13 DEF Next

(* Until something goes wrong no slot is retired over a holding.           *)
LEMMA OrphanCorrect == Spec => [](IInv /\ Flow /\ OrphanInv)
<1>1. SettlementAssumption
  BY SettlementAssumption
<1>2. Init => OrphanInv
  <2> SUFFICES ASSUME Init PROVE OrphanInv
    OBVIOUS
  <2>1. row.open /\ tape = <<>> /\ pc = "idle" /\ disk.row = row /\ disk.tape = tape
    BY DEF Init, FreshRow
  <2>2. NoCloser(<<>>)
    BY DEF NoCloser
  <2> QED  BY <2>1, <2>2 DEF OrphanInv
<1>3. IInv /\ Flow /\ LotsInv /\ CloseInv /\ OrphanInv /\ [Next]_vars => OrphanInv'
  BY <1>1, OrphanStep
<1> QED  BY <1>2, <1>3, CloseCorrect, PTL DEF Spec

(* As long as no write failed and, over a store durable on return, the     *)
(* process never died, a retired slot holds nothing.                       *)
THEOREM NoOrphanUntilItDies == Spec => [](Clean => NoOrphan)
<1>1. OrphanInv => (Clean => NoOrphan)
  BY DEF OrphanInv, NoOrphan
<1> QED  BY <1>1, OrphanCorrect, PTL

(* Over the store that only a snapshot makes durable no crash orphans.     *)
THEOREM NoOrphanInMemory == Storage = "memory" => (Spec => []NoOrphan)
<1>1. ASSUME Storage = "memory" PROVE Flow /\ OrphanInv => NoOrphan
  BY <1>1 DEF Flow, Mirror, Clean, OrphanInv, NoOrphan
<1>2. ASSUME Storage = "memory" PROVE Spec => []NoOrphan
  <2>1. Flow /\ OrphanInv => NoOrphan
    BY <1>1, <1>2
  <2> QED  BY <2>1, OrphanCorrect, PTL
<1> QED  BY <1>2

-----------------------------------------------------------------------------
(* The refinement of PositionBook                                          *)

(* The record as the tape tells it.                                        *)
Fact(t) == {Recorded(t[i]) : i \in DOMAIN t}
Held(t) == [l \in Buys |-> Cardinality(Of(t, "buy", l)) - Cardinality(Of(t, "sell", l))]
Faults(c, w) == {f \in {"crash", "write"} : (f = "crash" /\ c > 0) \/ (f = "write" /\ w > 0)}

(* What the refinement maps the record's holding to.                       *)
LEMMA HeldIsTape ==
  [l \in Buys |-> Fills("buy", l) - Fills("sell", l)] = Held(tape)
  BY DEF Held, Fills, Of

(* What the step looks like to the record.                                 *)
LEMMA BookStutters ==
  ASSUME row'.open = row.open, UNCHANGED <<tape, decided, crashes, failures>>
  PROVE  UNCHANGED Book!bookVars
  BY DEF Book!bookVars, Fills

(* A decision of a later bar.                                              *)
LEMMA BookDecides ==
  ASSUME NEW d, row.open, row'.open = row.open, UNCHANGED <<tape, crashes, failures>>,
         decided' = decided \cup {d}, \A e \in decided : e.bar < d.bar
  PROVE  Book!Decide(d)
  BY DEF Book!Decide, Fills

(* A slot given back, empty unless something went wrong.                   *)
LEMMA BookRetires ==
  ASSUME row.open, row'.open = FALSE, UNCHANGED <<tape, decided, crashes, failures>>,
         Faults(crashes, failures) = {} => \A l \in Buys : Held(tape)[l] = 0
  PROVE  Book!Retire
  BY DEF Book!Retire, Held, Of, Fills, Faults

(* A crash or a failed write.                                              *)
LEMMA BookGoesWrong ==
  ASSUME NEW fault, row'.open = row.open, UNCHANGED <<tape, decided>>,
         Faults(crashes', failures') = Faults(crashes, failures) \cup {fault}
  PROVE  Book!GoWrong(fault)
  BY DEF Book!GoWrong, Fills, Faults

(* A fill of its own key, announced, after the ones before it in its order, *)
(* that buys or sells what is held.                                        *)
LEMMA BookFills ==
  ASSUME NEW f, row.open, row'.open = row.open, UNCHANGED <<decided, crashes, failures>>,
         ~ \E g \in Fact(tape) : g.at = f.at /\ g.part = f.part /\ g.n = f.n,
         f.n > 0 => \E g \in Fact(tape) : g.at = f.at /\ g.part = f.part /\ g.n = f.n - 1,
         f.via = "tick" => InDecision(f.at, f.part, decided),
         Fact(tape') = Fact(tape) \cup {f},
         f.side = "buy" => Held(tape') = [Held(tape) EXCEPT ![f.lot] = @ + 1],
         f.side # "buy" => /\ "write" \in Faults(crashes, failures) \/ Held(tape)[f.lot] > 0
                           /\ Held(tape') = [Held(tape) EXCEPT ![f.lot] = @ - 1]
  PROVE  Book!Fill(f)
<1>1. Book!Recorded(f.at, f.part, f.n) <=>
        \E g \in Fact(tape) : g.at = f.at /\ g.part = f.part /\ g.n = f.n
  BY DEF Book!Recorded, Fact
<1>2. Book!Recorded(f.at, f.part, f.n - 1) <=>
        \E g \in Fact(tape) : g.at = f.at /\ g.part = f.part /\ g.n = f.n - 1
  BY DEF Book!Recorded, Fact
<1>3. Book!Announced(f)
  BY DEF Book!Announced, InDecision
<1>4. f.side = "buy" => Book!Buy(f.lot)
  BY DEF Book!Buy, Held, Of, Fills
<1>5. f.side # "buy" => Book!Sell(f.lot)
  BY DEF Book!Sell, Held, Of, Fills, Faults
<1>6. Fact(tape') = {Recorded(tape[i]) : i \in DOMAIN tape}'
  BY DEF Fact
<1> QED  BY <1>1, <1>2, <1>3, <1>4, <1>5, <1>6 DEF Book!Fill, Fact

(* A step that leaves the row's slot, the tape and the decisions alone.    *)
LEMMA BookQuiet ==
  ASSUME SettlementAssumption, TypeOK, [Next]_vars,
         ~(Decide \/ Record \/ (\E c \in Closers : Close(c)) \/ Release \/ StoreFails \/ Crash)
  PROVE  UNCHANGED Book!bookVars
<1>t. row \in Rows
  BY DEF TypeOK
<1>1. row'.open = row.open
  BY <1>t DEF Rows, Next, StartTick, ClearPending, SettleSkip, SettleRefuse, SettleReject, Execute,
         SweepBuy, RungBuy, Bought, CloserSale, Recapitalise, AdvanceClock, Publish, vars
<1>2. UNCHANGED <<tape, decided, crashes, failures>>
  BY DEF Next, StartTick, ClearPending, SettleSkip, SettleRefuse, SettleReject, Execute,
         SweepBuy, RungBuy, Bought, CloserSale, Recapitalise, AdvanceClock, Publish, vars
<1> QED  BY <1>1, <1>2, BookStutters

(* One more fill is one more fact, and moves what is held by one.          *)
LEMMA FactAppend ==
  ASSUME NEW t, TapeOK(t), NEW f \in FillSet, TapeOK(Append(t, f))
  PROVE  /\ Fact(Append(t, f)) = Fact(t) \cup {Recorded(f)}
         /\ f.side = "buy" => Held(Append(t, f)) = [Held(t) EXCEPT ![f.lot] = @ + 1]
         /\ f.side = "sell" => Held(Append(t, f)) = [Held(t) EXCEPT ![f.lot] = @ - 1]
<1> DEFINE u == Append(t, f)
           n == Len(t)
<1>1. /\ n \in Nat /\ DOMAIN t = 1..n /\ DOMAIN u = 1..(n + 1) /\ u[n + 1] = f
      /\ \A i \in 1..n : u[i] = t[i]
  BY DEF TapeOK
<1> DEFINE up(l) == Cardinality(Of(u, "buy", l))
           dn(l) == Cardinality(Of(u, "sell", l))
           vp(l) == Cardinality(Of(t, "buy", l))
           vn(l) == Cardinality(Of(t, "sell", l))
<1>2. ASSUME NEW l
      PROVE  /\ vp(l) \in Nat /\ vn(l) \in Nat
             /\ up(l) = vp(l) + (IF f.side = "buy" /\ f.lot = l THEN 1 ELSE 0)
             /\ dn(l) = vn(l) + (IF f.side = "sell" /\ f.lot = l THEN 1 ELSE 0)
  BY OfAppend
<1>3. Held(u) = [l \in Buys |-> up(l) - dn(l)] /\ Held(t) = [l \in Buys |-> vp(l) - vn(l)]
  BY DEF Held
<1>4. f.lot \in Buys
  BY DEF FillSet
<1>5. Fact(u) = Fact(t) \cup {Recorded(f)}
  <2> HIDE DEF u, n
  <2>1. ASSUME NEW x \in Fact(u) PROVE x \in Fact(t) \cup {Recorded(f)}
    <3>1. PICK i \in 1..(n + 1) : x = Recorded(u[i])
      BY <1>1, <2>1 DEF Fact
    <3>2. CASE i \in 1..n
      BY <1>1, <3>1, <3>2 DEF Fact
    <3>3. CASE i = n + 1
      BY <1>1, <3>1, <3>3
    <3> QED  BY <1>1, <3>2, <3>3
  <2>2. ASSUME NEW x \in Fact(t) PROVE x \in Fact(u)
    <3>1. PICK i \in 1..n : x = Recorded(t[i])
      BY <1>1, <2>2 DEF Fact
    <3>2. i \in 1..(n + 1) /\ u[i] = t[i]
      BY <1>1, <3>1
    <3> QED  BY <1>1, <3>1, <3>2 DEF Fact
  <2>3. Recorded(f) \in Fact(u)
    <3>1. n + 1 \in 1..(n + 1)
      BY <1>1
    <3> QED  BY <1>1, <3>1 DEF Fact
  <2> QED  BY <2>1, <2>2, <2>3
<1> HIDE DEF u, up, dn, vp, vn
<1>6. CASE f.side = "buy"
  <2>1. ASSUME NEW l \in Buys
        PROVE  up(l) - dn(l) = IF l = f.lot THEN (vp(l) - vn(l)) + 1 ELSE vp(l) - vn(l)
    BY <1>2, <1>6
  <2>2. Held(u) = [l \in Buys |-> IF l = f.lot THEN (vp(l) - vn(l)) + 1 ELSE vp(l) - vn(l)]
    BY <1>3, <2>1
  <2>3. [Held(t) EXCEPT ![f.lot] = @ + 1]
           = [l \in Buys |-> IF l = f.lot THEN (vp(l) - vn(l)) + 1 ELSE vp(l) - vn(l)]
    BY <1>3, <1>4
  <2> QED  BY <1>5, <1>6, <2>2, <2>3 DEF u
<1>7. CASE f.side = "sell"
  <2>1. ASSUME NEW l \in Buys
        PROVE  up(l) - dn(l) = IF l = f.lot THEN (vp(l) - vn(l)) - 1 ELSE vp(l) - vn(l)
    BY <1>2, <1>7
  <2>2. Held(u) = [l \in Buys |-> IF l = f.lot THEN (vp(l) - vn(l)) - 1 ELSE vp(l) - vn(l)]
    BY <1>3, <2>1
  <2>3. [Held(t) EXCEPT ![f.lot] = @ - 1]
           = [l \in Buys |-> IF l = f.lot THEN (vp(l) - vn(l)) - 1 ELSE vp(l) - vn(l)]
    BY <1>3, <1>4
  <2> QED  BY <1>5, <1>7, <2>2, <2>3 DEF u
<1>8. f.side = "buy" \/ f.side = "sell"
  BY DEF FillSet
<1> QED  BY <1>6, <1>7, <1>8

(* What is held is what the rebuilt broker holds.                          *)
LEMMA HeldFacts ==
  ASSUME NEW t, TapeOK(t), Balanced(t), NEW l \in Buys
  PROVE  /\ Held(t)[l] = Cardinality(Places(Seed(t), l))
         /\ Seed(t) = <<>> => Held(t)[l] = 0
         /\ Seed(t) # <<>> /\ l = Head(Seed(t)) => Held(t)[l] > 0
<1> DEFINE S == Seed(t)
           b == Cardinality(Of(t, "buy", l))
           s == Cardinality(Of(t, "sell", l))
           p == Cardinality(Places(S, l))
<1>1. S \in Seq(Buys)
  BY SeedFacts
<1>2. s \in Nat
  <2>1. Len(t) \in Nat /\ DOMAIN t = 1..Len(t)
    BY TapeFacts
  <2>2. IsFiniteSet(1..Len(t))
    BY <2>1, FS_Interval
  <2>3. Of(t, "sell", l) \in SUBSET (1..Len(t))
    BY <2>1 DEF Of
  <2> QED  BY <2>2, <2>3, FS_Subset, FS_CardinalityType
<1>3. p \in Nat
  BY <1>1, PlacesFinite
<1>4. b = s + p
  BY DEF Balanced
<1>5. Held(t)[l] = b - s
  BY DEF Held
<1> HIDE DEF b, s
<1>6. Held(t)[l] = p
  <2> HIDE DEF p
  <2> QED  BY <1>2, <1>3, <1>4, <1>5
<1>7. S = <<>> => p = 0
  <2> SUFFICES ASSUME S = <<>> PROVE p = 0
    OBVIOUS
  <2>1. Places(<<>>, l) = {}
    BY DEF Places
  <2> QED  BY <2>1, FS_EmptySet
<1>8. S # <<>> /\ l = Head(S) => p > 0
  <2> SUFFICES ASSUME S # <<>>, l = Head(S) PROVE p > 0
    OBVIOUS
  <2> HIDE DEF S
  <2>1. Tail(S) \in Seq(Buys)
    BY <1>1
  <2>2. Cardinality(Places(Tail(S), l)) \in Nat
    BY <2>1, PlacesFinite
  <2>3. p = Cardinality(Places(Tail(S), l)) + 1
    BY <1>1, PlacesTail
  <2> QED  BY <2>2, <2>3
<1> QED  BY <1>6, <1>7, <1>8

(* A recorded fill is a fill of the record.                                *)
LEMMA RecordRefines ==
  ASSUME SettlementAssumption, IInv, Flow, LotsInv, Record
  PROVE  Book!Fill(Recorded(NextFill)) /\ Recorded(NextFill) \in Fact(tape') \ Fact(tape)
<1> DEFINE f == NextFill
           g == Recorded(NextFill)
<1>1. /\ pc = "record" /\ tape' = RecordFill(NextFill)
      /\ UNCHANGED <<row, decided, crashes, failures>>
  BY DEF Record
<1>2. /\ f \in FillSet /\ f.lot = Head(job.lots)
      /\ f.at = job.key /\ f.part = job.part /\ f.n = job.n
      /\ f.side = (IF job.part \in Buys THEN "buy" ELSE "sell") /\ f.via = job.via
      /\ ~Keyed(tape, job.key, job.part, job.n)
      /\ tape' = Append(tape, f) /\ TapeOK(tape) /\ TapeOK(Append(tape, f))
  BY <1>1, RecordAppends
<1>3. /\ g.at = f.at /\ g.part = f.part /\ g.n = f.n /\ g.side = f.side /\ g.via = f.via
      /\ g.lot = f.lot
  BY DEF Recorded
<1> HIDE DEF f, g
<1>4. \A at, part, n :
        (\E x \in Fact(tape) : x.at = at /\ x.part = part /\ x.n = n) <=> Keyed(tape, at, part, n)
  <2> SUFFICES ASSUME NEW at, NEW part, NEW n
               PROVE  (\E x \in Fact(tape) : x.at = at /\ x.part = part /\ x.n = n)
                        <=> Keyed(tape, at, part, n)
    OBVIOUS
  <2>1. \A y : Recorded(y).at = y.at /\ Recorded(y).part = y.part /\ Recorded(y).n = y.n
    BY DEF Recorded
  <2> QED  BY <2>1 DEF Fact, Keyed
<1>5. ~ \E x \in Fact(tape) : x.at = g.at /\ x.part = g.part /\ x.n = g.n
  BY <1>2, <1>3, <1>4
<1>6. g.n > 0 => \E x \in Fact(tape) : x.at = g.at /\ x.part = g.part /\ x.n = g.n - 1
  BY <1>1, <1>2, <1>3, <1>4 DEF Flow, HandFlow
<1>7. g.via = "tick" => InDecision(g.at, g.part, decided)
  BY <1>1, <1>2, <1>3 DEF IInv, JobInv
<1>8. /\ Fact(tape') = Fact(tape) \cup {g}
      /\ f.side = "buy" => Held(tape') = [Held(tape) EXCEPT ![f.lot] = @ + 1]
      /\ f.side = "sell" => Held(tape') = [Held(tape) EXCEPT ![f.lot] = @ - 1]
  BY <1>2, FactAppend DEF f, g
<1>9. f.side = "sell" => "write" \in Faults(crashes, failures) \/ Held(tape)[f.lot] > 0
  <2> SUFFICES ASSUME f.side = "sell", "write" \notin Faults(crashes, failures)
               PROVE  Held(tape)[f.lot] > 0
    OBVIOUS
  <2>1. failures = 0
    BY DEF Faults, IInv, TypeOK
  <2>2. job.lots \in Seq(Buys) /\ job.lots # <<>> /\ job.part \notin Buys
    BY <1>1, <1>2 DEF Flow, HandFlow
  <2>3. job.lots = Seed(tape) /\ Balanced(tape)
    BY <1>1, <2>1, <2>2 DEF LotsInv, Whole
  <2>4. Seed(tape) # <<>> /\ f.lot = Head(Seed(tape)) /\ f.lot \in Buys
    BY <1>2, <2>2, <2>3
  <2> QED  BY <1>2, <2>3, <2>4, HeldFacts
<1>10. row.open /\ row'.open = row.open
  BY <1>1 DEF Flow, BrokerFlow
<1>11. f.side = "buy" \/ f.side = "sell"
  BY <1>2
<1>12. /\ g.side = "buy" => Held(tape') = [Held(tape) EXCEPT ![g.lot] = @ + 1]
       /\ g.side # "buy" => /\ "write" \in Faults(crashes, failures) \/ Held(tape)[g.lot] > 0
                            /\ Held(tape') = [Held(tape) EXCEPT ![g.lot] = @ - 1]
  BY <1>3, <1>8, <1>9, <1>11
<1>13. Book!Fill(g)
  BY <1>1, <1>5, <1>6, <1>7, <1>8, <1>10, <1>12, BookFills
<1>14. g \in Fact(tape') /\ g \notin Fact(tape)
  BY <1>5, <1>8
<1> QED  BY <1>13, <1>14 DEF g

(* A slot is retired empty unless something went wrong.                    *)
LEMMA RetireRefines ==
  ASSUME SettlementAssumption, IInv, Flow, LotsInv, CloseInv, OrphanInv, Next,
         Release \/ (\E c \in Closers : Close(c))
  PROVE  Book!Retire \/ UNCHANGED Book!bookVars
<1>1. row.open /\ UNCHANGED <<tape, decided, crashes, failures>>
  BY DEF Release, Close, Settled, Flow, BrokerFlow
<1>2. row'.open \in BOOLEAN
  <2>1. TypeOK'
    BY TypeStep DEF IInv
  <2> QED  BY <2>1 DEF TypeOK, Rows
<1>3. CASE row'.open
  BY <1>1, <1>3, BookStutters
<1>4. CASE ~row'.open
  <2>1. ASSUME Faults(crashes, failures) = {}, NEW l \in Buys PROVE Held(tape)[l] = 0
    <3>1. "crash" \notin Faults(crashes, failures) /\ "write" \notin Faults(crashes, failures)
      BY <2>1
    <3>2. crashes = 0 /\ failures = 0
      BY <3>1 DEF Faults, IInv, TypeOK
    <3>3. Clean'
      BY <1>1, <3>2 DEF Clean
    <3>4. Seed(tape') = <<>>
      BY <1>4, <3>3, OrphanStep DEF OrphanInv
    <3>5. Seed(tape) = <<>> /\ Balanced(tape) /\ TapeOK(tape)
      BY <1>1, <3>2, <3>4 DEF LotsInv, Whole, Flow, StoreFlow
    <3> QED  BY <3>5, HeldFacts
  <2> QED  BY <1>1, <1>2, <1>4, <2>1, BookRetires
<1> QED  BY <1>2, <1>3, <1>4

(* Every step is a step of the record or leaves it alone.                  *)
LEMMA BookStep ==
  ASSUME SettlementAssumption, Storage = "postgres",
         IInv, Flow, LotsInv, CloseInv, OrphanInv, [Next]_vars
  PROVE  [Book!BookNext]_(Book!bookVars)
<1>1. CASE Decide
  <2>1. PICK bar \in job.bars, entry \in EntryChoices, exit \in ExitChoices :
          \E orders \in AfterDeath(entry.orders, exit) : DecideOn(bar, entry.level, orders)
    BY <1>1 DEF Decide
  <2>2. PICK orders \in AfterDeath(entry.orders, exit) : DecideOn(bar, entry.level, orders)
    BY <2>1
  <2> DEFINE d == [bar |-> bar, orders |-> orders]
  <2>3. /\ row'.open = row.open /\ row.open /\ UNCHANGED <<tape, crashes, failures>>
        /\ decided' = decided \cup {d}
    BY <1>1, <2>2 DEF Decide, DecideOn, Settled, IInv, TypeOK, Rows, Flow, BrokerFlow
  <2>4. bar > row.lastBar /\ bar \in Nat /\ row.lastBar \in Int
    BY <1>1 DEF Decide, Settled, IInv, TypeOK, Rows, JobInv
  <2>5. ASSUME NEW e \in decided PROVE e.bar < bar
    <3>1. e.bar \in Int /\ e.bar <= row.lastBar
      BY DEF IInv, TypeOK, Decisions, StoreInv, Once
    <3> QED  BY <2>4, <3>1
  <2>6. d \notin decided /\ \A e \in decided : e.bar < d.bar
    <3>1. d.bar = bar /\ ~(bar < bar)
      BY <2>4
    <3> QED  BY <2>5, <3>1
  <2> HIDE DEF d
  <2>7. Book!Decide(d)
    BY <2>3, <2>6, BookDecides
  <2>8. d \in decided' \ decided
    BY <2>3, <2>6
  <2> QED  BY <2>7, <2>8 DEF Book!BookNext
<1>2. CASE Record
  <2>1. Book!Fill(Recorded(NextFill)) /\ Recorded(NextFill) \in Fact(tape') \ Fact(tape)
    BY <1>2, RecordRefines
  <2> DEFINE g == Recorded(NextFill)
  <2> HIDE DEF g
  <2>2. Book!Fill(g) /\ g \in Fact(tape') \ Fact(tape)
    BY <2>1 DEF g
  <2> QED  BY <2>2 DEF Book!BookNext, Fact
<1>3. CASE Release \/ \E c \in Closers : Close(c)
  <2>1. Next
    BY <1>3 DEF Next
  <2> QED  BY <1>3, <2>1, RetireRefines DEF Book!BookNext
<1>4. CASE StoreFails
  <2>1. UNCHANGED <<row, tape, decided, crashes>> /\ failures' = failures + 1 /\ failures \in Nat
    BY <1>4 DEF StoreFails, IInv, TypeOK
  <2>2. Faults(crashes', failures') = Faults(crashes, failures) \cup {"write"}
    BY <2>1 DEF Faults
  <2>3. Book!GoWrong("write")
    BY <2>1, <2>2, BookGoesWrong
  <2> QED  BY <2>3 DEF Book!BookNext
<1>5. CASE Crash
  <2>1. /\ row' = row /\ tape' = tape /\ decided' = decided /\ failures' = failures
        /\ crashes' = crashes + 1 /\ crashes \in Nat
    BY <1>5 DEF Crash, IInv, TypeOK, Flow, Mirror
  <2>2. Faults(crashes', failures') = Faults(crashes, failures) \cup {"crash"}
    BY <2>1 DEF Faults
  <2>3. Book!GoWrong("crash")
    BY <2>1, <2>2, BookGoesWrong
  <2> QED  BY <2>3 DEF Book!BookNext
<1>6. CASE ~(Decide \/ Record \/ (\E c \in Closers : Close(c)) \/ Release \/ StoreFails \/ Crash)
  BY <1>6, BookQuiet DEF IInv
<1> QED  BY <1>1, <1>2, <1>3, <1>4, <1>5, <1>6

(* A fresh position starts a fresh record.                                 *)
LEMMA BookStart == Init => Book!BookInit
<1> SUFFICES ASSUME Init PROVE Book!BookInit
  OBVIOUS
<1>1. row.open = TRUE /\ tape = <<>> /\ decided = {} /\ crashes = 0 /\ failures = 0
  BY DEF Init, FreshRow
<1>2. Fact(<<>>) = {} /\ Faults(0, 0) = {}
  BY DEF Fact, Faults
<1>3. Held(<<>>) = [l \in Buys |-> 0]
  <2>1. ASSUME NEW l PROVE Of(<<>>, "buy", l) = {} /\ Of(<<>>, "sell", l) = {}
    BY DEF Of
  <2>2. Cardinality({}) = 0 /\ 0 - 0 = 0
    BY FS_EmptySet
  <2> QED  BY <2>1, <2>2 DEF Held
<1>4. /\ {Recorded(tape[i]) : i \in DOMAIN tape} = {}
      /\ [l \in Buys |-> Fills("buy", l) - Fills("sell", l)] = [l \in Buys |-> 0]
      /\ {f \in {"crash", "write"} : (f = "crash" /\ crashes > 0) \/ (f = "write" /\ failures > 0)} = {}
  BY <1>1, <1>2, <1>3, HeldIsTape DEF Fact, Faults
<1> QED  BY <1>1, <1>4 DEF Book!BookInit

(* Over the store whose writes are durable as they return, every step of   *)
(* the engine, the sweep and the allocator, a crash and a failed write     *)
(* included, is a step of the record or leaves it alone.                   *)
THEOREM TheBookIsKept == Storage = "postgres" => (Spec => ImplementsTheBook)
<1>a. SettlementAssumption
  BY SettlementAssumption
<1>1. ASSUME Storage = "postgres" PROVE Spec => ImplementsTheBook
  <2>1. IInv /\ Flow /\ LotsInv /\ CloseInv /\ OrphanInv /\ [Next]_vars =>
          [Book!BookNext]_(Book!bookVars)
    BY <1>1, <1>a, BookStep
  <2> QED  BY <2>1, BookStart, CloseCorrect, OrphanCorrect, PTL DEF Spec, ImplementsTheBook, Book!BookSpec
<1> QED  BY <1>1
=============================================================================
