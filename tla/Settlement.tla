----------------------------- MODULE Settlement -----------------------------
(***************************************************************************)
(* The life of one position's orders, from the bar that decides them to    *)
(* the fill that records them.                                             *)
(*                                                                         *)
(* The engine (application/engine.ts) decides on a closed bar, writes the  *)
(* decision down as `pendingOrders`, sends it to the paper broker and      *)
(* records each fill under a key built from the bar that DECIDED it. The   *)
(* thirty-second sweep (application/stop-sweep.ts) and the allocator       *)
(* (application/orchestrator.ts) send orders of their own through the same *)
(* `settle`. The broker lives in memory and is rebuilt from the recorded   *)
(* fills -- the tape -- whenever it is not in the cache.                   *)
(*                                                                         *)
(* Time is a small clock: bar t is the one that opened at t. A sweep runs  *)
(* at any instant. Prices are abstracted: a condition on a price (the      *)
(* cascade's triggers, a stop's line, the no-loss guard) is a choice.      *)
(***************************************************************************)
EXTENDS Integers, Sequences, FiniteSets, SequencesExt

CONSTANTS
  Storage,      \* "postgres" or "memory", see Persist
  LotIds,       \* the entry ids, in ladder order: <<"Entry", "DCA-1", ...>>
  MaxOpen,      \* maxOpenEntries of the broker (config.maxDcaPerToken + 1)
  MaxCatchUp,   \* MAX_CATCH_UP_BARS
  MaxClock,     \* bound: the last instant of a run
  Closers,      \* bound: the closers a run lets fire
  MaxFills,     \* bound: a sweep buys nothing once the tape is this long
  MaxCrashes,   \* bound: how many times the process may die
  MaxFailures   \* bound: how many store writes may fail ("postgres" only)

Storages == {"postgres", "memory"}

Buys == {LotIds[i] : i \in 1..Len(LotIds)}

(* Sales, named by the comment that is the order's key part. The tick's    *)
(* own: the strategy's exit (the break-even one too) and the death watch's *)
(* (the freeze's too). The rest are the closers: each sells everything and *)
(* then retires the slot. BREAK_EVEN stands for the gain lock and the      *)
(* buyers-gone sale too, FIXED_TP for the pressure take-profit, ROTATION   *)
(* for the swap: same guards, same close.                                  *)
TickSales == {"Exit", "DEATH"}
SweepClosers     == {"CRASH", "FIXED_TP", "BREAK_EVEN", "STOP_LOSS"}
AllocatorClosers == {"ROTATION", "SCORE_STOP"}
Sales == TickSales \cup SweepClosers \cup AllocatorClosers
Orders == Buys \cup Sales

(* An order's comment says whether it buys: no rung of the ladder, "Entry" *)
(* or "DCA-n", is named as a sale is.                                      *)
ASSUME SettlementAssumption ==
  /\ Storage \in Storages
  /\ LotIds \in Seq(STRING) /\ LotIds # <<>>
  /\ {MaxOpen, MaxCatchUp, MaxClock} \subseteq Nat \ {0}
  /\ Closers \subseteq {"CRASH", "FIXED_TP", "BREAK_EVEN", "STOP_LOSS", "ROTATION", "SCORE_STOP"}
  /\ {MaxFills, MaxCrashes, MaxFailures} \subseteq Nat
  /\ Buys \cap Sales = {}

(* Closers that retire the slot only when the sale reached the tape; the   *)
(* others retire it unless the no-loss guard refused.                      *)
CheckedClosers == {"CRASH", "FIXED_TP"}

(* Exits that leave at any price; the others the no-loss guard may hold.   *)
RiskExits == {"DEATH", "CRASH", "STOP_LOSS", "SCORE_STOP"}

VARIABLES
  clock,     \* the instant
  row,       \* the persisted position, as the running process reads it
  tape,      \* the recorded fills
  disk,      \* what a restart would find: [row, tape, decided]
  broker,    \* [warm, lots]: the cached broker and the lots it holds
  pc,        \* what the process is doing
  job,       \* its local variables
  crashes, failures,
  decided    \* history: every [bar, orders] decision written down

vars == <<clock, row, tape, disk, broker, pc, job, crashes, failures, decided>>

Idle == [todo |-> <<>>, key |-> -1, time |-> 0, next |-> "idle", via |-> "tick",
         bars |-> {}, refused |-> FALSE, before |-> 0,
         part |-> "", lots |-> <<>>, n |-> 0, stamp |-> 0]

-----------------------------------------------------------------------------
(* The tape                                                                *)

(* The tape in time order, as every reader sorts it: stable, so rows that  *)
(* share a stamp keep the order they were written in.                      *)
Earlier(fills, i, j) ==
  \/ fills[i].time < fills[j].time
  \/ fills[i].time = fills[j].time /\ i < j

Rank(fills, i) == 1 + Cardinality({j \in DOMAIN fills : Earlier(fills, j, i)})

Sorted(fills) ==
  [r \in DOMAIN fills |-> fills[CHOOSE i \in DOMAIN fills : Rank(fills, i) = r]]

(* PaperBroker.seed: the fills in time order; a buy opens a lot, a sell    *)
(* removes the first open lot with its id, and one that finds none is      *)
(* ignored.                                                                *)
Replay(lots, f) ==
  IF f.side = "buy" THEN Append(lots, f.lot)
  ELSE IF \E i \in DOMAIN lots : lots[i] = f.lot
       THEN RemoveAt(lots, SelectInSeq(lots, LAMBDA l : l = f.lot))
       ELSE lots

Seed(fills) == FoldLeft(Replay, <<>>, Sorted(fills))

Keyed(fills, at, part, n) ==
  \E i \in DOMAIN fills : fills[i].at = at /\ fills[i].part = part /\ fills[i].n = n

(* Mutant of HasFill: a duplicate is never noticed.                        *)
NeverFilled(at, part) == FALSE

HasFill(at, part) == Keyed(tape, at, part, 0)

(* recordFill: the first write under a key wins.                           *)
RecordFill(f) == IF Keyed(tape, f.at, f.part, f.n) THEN tape ELSE Append(tape, f)

(* The newest stamp on the tape, -1 when it is empty.                      *)
Newest ==
  LET times == {-1} \cup {tape[i].time : i \in DOMAIN tape}
  IN  CHOOSE t \in times : \A u \in times : u <= t

(* Mutant of Stamp: the fill carries the time its caller asked for.        *)
StampAsAsked(time) == time

(* The tape is in the order things happened: never stamped at or before    *)
(* the newest fill already on it.                                          *)
Stamp(time) == IF time > Newest THEN time ELSE Newest + 1

(* brokerFor: the cached broker, or one rebuilt from the fills.            *)
BrokerFor == [warm |-> TRUE, lots |-> IF broker.warm THEN broker.lots ELSE Seed(tape)]

-----------------------------------------------------------------------------
(* Durability                                                              *)

Durable == [row |-> row', tape |-> tape', decided |-> decided']

(* Postgres makes each write durable as it returns; the memory store is    *)
(* durable only when the publisher commits a snapshot of it.               *)
Persist == disk' = IF Storage = "postgres" THEN Durable ELSE disk

FreshRow == [open |-> TRUE, lastBar |-> -1, pending |-> <<>>, level |-> 0, inTrade |-> FALSE]

Init ==
  /\ clock = 1
  /\ row = FreshRow
  /\ tape = <<>>
  /\ decided = {}
  /\ disk = [row |-> row, tape |-> tape, decided |-> decided]
  /\ broker = [warm |-> FALSE, lots |-> <<>>]
  /\ pc = "idle"
  /\ job = Idle
  /\ crashes = 0
  /\ failures = 0

-----------------------------------------------------------------------------
(* settle: one order at a time                                             *)

(* An order whose canonical key is already on the tape happened.           *)
SettleSkip ==
  /\ pc = "settle" /\ job.todo # <<>>
  /\ HasFill(job.key, Head(job.todo))
  /\ job' = [job EXCEPT !.todo = Tail(@)]
  /\ UNCHANGED <<clock, row, tape, disk, broker, pc, crashes, failures, decided>>

(* refusesToSellAtALoss: a sale that is not a risk exit, while something   *)
(* is held to be at a loss.                                                *)
SettleRefuse ==
  /\ pc = "settle" /\ job.todo # <<>>
  /\ ~HasFill(job.key, Head(job.todo))
  /\ Head(job.todo) \in Sales \ RiskExits
  /\ broker.lots # <<>>
  /\ job' = [job EXCEPT !.todo = Tail(@), !.refused = TRUE]
  /\ UNCHANGED <<clock, row, tape, disk, broker, pc, crashes, failures, decided>>

(* The broker takes the order, or rejects it: an entry over the open limit *)
(* or beyond its cash, a sale of nothing. What it filled is still to be    *)
(* written down.                                                           *)
Rejects(part) ==
  IF part \in Buys THEN Len(broker.lots) >= MaxOpen ELSE broker.lots = <<>>

SettleReject ==
  /\ pc = "settle" /\ job.todo # <<>>
  /\ ~HasFill(job.key, Head(job.todo))
  /\ Head(job.todo) \in Buys \/ Rejects(Head(job.todo))
  /\ job' = [job EXCEPT !.todo = Tail(@)]
  /\ UNCHANGED <<clock, row, tape, disk, broker, pc, crashes, failures, decided>>

Execute ==
  /\ pc = "settle" /\ job.todo # <<>>
  /\ LET part == Head(job.todo) IN
     /\ ~HasFill(job.key, part)
     /\ ~Rejects(part)
     /\ broker' = [broker EXCEPT !.lots = IF part \in Buys THEN Append(@, part) ELSE <<>>]
     /\ job' = [job EXCEPT !.todo = Tail(@), !.part = part, !.n = 0, !.stamp = Stamp(job.time),
                           !.lots = IF part \in Buys THEN <<part>> ELSE broker.lots]
  /\ pc' = "record"
  /\ UNCHANGED <<clock, row, tape, disk, crashes, failures, decided>>

(* Mutants of NextFill: a close recorded from its last fill to its first,  *)
(* and one whose suffixes are off by one.                                  *)
FillFromTheEnd ==
  [at |-> job.key, part |-> job.part, n |-> Len(job.lots) - 1, lot |-> Head(job.lots),
   time |-> job.stamp, side |-> IF job.part \in Buys THEN "buy" ELSE "sell", via |-> job.via]
FillOffByOne ==
  [at |-> job.key, part |-> job.part, n |-> job.n - 1, lot |-> Head(job.lots),
   time |-> job.stamp, side |-> IF job.part \in Buys THEN "buy" ELSE "sell", via |-> job.via]

(* One recordFill. The first fill of an order carries its canonical key,   *)
(* the rest of a close are suffixed #1, #2, ...                            *)
NextFill ==
  [at |-> job.key, part |-> job.part, n |-> job.n, lot |-> Head(job.lots), time |-> job.stamp,
   side |-> IF job.part \in Buys THEN "buy" ELSE "sell", via |-> job.via]

Record ==
  /\ pc = "record"
  /\ tape' = RecordFill(NextFill)
  /\ IF Tail(job.lots) = <<>>
     THEN /\ pc' = "settle"
          /\ job' = [job EXCEPT !.part = "", !.lots = <<>>, !.n = 0, !.stamp = 0]
     ELSE /\ pc' = "record"
          /\ job' = [job EXCEPT !.lots = Tail(@), !.n = @ + 1]
  /\ UNCHANGED <<clock, row, broker, crashes, failures, decided>>
  /\ Persist

-----------------------------------------------------------------------------
(* tickPosition: walk the closed bars the position has not seen            *)

(* A bar is stamped with the instant it opened, so the newest closed one   *)
(* is behind the clock.                                                    *)
ClosedBars == 1..(clock - 1)

(* Mutant of Unprocessed: the last processed bar is walked again.          *)
FromTheLastBar(bars, lastBar) ==
  LET new == {t \in bars : t >= lastBar /\ (lastBar < 0 => \A u \in bars : u <= t)}
  IN  {t \in new : Cardinality({u \in new : u >= t}) <= MaxCatchUp}

(* firstUnprocessedBar, then the walk to the last: a fresh position starts *)
(* on the latest bar; a gap is replayed, never further back than the cap.  *)
Unprocessed(bars, lastBar) ==
  LET new == {t \in bars : t > lastBar /\ (lastBar < 0 => \A u \in bars : u <= t)}
  IN  {t \in new : Cardinality({u \in new : u >= t}) <= MaxCatchUp}

(* The candles are the provider's, or the one bar made of the live price.  *)
CandleSets == {ClosedBars, {t \in ClosedBars : \A u \in ClosedBars : u <= t}}

IsFirst(bar, bars) == bar \in bars /\ \A u \in bars : bar <= u

(* Mutant of PendingKey: the key is the bar the order fills at.            *)
FillingBarKey(bar) == bar

(* What the pending orders settle under at the open of `bar`: the bar that *)
(* DECIDED them, which is the row's last, never the bar they fill at.      *)
PendingKey(bar) == row.lastBar

StartTick ==
  /\ pc = "idle" /\ row.open
  /\ \E candles \in CandleSets : \E bar \in Unprocessed(candles, row.lastBar) :
       LET walk == Unprocessed(candles, row.lastBar) IN
       /\ IsFirst(bar, walk)
       /\ job' = [Idle EXCEPT !.todo = row.pending, !.key = PendingKey(bar), !.time = bar,
                              !.next = "decide", !.bars = walk]
  /\ broker' = BrokerFor
  /\ pc' = "settle"
  /\ UNCHANGED <<clock, row, tape, disk, crashes, failures, decided>>

Settled(next) == pc = "settle" /\ job.todo = <<>> /\ job.next = next

Holding == broker.lots # <<>>

(* The ladder as stepCascade leaves it before it looks at the doors: a     *)
(* machine in trade over a flat broker with nothing pending is fiction and *)
(* starts over; one whose holding is gone starts its next cycle.           *)
Ladder ==
  LET desynced == ~Holding /\ row.pending = <<>> /\ row.level > 0
      closed   == ~Holding /\ row.inTrade
  IN  IF desynced \/ closed THEN [level |-> 0, inTrade |-> FALSE]
      ELSE [level |-> row.level, inTrade |-> row.inTrade \/ Holding]

(* The entry the bar may decide: rung 0, the door, over a flat ladder; the *)
(* ladder's next rung over a holding. The level moves with the SIGNAL,     *)
(* filled or not.                                                          *)
EntryChoices ==
  {[orders |-> <<>>, level |-> Ladder.level]}
  \cup {[orders |-> <<LotIds[n + 1]>>, level |-> n + 1] :
           n \in {m \in 0..(Len(LotIds) - 1) : m = Ladder.level /\ (m = 0 <=> ~Holding)}}

ExitChoices == {o \in {<<>>, <<"Exit">>} : o # <<>> => Holding}

(* applyDeathVerdict: a frozen ladder (or a pool too thin to size) keeps   *)
(* its exits and drops its entries; a condemned one keeps only the death   *)
(* exit, and only over a holding.                                          *)
AfterDeath(entry, exit) ==
  {entry \o exit, exit, IF Holding THEN <<"DEATH">> ELSE <<>>}

(* advanceOneBar after the pending orders settled: the decision is written *)
(* down before it is sent. It is sent at once when this is the last bar    *)
(* and a live price is at hand; otherwise the next bar's open fills it.    *)
DecideOn(bar, level, orders) ==
  LET rest == job.bars \ {bar} IN
  /\ IsFirst(bar, job.bars)
  /\ row' = [row EXCEPT !.lastBar = bar, !.pending = orders,
                        !.level = level, !.inTrade = Ladder.inTrade]
  /\ decided' = decided \cup {[bar |-> bar, orders |-> orders]}
  /\ \/ /\ rest = {} /\ orders # <<>>
        /\ pc' = "settle"
        /\ job' = [Idle EXCEPT !.todo = orders, !.key = bar, !.time = bar, !.next = "clear"]
     \/ /\ rest = {}
        /\ pc' = "idle" /\ job' = Idle
     \/ \E open \in rest :
        /\ IsFirst(open, rest)
        /\ pc' = "settle"
        /\ job' = [Idle EXCEPT !.todo = orders, !.key = bar, !.time = open,
                               !.next = "decide", !.bars = rest]

Decide ==
  /\ Settled("decide")
  /\ \E bar \in job.bars, entry \in EntryChoices, exit \in ExitChoices :
     \E orders \in AfterDeath(entry.orders, exit) : DecideOn(bar, entry.level, orders)
  /\ UNCHANGED <<clock, tape, broker, crashes, failures>>
  /\ Persist

(* Sent at the live price: the row is saved again with nothing pending.    *)
ClearPending ==
  /\ Settled("clear")
  /\ row' = [row EXCEPT !.pending = <<>>]
  /\ pc' = "idle" /\ job' = Idle
  /\ UNCHANGED <<clock, tape, broker, crashes, failures, decided>>
  /\ Persist

-----------------------------------------------------------------------------
(* The sweep and the allocator                                             *)

(* holdingBuys: the buys since the holding was last flat.                  *)
CountBuys(h, f) ==
  IF f.side = "buy" THEN [qty |-> h.qty + 1, buys |-> IF h.qty = 0 THEN 1 ELSE h.buys + 1]
  ELSE IF h.qty <= 1 THEN [qty |-> 0, buys |-> 0]
  ELSE [h EXCEPT !.qty = @ - 1]

Holdings == FoldLeft(CountBuys, [qty |-> 0, buys |-> 0], Sorted(tape))

(* The ladder's next step, numbered by the buys of the holding.            *)
NextSteps == {n \in 1..Len(LotIds) : n = Holdings.buys + 1}

(* A step is funded first: a capital that moved rebuilds the broker from   *)
(* the tape.                                                               *)
FundedBrokers == {BrokerFor, [warm |-> TRUE, lots |-> Seed(tape)]}

(* buyStep: a step of the dip-bounce, or the first one on selection, keyed *)
(* by the sweep's clock.                                                   *)
SweepBuy ==
  /\ pc = "idle" /\ row.open /\ row.pending = <<>>
  /\ Len(tape) < MaxFills
  /\ broker' \in FundedBrokers
  /\ pc' = "settle"
  /\ \E n \in NextSteps :
       job' = [Idle EXCEPT !.todo = <<LotIds[n]>>, !.key = clock, !.time = clock,
                           !.next = "bought", !.via = "sweep"]
  /\ UNCHANGED <<clock, row, tape, disk, crashes, failures, decided>>

(* The older ladders (buyOnDrop, buyOnBounce, buyOnDeepRung, the pressure  *)
(* rung) add to a holding only, and key their rung like a sale: by the bar *)
(* the position last decided on.                                           *)
RungBuy ==
  /\ pc = "idle" /\ row.open /\ row.pending = <<>>
  /\ Len(tape) < MaxFills
  /\ broker' \in FundedBrokers
  /\ pc' = "settle"
  /\ \E n \in NextSteps \ {1} :
       job' = [Idle EXCEPT !.todo = <<LotIds[n]>>, !.key = row.lastBar, !.time = clock,
                           !.next = "bought", !.via = "sweep"]
  /\ UNCHANGED <<clock, row, tape, disk, crashes, failures, decided>>

(* The step's row is saved with its new watch: nothing this module keeps.  *)
Bought ==
  /\ Settled("bought")
  /\ pc' = "idle" /\ job' = Idle
  /\ UNCHANGED <<clock, row, tape, disk, broker, crashes, failures, decided>>

(* A closer sells everything the tape says is held, keyed by the bar the   *)
(* position last decided on. The sweep skips a position with an order in   *)
(* flight; the allocator does not.                                         *)
CloserSale(c) ==
  /\ pc = "idle" /\ row.open
  /\ Holdings.qty > 0
  /\ c \in SweepClosers => row.pending = <<>>
  /\ broker' = BrokerFor
  /\ pc' = "settle"
  /\ job' = [Idle EXCEPT !.todo = <<c>>, !.key = row.lastBar, !.time = clock,
                         !.next = c, !.via = "sweep", !.before = Len(tape)]
  /\ UNCHANGED <<clock, row, tape, disk, crashes, failures, decided>>

(* Mutants of Retires: a close that ignores the no-loss guard, and one     *)
(* that never looks at the tape.                                           *)
RetiresAlways(c) == TRUE
RetiresUnlessRefused(c) == ~job.refused

(* Whether closer c retires the slot after its sale.                       *)
Retires(c) ==
  IF c \in CheckedClosers THEN ~job.refused /\ Len(tape) > job.before
  ELSE ~job.refused

Close(c) ==
  /\ Settled(c)
  /\ row' = [row EXCEPT !.open = ~Retires(c)]
  /\ pc' = "idle" /\ job' = Idle
  /\ UNCHANGED <<clock, tape, broker, crashes, failures, decided>>
  /\ Persist

(* A slot whose ledger holds nothing is handed on without a sale.          *)
Release ==
  /\ pc = "idle" /\ row.open
  /\ Holdings.qty = 0
  /\ row' = [row EXCEPT !.open = FALSE]
  /\ UNCHANGED <<clock, tape, broker, pc, job, crashes, failures, decided>>
  /\ Persist

(* The trim or a funded rung moves the capital: the cached broker no       *)
(* longer matches and the next one is rebuilt.                             *)
Recapitalise ==
  /\ pc = "idle" /\ broker.warm
  /\ broker' = [warm |-> FALSE, lots |-> <<>>]
  /\ UNCHANGED <<clock, row, tape, disk, pc, job, crashes, failures, decided>>

-----------------------------------------------------------------------------
(* The world                                                               *)

AdvanceClock ==
  /\ pc = "idle" /\ clock < MaxClock
  /\ clock' = clock + 1
  /\ UNCHANGED <<row, tape, disk, broker, pc, job, crashes, failures, decided>>

(* The publisher runs while the engine awaits something outside itself:    *)
(* between positions, and at the alerts that follow the tick's settles. A  *)
(* close and the sale before it have no such wait between them.            *)
Publish ==
  /\ Storage = "memory"
  /\ pc = "idle" \/ Settled("decide") \/ Settled("clear")
  /\ disk # [row |-> row, tape |-> tape, decided |-> decided]
  /\ disk' = [row |-> row, tape |-> tape, decided |-> decided]
  /\ UNCHANGED <<clock, row, tape, broker, pc, job, crashes, failures, decided>>

(* A database call that throws ends the pass; the process, and the broker  *)
(* cached in it, live on. A write that landed before the error is the same *)
(* failure one step later.                                                 *)
StoreFails ==
  /\ Storage = "postgres" /\ failures < MaxFailures
  /\ pc # "idle"
  /\ failures' = failures + 1
  /\ pc' = "idle" /\ job' = Idle
  /\ UNCHANGED <<clock, row, tape, disk, broker, crashes, decided>>

(* The process dies and another starts from what was durable.              *)
Crash ==
  /\ crashes < MaxCrashes
  /\ crashes' = crashes + 1
  /\ row' = disk.row /\ tape' = disk.tape /\ decided' = disk.decided
  /\ broker' = [warm |-> FALSE, lots |-> <<>>]
  /\ pc' = "idle" /\ job' = Idle
  /\ UNCHANGED <<clock, disk, failures>>

Next ==
  \/ StartTick \/ Decide \/ ClearPending
  \/ SettleSkip \/ SettleRefuse \/ SettleReject \/ Execute \/ Record
  \/ SweepBuy \/ RungBuy \/ Bought
  \/ \E c \in Closers : CloserSale(c) \/ Close(c)
  \/ Release \/ Recapitalise
  \/ AdvanceClock \/ Publish \/ StoreFails \/ Crash

Spec == Init /\ [][Next]_vars

-----------------------------------------------------------------------------
(* Properties                                                              *)

Pcs == {"idle", "settle", "record"}
Nexts == {"idle", "decide", "clear", "bought"} \cup Closers

Rows == [open : BOOLEAN, lastBar : Int, pending : Seq(Orders), level : Nat, inTrade : BOOLEAN]
Decisions == [bar : Int, orders : Seq(Orders)]

IsTape(fills) ==
  /\ fills \in Seq({fills[i] : i \in DOMAIN fills})
  /\ \A i \in DOMAIN fills :
       /\ fills[i].at \in Int /\ fills[i].part \in Orders /\ fills[i].n \in Nat
       /\ fills[i].side \in {"buy", "sell"} /\ fills[i].via \in {"tick", "sweep"}

(* Every variable holds a value of its kind (the lots of the broker and    *)
(* the stamps, which are computed from the tape, aside).                   *)
TypeOK ==
  /\ clock \in Nat /\ crashes \in Nat /\ failures \in Nat
  /\ row \in Rows /\ IsTape(tape) /\ decided \subseteq Decisions
  /\ disk.row \in Rows /\ IsTape(disk.tape) /\ disk.decided \subseteq Decisions
  /\ broker.warm \in BOOLEAN
  /\ pc \in Pcs
  /\ DOMAIN job = DOMAIN Idle
  /\ job.todo \in Seq(Orders) /\ job.key \in Int /\ job.next \in Nexts
  /\ job.via \in {"tick", "sweep"} /\ job.bars \subseteq Nat /\ job.n \in Nat
  /\ pc = "record" => job.part \in Orders

(* "Write before sending": every fill the tick put on the tape belongs to  *)
(* a decision that was written down first, under the bar that decided it   *)
(* -- so recovery, looking a fill up by the pending row's own bar, finds   *)
(* it.                                                                     *)
AnnouncedBeforeFilled ==
  \A i \in DOMAIN tape : tape[i].via = "tick" =>
    \E d \in decided : d.bar = tape[i].at /\ \E k \in DOMAIN d.orders : d.orders[k] = tape[i].part

(* Recovery asks only whether an order's CANONICAL key is on the tape. A   *)
(* suffixed fill without it would make a half-recorded close look as if it *)
(* had never happened, and it would be sold again.                         *)
CanonicalFirst ==
  \A i \in DOMAIN tape : tape[i].n > 0 => HasFill(tape[i].at, tape[i].part)

(* A bar is decided once, whatever dies: no history has two decisions for  *)
(* the same bar, so no ladder is climbed twice on one candle.              *)
DecidedOnce ==
  \A d \in decided, e \in decided : d.bar = e.bar => d = e

(* Between passes the cached broker holds exactly what the tape says is    *)
(* held, until a write of the tape fails: what the engine reads from one   *)
(* is what a restart would read from the other.                            *)
BrokerIsTape ==
  (failures = 0 /\ pc = "idle" /\ broker.warm) => broker.lots = Seed(tape)

(* What is sold was held, until a write of the tape fails: along the tape, *)
(* in its own order, no sale sells an entry that is not open then.         *)
NeverOversold ==
  failures = 0 => \A i \in DOMAIN tape : tape[i].side = "sell" =>
    LET before(side) == {j \in DOMAIN tape : /\ tape[j].side = side /\ tape[j].lot = tape[i].lot
                                             /\ Earlier(tape, j, i)}
    IN  Cardinality(before("sell")) < Cardinality(before("buy"))

(* The closers that look at the tape before they retire the slot leave     *)
(* nothing on it, even across a restart in the middle of an earlier close  *)
(* -- until a write of the tape fails.                                     *)
CheckedCloseIsFlat ==
  [][\A c \in CheckedClosers :
       failures = 0 /\ Close(c) /\ ~row'.open => Seed(tape) = <<>>]_vars

(* A slot that was retired holds nothing: "closing it anyway would retire  *)
(* a slot that still holds tokens -- the quantity orphaned, neither        *)
(* realised nor unrealised" (orchestrator.ts, at the rotation).            *)
NoOrphan == ~row.open => Seed(tape) = <<>>
=============================================================================
