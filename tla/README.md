# Operador, in TLA+

A verification development for the trading engine of this repository: TLA+
modules translated from its source, TLC runs over small instances, and theorems
that TLAPS proves for every value of the constants. Paths below are under
`src/` of the engine unless they start with `dashboard/`. `PROJECT.json` maps
every definition to the lines it stands for.

## 1. The system

The engine buys and sells tokens for a *position* (a slot with its capital).
One process runs a loop of *passes*. A pass scans the market, advances every
position over the candles that closed, lets an allocator close, trim and open
slots, and writes a checkpoint. Between and inside passes a *sweep* looks at
every position's live price, about every thirty seconds. Everything is
asynchronous TypeScript on one thread: other code runs only where a call awaits.

| Component | State it keeps | Operations | Hard because |
|---|---|---|---|
| Order settlement: `application/engine.ts`, `infrastructure/brokers/paper-broker.ts`, `application/recovery.ts`, `application/ledger.ts` | the position row (last bar, pending orders, ladder), the tape of fills, the broker's lots (in memory) | `tickPosition`, `advanceOneBar`, `settle`, `execute`, `seed`, `planRecovery` | a crash between any two writes; two callers with two clocks; a broker rebuilt from the tape |
| Stop sweep: `application/stop-sweep.ts` | watches and marks of each position | crash stop, take-profits, gain lock, stop loss, DCA rungs, dip-bounce steps | what a look remembers outlives the holding it saw; reads a row, awaits prices, acts; shares `settle` with the tick |
| Cycle and allocator: `application/orchestrator.ts` | the snapshots a pass read | tick, rotation, score stop, release, trim, open, checkpoint | saves whole rows it read minutes earlier; several spenders of one capital |
| Phone control: `application/state-sync.ts`, `application/kill-switch.ts`, `dashboard/app/api/control/route.ts` | the control file, the checkpoint's switch, the stamp of the last order applied | `applyControl`, `periodicPublisher` | reads nobody awaits, orders older than the checkpoint, restarts from a published snapshot |
| Main loop: `runtime/loop.ts`, `runtime/main.ts` | the stop signal, the pass | `runLoop`, `onPass`, `flush` | failing passes, the end of a run |
| Configuration and wiring: `application/production-ladder.ts`, `production-doors.ts`, `runtime/config.ts`, `runtime/main.ts` | none after the start | readers, `loadConfig`, `buildRuntime` | two readers of one environment, on two machines |
| Stores: `infrastructure/persistence/*` | positions, fills, checkpoint, blacklist, scans | upsert, delete, insert-once, export, restore, reset | one rule in SQL and again in TypeScript |
| Position merge: `domain/persistence/position-merge.ts`, `domain/risk/gain-lock.ts`, `domain/strategy/deep-rung.ts`, `liquidity-brake.ts` | the ratchets of a row | `mergeSavedPosition`, the `keep*` rules | stale snapshots saved over newer rows |
| Cached store: `application/cached-tape.ts` | the book, the tape and the scans in memory, a generation each | `load*`, `forget*`, every store call | loads, writes and failures at every await |
| Dip-bounce and the older ladders: `domain/strategy/dip-bounce.ts`, `drop-ladder.ts`, `pressure-ladder.ts` | a watch per position | `nextDipBounce`, `watchAfterBuy` | fill and watch are saved separately |
| Cascade: `domain/strategy/cascade.ts`, `application/resync.ts` | the ladder's level, anchors, doors | `stepCascade`, resync | moves on the signal, not on the fill |
| Death watch: `domain/risk/death-exit.ts` | the stage and its confirmations | `assessAssetHealth`, `applyDeathVerdict` | blacklists before it sells |
| Risk lines: `stop-loss.ts`, `crash-stop.ts`, `score-stop.ts`, `gain-lock.ts`, `fixed-tp.ts` | marks and floors | the lines | numeric edges |
| Portfolio, idle slots, rotation: `domain/risk/*` | none | who is held, who is replaced | three callers that must agree on one order |
| Book value and free capital: `application/free-capital.ts`, `book-value.ts` | none, computed from the book | funding of rungs and slots | one pool, many spenders in a pass |
| Scanner: `domain/scanner/*`, `application/scan.ts`, `confirm-entry.ts`, `health-from-scan.ts`, `recall.ts` | the scan in progress, the shelf of the last one | gates, ranking, the paid stage, the door | providers that fail; a gate that fails closed read by the death watch |
| Feeds and HTTP: `infrastructure/adapters/*`, `hedged-get.ts`, `adaptive-throttle.ts`, `application/liquidity-change.ts`, `recent-volatility.ts`, `patient-sell-probe.ts` | readings and when they were taken, a pace per provider | ask, remember, retry | an answer's age after waits and retries |
| Screen: `dashboard/lib/view.ts`, `application/operations-view.ts` | none | draws ladders and targets | its own reading of the environment |
| Alerts, reporting, Android app, replay and parity tools | cursors, files | reads | – |

How they interact: the tick, the sweep and the allocator call one `settle`,
which asks the store whether the order's key is on the tape, the broker to
execute, and the store to record. The broker is never stored: `brokerFor`
(`runtime/main.ts`) seeds it from the fills and caches it until the position's
capital moves. With a database, the store is Postgres behind `cachedTape`; with
none, a `MemoryStore` that `periodicPublisher` exports to a file on a branch
after passes, and that the next process loads. The phone writes one order to
another file; the engine fetches it after each pass and applies it to the store.
The scan hands the allocator its ranking and the death watch its looks; what it
asked the providers is remembered by the feeds. The dashboard reads the same
store and the same environment, and asks the engine nothing.

What makes each right is listed as hazards in `PROJECT.json`, each at its line
with the properties that watch it.

## 2. The modules

### Settlement, and PositionBook above it

One position, from the bar that decides an order to the fill that records it.

* `row`, `tape`, `broker` are the position row, the fills and the cached broker
  of the running process; `disk` is what a restart would find. With
  `Storage = "postgres"` every write reaches `disk` as it returns (`Persist`);
  with `"memory"` only `Publish` does. The database is seen through its cache,
  which section CachedStore shows is the table.
* `pc` and `job` are the process: idle, settling a list of orders, or recording
  the fills of the order just executed, one `recordFill` per step. An order's
  close of n lots is n steps, the first under the canonical key.
* The tick: `StartTick` (which bars to walk, the pending orders of the last
  decision settled first, under the bar that decided them), `Decide` (the
  strategy, the death watch, the row written *before* anything is sent),
  `ClearPending`. Sweep and allocator: `SweepBuy`, `RungBuy`, `CloserSale`,
  `Close`, `Release`, `Recapitalise`. `settle`: `SettleSkip`, `SettleRefuse`
  (the no-loss guard), `SettleReject`, `Execute`, `Record`. The world: `Publish`,
  `StoreFails`, `Crash`, `AdvanceClock`.
* Abstracted: a price condition is a choice; every lot is one unit; the
  broker's cash limit is a nondeterministic rejection. A fill keeps the bar of
  its key, its key part, its suffix, its lot and its stamp.

A close, and the sale before it, have no await on anything outside the process
between them in the memory engine, so the publisher cannot run there:
`Publish` is enabled only between positions and at the alerts after a settle.

`PositionBook` is the abstract record: a slot, the decisions written down, the
fills recorded, what they leave held, and how many faults there have been. It
has no process, no broker and no queue. It promises that a bar is decided once
and after every earlier one, that a fill is recorded once and after the ones
before it in its order, that nothing but what is held is sold as long as no
write was lost, and that a slot is retired once, and empty as long as nothing
has gone wrong. `MCSettlement` gives the mapping (`Book == INSTANCE PositionBook
WITH ...`): a step of the engine that records nothing is a stutter of the record,
and every other step one of its own.

### ControlSync

The memory engine, the state file and the control file. `store` is the running
process's memory, `saved` the published file, `file` the phone's order. `reads`
are the control reads in flight, one slot each, because `onPass` does not await
them; `publisher` is the closure of `periodicPublisher`. `engine` is the loop
and the pass it is in, with what the pass read at its start: the switch and the
book. The history fields (`last`, `wiped`, an order's `down`, a position's `era`,
`engine.first`) exist for the properties only. A publication's content holds its
own instant, so "publish only what changed" never skips one. The sweeps between
passes are left out: they touch the book as `Tick` and `ClosePosition` do.

### PositionMerge

`mergeSavedPosition` and the `ON CONFLICT DO UPDATE` of
`PostgresStore.savePosition`, translated separately and run on the same writes:
`kept` is the TypeScript copy and `columns` the row, NULL by NULL. Identity
columns are left out (an id never changes them), and so is all of a watch but
its time, and of a low but its price and holding.

### CachedStore

`cached-tape.ts` with a step at every await. A load is an element of `loads`, a
map a reader may still hold when the load is no longer the memory. `Keep`, the
rule by which a row is kept over another, is a parameter with three assumptions
(saving again changes nothing): PositionMerge proves them of the book's rule
(`SavingAgainKeeps`), and `TapeAndScansKeep` of `FirstWins`, the tape's, and of
`NewestWins`, the rule of the last scan of each chain. That last is one rule on
both sides only because two scans never share an instant: the table's key is
`scanned_at` alone (`schema.sql:101`) and keeps the first of two, of whatever
chain, where the memory takes the second. The chains are scanned one after
another, each over the network, so the model gives every scan its own instant.

### DipBounce

One position under the dip-bounce ladder, the one production runs. `stored` is
the row's watch, `buys` the buys of the holding (what `holdingBuys` reads off the
tape), `newest` the stamp of the newest fill. `Look` is `buyOnDipBounce` down to
the write of the watch, with `NextDipBounce` translated branch by branch; `Fill`
and `SaveWatch` are the two writes of `buyStep`, a crash between them possible;
`Refuse` is a step that bought nothing (pool, capital, rejection); `Select` the
step bought on opening a slot; `Sell` any exit. `ReadRow` and `WriteRow` are any
other step of the cycle saving back the row it read. `looks` is history. Prices
are integers, so the rounding room of the lines is none; a ceiling and a dip
never change during a run (the policy is read once, at start). The guards of the
sweep (healthy, a close on record) are choices: a look may be taken or not.

### DeathWatch and Cycle

`DeathWatch` is `death-exit.ts` as operators: a look's signals, the freeze and
exit evidence, the confirmations that lead from healthy to frozen to dead and
back, and what the verdict does to an order.

`Cycle` is the book over whole passes: several tokens, each with several
incarnations, since a re-entry is a new row. `book` is the store, `current` the
copies a pass works on, refreshed only where `refreshFromStore` is called. The
actions are the stretches between awaits of `runCycle`, in its order: the plan,
the sweep at the start, the ticks (with `DeathWatch`'s verdict on the look of
each), the scan with sweeps between its steps, score stop, rotation, release,
trim, openings, their first ticks and first buys, the checkpoint; then sleep, and
the loop's sweeps. `SweepThrows`, `TickThrows`, `PassFails` and `Crash` are an
exception or a death at any of them. What a price does is a choice; money is in
integer units and every buy costs a fee, so that the common fund can fall. `lost`
and `closed` are history.

### Gates, Ranking, Allocation, and Rules over them

Operators, read by several callers. `Gates`: the free and the paid gates, the
reserve's forgiveness, the merged security reports, the last look before a buy,
what the scan tells the death watch of a held token. `Ranking`: the score, the
switch, the one order tokens are served in, the cut, the recalled shelf.
`Allocation`: costs of a fill and of a trip, the score stop, rotation, release,
the plan by equal slots or by size, and `Allocate`, which puts them in the order
of one pass. In whole numbers: tenths, basis points and cents for the code's
floating point.

`Rules` puts questions to them, one a step (a token with its reports at the
door, or a whole pass over tokens and a book), and its properties compare what the callers
make of the answer.

### Scan

`scanOnce` over one chain: universe and cap, intake through the free gates and
the door, the paid stage in batches as far as the slots need, pages of the
registry, the cut, and the candles of what survived. Every provider may fail or
come back short. A token's market is a *look* (what each stage would say of it);
the gates behind it are `Gates`, its rank is its number. A source may price a token
nobody asked about (a pair's base token, on BSC); it goes on like the others, past
the cap. Such a token is not priced again by a page of the registry, which lists
Solana's: `readOnlyRegistry` is over `solana_cache`, and Jupiter answers a Solana
scan by mint. It is the scan of BSC; Solana's
asks for no candles.

### Sweep, Production and Screen

`Sweep` is one position through looks at its price: the exits in the code's
order, the memories kept on the row (gain lock, low, liquidity watch, scale) and
in the process (crash marks, pressure), then at most one buy among the ladders. `Tick`
is the candle tick as far as the sweep can tell, and may sell a holding and leave
its row to the next; `Restart` forgets the process. Settlement has how an order
is settled, PositionMerge what merges on a save, DipBounce whether a dip-bounce
step fires: here that is an answer of the look.

`Production` reads an environment into the ladder, the doors and the
configuration, says which environments are refused, and wires the rules of the
sweep, the gates and the pass as `buildRuntime` does. The rules the sweep and
pass questions of the run are drawn from are `Production`'s, of environments it accepts.
`Screen` draws the same position from the same environment by the dashboard's own
arithmetic.

### Feeds

The memories in front of the providers, the throttle, the hedged request and the
patient probe, over time that passes while a request waits. A reading keeps the
instant it tells of, which the code does not, so that its age can be judged.

### How they compose

`MCRules` runs `Scan`, `Rules`, `Sweep` with `Screen`, and `Feeds` in one run. The
four share no state: a behaviour is one of them, from its own initial states,
and the others stay as they were. It is one run because each part answers the
same kind of question, not because they interact.

Settlement reads one durable store because CachedStore shows memory and table
agree; CachedStore's `Keep` is one rule on both sides because PositionMerge shows
that; DipBounce's row keeps the newer watch, which is PositionMerge's rule for
`dipWatch`; ControlSync's rows are saved whole because a reset leaves nothing to
merge with; Cycle's sale is one step because Settlement shows a checked close is
flat; Cycle's choices of who is released and opened are Allocation's rule, and
its scan's answers Scan's.

## 3. The runs

| Run | Checks | Bounds, and why they are enough |
|---|---|---|
| `memory` (MCSettlement) | `NoOrphan` with published snapshots | two entries, 3 instants, 4 fills, one crash: a buy, its average, a close of both and a second holding, or a crash at every point of one, with the snapshot of any earlier moment |
| `postgres` (MCSettlement) | type, `AnnouncedBeforeFilled`, `CanonicalFirst`, `DecidedOnce`, `BrokerIsTape`, `NeverOversold`, `CheckedCloseIsFlat` and the refinement `ImplementsTheBook` with durable writes | the same with 3 fills, a catch-up of 2 bars, a crash and a failed write; one closer that compares the tape before and after, and two that do not, one of which may sell at a loss |
| `control` (ControlSync) | `ComesBackStopped`, `FlushKeepsTheBook`, `ResetWipesOnce` | two reads at once is the least that can answer out of order; one order, 3 instants: before, during and after a pass; stops and restarts are free. No failure: `ComesBackStopped` is false with one, because the boot's read swallows it |
| `live` (ControlSync) | `EveryOrderIsRead` | two orders, one read at a time, one failure, one crash |
| `stale` (ControlSync) | refutes `OrderTakesEffect` | a kill and two passes |
| `saves` (MCPositionMerge) | `StoresAgree`, `NothingIsLoosened`, type | two values and two times, so older, equal and newer all occur; each pair of columns is written whole, half and not at all |
| `book` (MCCachedStore) | `MemoryIsTheDatabase`, `AnswersAreCurrent`, `ReadOncePerFailure`, type | two rows, two readers, two writes, one failure: a load, a second load after a failure, and a write in each |
| `ladder` (MCDipBounce) | `NextBuyUnderLast`, `DippedAndBounced` | six looks, the least for a step on selection and two DCAs with a crash among them; six prices, so each line of each step is met, missed, gapped through and undone, two of them closer than a write is worth; a cost that puts what was paid over the live price |
| `pass` (MCCycle) | `SoldStaysSold`, `OneRowPerToken`, `CondemnedNeverBuys`, `NeverSpentTwice` | two symmetric tokens with two incarnations each, three passes (a freeze, a death and the plan after it), two buys, one throw, one crash, one flip of the switch; capital for three slots, so that a step's shortfall and a slot compete for the third |
| `killbuys`, `deathexit` (MCCycle) | refute `KillStopsBuying` and `DeathExitGoesOut` | the same without faults |
| `rules` (MCRules), scan | `OnlyVouchedFor`, `PaidForNeed`, `NobodyLeftOut` | one token held and three strangers for a universe of three; one slot, two checks, one candle, one page: every budget is met and left over |
| `rules`, questions | `CheapRefusalIsFinal`, `SilenceIsNotEvidence`, `EnteredIsHealthy`, `NeverRebought`, `CutAgreesWithPlan`, `PlanFitsTheCapital` | a good token with up to two of 27 facts changed, under each of four gate policies; two reports differing in one fact; three tokens of four kinds under two rows of six kinds, under four policies |
| `rules`, sweep and screen | `SeenInThisHolding`, `FloorIsKept`, `DrawnBeforeItIsDone` | five configurations, which between them switch every rule on, the default one among them; four looks, one restart, five fills: a first buy, a rung, a sale and a second holding |
| `rules`, feeds | `ReadingsAreCurrent`, `PatientToTheEnd` | two tokens, three questions, four instants, a minute of two and a candle of three: an answer can arrive when its reading has just become old |

Bounds are guards of the modules and named in each cfg: `MaxClock`, `MaxFills`,
`MaxOrders`, `MaxReads`, `MaxOpens`, `MaxWrites`, `MaxSteps`, `MaxCrashes`,
`MaxFailures`, `MaxPasses`, `MaxBuys`, `MaxThrows`, `MaxKills`, `MaxSweeps`,
`MaxRestarts`, `MaxInstant`, `MaxAsks`. Every property of a passing run has in
`PROJECT.json` a mutant of a mapped definition that breaks it.

`CHECK_DEADLOCK FALSE` is set for Settlement, Cycle and Rules: a retired slot
with the clock at its bound, a book with its passes spent, and a question that
was answered have nothing left to do. Every other module is checked for deadlock.

### What the refuting runs show

* **`stale`.** A kill given just before a pass is fetched after it, found older
  than the pass's checkpoint and dropped as applied. The same property also
  fails when a kill applied *during* a pass is overwritten by the switch in the
  pass's checkpoint.
* **`killbuys`.** The sweep keeps running under the kill switch so that stops
  hold; since the ladders live in it, it buys too. With the switch on when the
  pass began, the sweep at its start buys a step.
* **`deathexit`.** A death decided without a new bar is blacklisted and its exit
  left to "the first bar that does arrive". The plan of the next pass skips a
  blacklisted token, so no bar arrives: the holding stays until a sweep's line
  happens to sell it.

### Met on the way

Observations about the code that no run checks, or that a run's property excepts.

Settlement and control:
* A close of several entries is several writes; the first carries the order's
  canonical key. On Postgres, after a crash between them, a closer that does not
  compare the tape before and after (rotation, score stop) finds its key on the
  tape: nothing to sell, nothing refused, and the row is deleted over an entry
  still held. `CheckedCloseIsFlat` is the passing half, and `NoOrphan` holds
  where the state is a published snapshot.
* The broker executes before the fill is recorded; when `recordFill` throws, the
  cached broker keeps what no fill accounts for. `BrokerIsTape`, `NeverOversold`
  and `CheckedCloseIsFlat` hold until a write of the tape fails, and say so.
* A reset answered in the middle of a pass is undone by the pass's next save of
  a row it had read; two publications can be in flight while the flush runs,
  though `periodicPublisher` says never two at once.
* `application/retire.ts` deletes the row behind a running engine, whose cached
  book keeps loading and sweeping the retired position (`cached-tape.ts:58-63`).
* In DipBounce, after a crash between a *first* buy and its watch, a sale before
  the next look leaves the watch of before that buy to the next holding.
  `DippedAndBounced` judges a first buy only where no process died.

Cycle and allocator:
* A sweep that throws during the scan loses the ids it had closed, and a later
  save of the pass's copies brings their rows back (`orchestrator.ts:679-683`),
  though line 600 says that nothing downstream re-ticks what the stop sold. No
  property covers that case: the rows are `lost` in Cycle, and `SoldStaysSold`,
  `OneRowPerToken` and `NeverSpentTwice` except them.
* A row skipped by the plan makes its capital count as free.
* `releasableSlots` judges every holder against only the best waiting token, and
  its final slice can cut terminal slots. The score stop acts on a neutral cost
  efficiency where the pool could not be measured (`opportunity.ts:471-476`).
* With `TIERS`, slots are counted by the fixed size and dealt by tier; order
  "size" is not known to `planPortfolio` (`main.ts` wires it as the score); and the
  reserve is "behind every token that qualified" in the ranking (`ranking.ts:241-242`)
  and not in the plan. `CutAgreesWithPlan` excepts the three.
* `ranking.ts:30-37` promises what the score cut undoes.
* Entry doors are asked after the cut, so a cut slot may stay empty.

Sweep:
* With the pressure ladder and the dip-bounce both on, one look may buy a rung and
  then a step, off the same read of the fills (`stop-sweep.ts:817`, against the
  comment at 1552-1557). Off unless `OPERADOR_PRESSURE` asks for it.
* The stop derived from a ratio drops `minBuys` and `onlyWhenHistoryCovers`
  (`stop-sweep.ts:221`, `stop-loss.ts:122-140`); `breakEvenArmed` is kept per row
  and not per holding; a drop rung measured from the first buy may buy over the
  average after a bounce rung.

Settings and screen:
* `MAX_DCA=0` and garbage refuse the start in `config.ts` where
  `productionLadder` accepts the one and falls back on the other; a blank `MODE`
  or `TIMEFRAME` refuses it too. The five default sizes are kept when the drops
  have another length (`production-ladder.ts:852`), and the ladder ends at the shorter.
* `production-doors.ts:104-109` says the entry floors are off; they are on unless
  the setting says no.
* `view.ts` says the deep rung is drawn when it is switched back on;
  `buildView` always passes the dip-bounce, so it is never drawn. The dip steps
  drawn ignore what the venue holds, those bought beside Ladder A are not drawn,
  a drawn lock ignores the liquidity brake, and the screen keeps a real-time
  spacing up to a quarter of an hour after the sweep fell back: hence
  `SpacingIsCurrent`.

Scan and feeds:
* Production's Solana scan has no candles; the paid stage stops at the wanted
  number before the candle gates, so those may leave a slot empty. The agreement
  of the door and the watch on unlocked liquidity rests on the two policies the
  engine ships. `maxBarAge` is infinite in production where `confirm-entry.ts` speaks of an hour.
* A refused refresh still serves a price up to a minute old
  (`jupiter-tokens.ts:231-242`). `hedged-get.ts` says a request past its limit is
  started again; it waits for the whole slow answer, discards it and asks again,
  and a provider that becomes a quarter slower for good is refused for the life
  of the process.

## 4. Fairness

Only `ControlSync!FairSpec` states fairness, weak, of: the boot (a scheduler
restarts the process), the pass's start and end (the loop has no other exit and
a pass's calls have timeouts), the answer to each control read and to each
publication (HTTP requests time out), the flush and the exit. Nothing is assumed
of the phone, of failures or of crashes; those are bounded in number, so the
liveness is "once failures stop". `EveryOrderIsRead` says the phone's order is
applied-or-skipped or replaced; that it takes *effect* is what `stale` refutes.
The other modules state safety only: that a price comes back, or that a provider
answers, is nothing the code can promise.

## 5. The proofs

The proof modules extend their component, and TLAPS checks them. The shape is
the same throughout: an inductive invariant, `Init => Inv`, one step per action
(and under it one per conjunct the action can disturb), `Inv => property`; TLC
checked each invariant on the run's instance before it was proved.

| Module | Theorems of the properties that runs check |
|---|---|
| Settlement_proofs | `TypeOK`, `AnnouncedBeforeFilled`, `CanonicalFirst`, `DecidedOnce`, `BrokerIsTape`, `NeverOversold`, `CheckedCloseIsFlat`, `NoOrphan`, the refinement `ImplementsTheBook` |
| Cycle_proofs | `SoldStaysSold`, `OneRowPerToken`, `CondemnedNeverBuys`, `NeverSpentTwice` |
| ControlSync_proofs | `ResetWipesOnce`, `ComesBackStopped`, `FlushKeepsTheBook` |
| CachedStore_proofs | `TypeOK`, `MemoryIsTheDatabase`, `AnswersAreCurrent`, `ReadOncePerFailure` |
| PositionMerge_proofs | `TypeOK`, `StoresAgree`, `NothingIsLoosened` |
| DipBounce_proofs | `NextBuyUnderLast`, `DippedAndBounced` |
| Providers_proofs | `OnlyVouchedFor`, `NobodyLeftOut`, `PaidForNeed`; `ReadingsAreCurrent`, `PatientToTheEnd` |
| Rules_proofs | `CheapRefusalIsFinal`, `SilenceIsNotEvidence`, `EnteredIsHealthy`; `NeverRebought`, `PlanFitsTheCapital`, `CutAgreesWithPlan` |

**Settlement**, for any ladder, closers, cap and bounds.

* *What was decided.* `IInv` is type correctness, an invariant of the *store*
  stated once and demanded of the running store and of the disk (a crash
  replaces one by the other), and one of the job in hand: what is still to be
  settled by the tick is a suffix of an announced decision under the job's key,
  and a close that is at suffix n > 0 has its canonical fill on the tape.
  `DecidedOnce` needs that every decided bar is at most the row's last.
* *What is held.* The broker is rebuilt by a fold over the tape *sorted by
  time*. `Flow` says the tape is already in that order, as its recorder is one
  process whose clock does not go back, so that sorting is the identity on it;
  that what is in hand is newer than what is on the tape and has a number no fill
  has; and that with no row open there is nothing to hold. It survives crashes and failed writes.
  On a tape in order one more fill extends the fold by one step (`SeedAppend`,
  `CountAppend`), and `LotsInv` follows: until a write of the tape fails, the
  broker's lots are the fold of the tape, the count the sweep reads off it is
  their number, and between an execution and its recording the two differ by
  exactly the fill in hand. `BrokerIsTape` and `NeverOversold` are that;
  `CheckedCloseIsFlat` also needs that a closer's job is one sale (`CloseInv`).
* *Who is retired.* `NoOrphan` is proved twice, as it is true twice: of published
  snapshots under every crash (`NoOrphanInMemory`: a snapshot is never taken in
  the middle of a close), and of durable writes until a process dies or a write fails
  (`NoOrphanUntilItDies`). The case left out is the divergence described
  under "Met on the way", and is the code's.
* *The record.* `TheBookIsKept`: over the durable store the specification
  implies `PositionBook`'s. One lemma per action of the record (`BookDecides`,
  `BookFills`, `BookRetires`, `BookGoesWrong`, `BookStutters`), and each action
  of the engine is shown to be one of those.

**Cycle**, for any tokens, incarnations, capital, faults and legacy books.

* `SoldStaysSold`: a copy of a deleted row may still be in the pass; `SoldInv`
  says each is among the ids the pass knows to be gone or those the sweep in
  progress will hand it when it ends.
* `OneRowPerToken`: `SlotInv` says every row of the store is one the pass recovered,
  opened, or was told to keep away from; so an opening is for a token with no row.
* `CondemnedNeverBuys`: `BlacklistInv` (in a pass the blacklist is what the plan
  was told plus tokens of its own rows) and `WatchInv` (the row of a condemned
  token is not healthy, in the store or in any copy that may be saved
  over it; a watch condemns on a second look at the earliest, when its row is
  already frozen and saved).
* `NeverSpentTwice`: `MoneyInv` says that from the end of the scan to the trim
  the copies carry the store's capital, and that the slots still to be opened
  fit in what is not promised. The total is a fold over the rows, read through the sums of
  its subsets (`SumsExist`).

**ControlSync**, for any number of orders, reads in flight and crashes.

* `ResetWipesOnce`: a reset wipes only when its stamp is above `appliedAt`, and a
  position carries the stamp applied when it was opened; `StampInv` says no
  position of the running or published book, or of content in flight, is from
  beyond its store's own stamp.
* `ComesBackStopped` and `FlushKeepsTheBook`, *while nothing has failed*
  (`failures = 0`, as the run has it): `StoppedInv` says what every copy of the
  store the engine can come back from makes of a kill given while it was down (it
  obeys it, or is older and the boot applies it) and that every pass it runs is
  started with the switch engaged; `FlushInv` that from the flush
  on every copy in flight has the store's book or is behind an order the file still
  has. With a failure the first is false: the boot's read swallows it.

**CachedStore**, for any ids, rows, readers, failures and any `Keep` of the three
assumptions, which `SavingAgainKeeps` proves of the book's rule and
`TapeAndScansKeep` of the tape's and the scans'.

* `MemoryIsTheDatabase`: a copy of the table, in memory or read by the load in
  flight, lags it only in a row whose write is executed and not yet folded, and
  by exactly that write; a call that waits for an earlier load was executed
  before the present one began.
* `AnswersAreCurrent`: for each row, a copy is the table of now or as the last
  returned write left it, and both are values the waiting readers may see.
  `ReadOncePerFailure`: every load but the one the engine now has was paid for
  by a failure.

**PositionMerge**, for any integers: `TypeOK /\ StoresAgree` is inductive: that
the pairs of columns are whole is what makes the two agree. The lemmas state
each keep rule against its column.

**DipBounce**, for any policy, prices, costs over the price and number of
crashes. A watch that counts for the holding has a reference no higher than what
the last buy paid; `IInv` adds what keeps a watch that missed the last buy from
counting: stamps. No watch is newer than the sweep that wrote it, a step that
fires leaves its watch as it was (a bounce is a rise: `BounceRises`), and a
fill is stamped by its sweep. Assumed of the policy: dip and bounce are
positive, as `productionLadder` makes them.
`DippedAndBounced` speaks of the whole history of looks. `LooksInv` says that a
watch that counts *tells the truth* of the prices seen since the newest fill
(`Tells`): its reference is what the last buy left it or the high of the prices
seen since, but for moves too small to be written, and the low it follows is the low
of a dip that nothing undid; that no copy of a watch is newer than the row's; and
that a fill is newer than the watch it replaces. A look keeps that whether its
watch was written or not, which is one lemma per branch of `NextDipBounce`.

**Scan and Feeds**, under their own specifications (`ScanSpec`, `FeedsSpec`):
the run explores the four parts side by side, each from its own initial
states, and a behaviour of the run that is of one part is a behaviour of that
part's specification.

* `OnlyVouchedFor` and `NobodyLeftOut` need `ScanInv`: what waits, what is
  remembered and what is shown unchecked stay apart, and the paid stage ended
  for a reason. `PaidForNeed` (an action property) and the fit of the result
  rest on `ServedInOrder`: of a set served in a strict order, those with fewer
  than n before them are at most n.
* `ReadingsAreCurrent`: a reading was taken after the instant it is stamped with,
  and what a call did not ask for was fresh when it went out. `PatientToTheEnd`:
  the wait so far is the sum of the pauses so far, and stays within the budget.

**Rules**, under `RulesSpec`, for any tokens and any policies a configuration makes.

* `CheapRefusalIsFinal` and `SilenceIsNotEvidence` rest on one order:
  `KnowsLess(t, s)`, each fact of t being that of s or silence. `FailsOnLess`
  proves, gate by gate, that what fails on the lesser snapshot fails on the other.
* `EnteredIsHealthy` compares the door's gates with the signals of the death
  watch: each signal that could move a stage is refused at the door.
* `NeverRebought` and `PlanFitsTheCapital`: whatever is ranked is `Usable` (no
  token twice, none both a candidate and switched off), the order tokens are dealt
  in is one order over them (`DealtInOneOrder`), and the plan is a fold whose
  every step keeps it within slots and dollars and serves one more (`DealFits`).
  A rotated token was switched off, so it is no candidate.
* `CutAgreesWithPlan`: the cut, less what is held, is the `First` k in the order the
  plan deals in (`CutIsFirst`); the first are served among themselves as they are
  among all (`FirstInOrder`); where each slot has the one size the plan is the first
  so many of the order (`PlansTheFirst`); and the capital pays for no more than
  were kept (`PlanPolicyFacts`).

Assumptions, each evaluated by TLC on the instances. Most say that a bound is a
natural number and a set finite; the others are the code's:

* `SettlementAssumption`: entries and sales have different order ids (`Entry`
  and `DCA-n` against the exits', `cascade.ts:116,190`).
* `RulesAssumption`: a policy forgives at most the gates that `gates.ts:233` and
  `gates.ts:490`, the only places `ignoredGates` is set, let it forgive.
* `PassAssumption`: a scan meets a token once, a row has an id of its own, what is
  measured is a number; target and least of the plan are the slot, which is what
  the pass makes of a set `slotUsd` (`orchestrator.ts:1324,1331`).
* `DipBounceAssumption`: dip and bounce positive, a price paid not under the live
  one, and no low where no dip was seen (null is no price and no watch).
* `CachedStoreAssumption`: the laws of `Keep`, proved of the three rules.
* `ScanAssumption`: the tokens met are finitely many; `FeedsAssumption`,
  `ControlSyncAssumption`, `PositionMergeAssumption`, `CycleAssumption`: ranges;
  `DeathWatchAssumption` and `SweepAssumption`, of modules that are only checked.

`TypeOK` of DipBounce, ControlSync and Cycle is proved and not a property of a run.

Two ways round what the prover does not have. There is no induction over data,
so nothing is proved by induction on a tape or a book: where a fold is met, a
function of its partial results is shown to exist (a counterexample of least
size, by `WFMin` on the naturals, has a smaller one), and the fold is read
through it. And `SetToSortSeq` of the community modules is opaque to the provers:
Settlement's `Sorted` and Allocation's `ServingOrder` put a fill, or a token, at the
place of its rank instead; on a tape in order that is where the fill already is.

Only model-checked:

* `EveryOrderIsRead`, liveness under fairness; and the properties that the
  refuting runs refute.
* `FloorIsKept`, `SeenInThisHolding`, `DrawnBeforeItIsDone` (`rules`, sweep and
  screen): not attempted yet.

## 6. Not modelled, and the plan

Not modelled, because there is no state to explore or nothing the engine trades
on: floating-point series (indicators, the components of the score, the scale of
a volatility), pinned by golden tests and inputs here; the parsing in adapters;
alerts; reports; the screen's layout; the Android app; replay and parity tools; the
deadline of a run. The cascade's triggers and doors are choices of Settlement,
and its one-shot resync, of use only while the doors are open, is left out: it
re-anchors the ladder at the first buy of the whole tape and not of the holding.
A manual retire is a second writer beside the engine; the models assume it does
not run. A statement whose reply was lost is assumed to have landed or never to.
Sweep and the tick interleave at whole looks in `Sweep`, between awaits in
Settlement and Cycle; Cycle has no candle catch-up, which is Settlement's.

Left to prove, most important first.

1. `FloorIsKept` and `SeenInThisHolding` of Sweep: what a row or the process
   remembers is of the holding it is used for. One step of one position: each
   exit and each ladder is a case.
