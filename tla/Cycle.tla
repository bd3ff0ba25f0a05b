------------------------------- MODULE Cycle -------------------------------
(***************************************************************************)
(* The book over whole passes: application/orchestrator.ts (runCycle),     *)
(* stop-sweep.ts, recovery.ts, free-capital.ts and runtime/loop.ts.        *)
(*                                                                         *)
(* A position is <<token, n>>, its n-th incarnation.  `book` is the store: *)
(* the rows that exist.  A pass plans over the rows it recovered, and from *)
(* then on works on `current`, its own copies, which it reads again only   *)
(* where refreshFromStore is called.  One process, so another step runs    *)
(* only where this code awaits: the actions are the stretches in between.  *)
(* Money is in integer units: a step costs Step to buy and Fee to execute. *)
(***************************************************************************)
EXTENDS DeathWatch, Functions, FiniteSetsExt

CONSTANTS
  Tokens, MaxOpens,           \* tokens, and positions opened for each
  Looks,                      \* the health looks a monitor may bring
  TotalCapital, Slot, Step, Fee, MaxSteps,
  Gains,                      \* what a sale may realise
  ExitOnFreeze, BlacklistOnFreeze,
  MaxPasses, MaxBuys, MaxThrows, MaxCrashes, MaxKills   \* bounds of the runs

VARIABLES
  book,       \* id -> row, the store's positions
  held,       \* id -> steps held, what the fills of the tape add up to
  blacklist,  \* tokens never bought again
  fund,       \* the common fund: what every fill ever recorded has made
  kill,       \* the kill switch in the checkpoint
  pc,         \* where the process is
  current,    \* id -> row, the copies of the rows the pass recovered
  pass,       \* the rest of what the pass knows
  sweep,      \* the sweep in progress
  count,      \* the bounded counters
  closed,     \* history: ids whose row was deleted
  lost        \* history: those whose sweep threw before it could say so

vars == <<book, held, blacklist, fund, kill, pc, current, pass, sweep, count, closed, lost>>
history == <<count, closed, lost>>

ASSUME CycleAssumption ==
  /\ MaxOpens \in Nat \ {0}
  /\ {MaxSteps, TotalCapital, Slot, Step, Fee} \subseteq Nat /\ Gains \subseteq Int
  /\ {ExitOnFreeze, BlacklistOnFreeze} \subseteq BOOLEAN
  /\ {MaxPasses, MaxBuys, MaxThrows, MaxCrashes, MaxKills} \subseteq Nat
  /\ ExitConfirmations > 1

Ids == Tokens \X (1..MaxOpens)
TokenOf(id) == id[1]
TokensOf(ids) == {TokenOf(id) : id \in ids}
Cost == Step + Fee

\* cap is the capital allocated, scored whether the row has the score it was
\* bought at.
Rows == [cap : Nat, watch : Watches, scored : BOOLEAN]

\* kill and banned as recovery read them; stopped, rotated and released the ids
\* the pass sold or let go; room how many slots it may still open.
NoPass  == [kill |-> FALSE, banned |-> {}, stopped |-> {}, rotated |-> {}, released |-> {},
            todo |-> {}, room |-> 0]
NoSweep == [from |-> "asleep", todo |-> {}, done |-> {}]

\* savePosition upserts the whole row; the first score it was given stays.
Save(id, row) ==
  [i \in DOMAIN book \cup {id} |->
     IF i # id THEN book[i]
     ELSE [row EXCEPT !.scored = @ \/ (id \in DOMAIN book /\ book[id].scored)]]
Drop(id) == Restrict(book, DOMAIN book \ {id})

Deployed(id)    == held[id] * Step
Cash(id)        == book[id].cap - held[id] * Cost
Committed(rows) == MapThenSumSet(LAMBDA i : rows[i].cap, DOMAIN rows)
Positive(n)     == IF n > 0 THEN n ELSE 0

\* bookCapital: the configured capital and the common fund, less what the rows
\* given were allocated.  Never a debt.
FreeUsd(rows) == Positive(TotalCapital + fund - Committed(rows))
FreeSlots(free) == IF Slot > 0 THEN free \div Slot ELSE 0

\* commonFund: what the fills realised, less what they cost, so far and with this one.
CommonFund(made) == fund + made

Bump(what) == [count EXCEPT ![what] = @ + 1]

\* A legacy row was opened before rows kept their score.
LegacyBooks == {[i \in ids |-> [cap |-> Slot, watch |-> StartDeathWatch, scored |-> FALSE]] :
                  ids \in {{}} \cup {{<<t, 1>>} : t \in Tokens}}

Init ==
  /\ book \in LegacyBooks /\ held = [i \in Ids |-> 0] /\ blacklist = {} /\ fund = 0 /\ kill = FALSE
  /\ pc = "boot" /\ current = << >> /\ pass = NoPass /\ sweep = NoSweep
  /\ count = [passes |-> 0, buys |-> 0, throws |-> 0, crashes |-> 0, kills |-> 0]
  /\ closed = {} /\ lost = {}

-----------------------------------------------------------------------------
(* Buying and selling, whoever asks.                                       *)

\* buyStep: a step whose cash is short asks the free capital for the shortfall,
\* over the store's row; null, and nothing is bought, when it is not there.
Shortfall(id) == Positive(Cost - Cash(id))
BuyStep(id) ==
  /\ id \in DOMAIN book /\ book[id].watch.stage = "healthy" /\ held[id] < MaxSteps
  /\ count.buys < MaxBuys
  /\ Shortfall(id) = 0 \/ FreeUsd(book) >= Shortfall(id)
  /\ book' = Save(id, [book[id] EXCEPT !.cap = @ + Shortfall(id)])
  /\ held' = [held EXCEPT ![id] = @ + 1]
  /\ fund' = CommonFund(-Fee)
  /\ count' = Bump("buys")

\* settle of a close: everything held is sold.
SellAll(id) ==
  /\ held[id] > 0
  /\ held' = [held EXCEPT ![id] = 0]
  /\ \E gain \in Gains : fund' = CommonFund(gain)

ClosePosition(id) ==
  /\ book' = Drop(id)
  /\ closed' = closed \cup {id}

-----------------------------------------------------------------------------
(* The sweep: sweepStops, called by the pass at its start, by the scan     *)
(* between its steps, and by the loop while it sleeps.                     *)

BeginSweep(from, ids) ==
  /\ pc' = "sweep" /\ sweep' = [from |-> from, todo |-> ids, done |-> {}]

\* Any of the sweep's lines sells the whole holding and closes the row.  The
\* lines differ in what they read off the price, which is a choice here.
SweepSale(id) ==
  /\ pc = "sweep" /\ id \in sweep.todo \cap DOMAIN book
  /\ SellAll(id) /\ ClosePosition(id)
  /\ sweep' = [sweep EXCEPT !.todo = @ \ {id}, !.done = @ \cup {id}]
  /\ UNCHANGED <<blacklist, kill, pc, current, pass, count, lost>>

SweepBuy(id) ==
  /\ pc = "sweep" /\ id \in sweep.todo
  /\ BuyStep(id)
  /\ sweep' = [sweep EXCEPT !.todo = @ \ {id}]
  /\ UNCHANGED <<blacklist, kill, pc, current, pass, closed, lost>>

\* refreshFromStore: the pass's copies of the rows still in the store.
Refreshed(rows) == [i \in DOMAIN rows |-> IF i \in DOMAIN book THEN book[i] ELSE rows[i]]

Unstopped(ids, p) == ids \ p.stopped

\* The sweep returns the ids it closed.  What it is called for decides what the
\* pass does next; the sweep at the start is followed by a refresh.
EndSweep ==
  /\ pc = "sweep"
  /\ LET p == [pass EXCEPT !.stopped = @ \cup sweep.done] IN
     /\ pass' = IF sweep.from = "pass" THEN [p EXCEPT !.todo = Unstopped(DOMAIN current, p)] ELSE
                IF sweep.from = "scan" THEN p ELSE pass
     /\ pc' = IF sweep.from = "pass" THEN "tick" ELSE sweep.from
     /\ current' = IF sweep.from = "pass" THEN Refreshed(current) ELSE current
  /\ sweep' = NoSweep
  /\ UNCHANGED <<book, held, blacklist, fund, kill, history>>

\* An await of the sweep throws.  The ids it had closed go with the exception:
\* the scan and the loop swallow it, a pass at its start fails.
SweepThrows ==
  /\ pc = "sweep" /\ count.throws < MaxThrows /\ count' = Bump("throws")
  /\ \/ UNCHANGED <<held, fund>>
     \/ \E id \in sweep.todo \cap DOMAIN book : SellAll(id)
  /\ lost' = IF sweep.from = "scan" THEN lost \cup sweep.done ELSE lost
  /\ sweep' = NoSweep
  /\ IF sweep.from = "pass"
     THEN pc' = "boot" /\ pass' = NoPass /\ current' = << >>
     ELSE pc' = sweep.from /\ UNCHANGED <<pass, current>>
  /\ UNCHANGED <<book, blacklist, kill, closed>>

\* guardStops, while the loop sleeps after a pass that finished.
GuardStops ==
  /\ pc = "asleep" /\ ~pass.kill /\ DOMAIN book # {}
  /\ BeginSweep("asleep", DOMAIN book)
  /\ UNCHANGED <<book, held, blacklist, fund, kill, current, pass, history>>

-----------------------------------------------------------------------------
(* The pass.                                                               *)

\* planRecovery: every row whose token is not condemned.  On paper no order is
\* ever left in doubt, so none is halted.
Recovered == {id \in DOMAIN book : TokenOf(id) \notin blacklist}

StartPass ==
  /\ pc \in {"boot", "asleep"} /\ count.passes < MaxPasses /\ count' = Bump("passes")
  /\ current' = [i \in Recovered |-> book[i]]
  /\ pass' = [NoPass EXCEPT !.kill = kill, !.banned = blacklist]
  /\ BeginSweep("pass", DOMAIN book)
  /\ UNCHANGED <<book, held, blacklist, fund, kill, closed, lost>>

Condemned(id, look) == IF Condemns(current[id].watch, look) THEN {TokenOf(id)} ELSE {}
Watched(id, look) == [current[id] EXCEPT !.watch = AssessAssetHealth(@, look)]
Exits(id, row, strategy) ==
  ApplyDeathVerdict({}, strategy, row.watch.stage, held[id] > 0, ExitOnFreeze)

\* assessHealth: no new bar, so the watch is kept and no order is placed.
TickWithoutBar(id, look) ==
  /\ blacklist' = blacklist \cup Condemned(id, look)
  /\ book' = Save(id, Watched(id, look))
  /\ current' = [current EXCEPT ![id] = Watched(id, look)]
  /\ UNCHANGED <<held, fund>>

\* advanceOneBar: the death watch, the row, then the sale, if any.
TickOnBar(id, look) ==
  /\ blacklist' = blacklist \cup Condemned(id, look)
  /\ book' = Save(id, Watched(id, look))
  /\ current' = [current EXCEPT ![id] = Watched(id, look)]
  /\ \E strategy \in SUBSET {"Exit"} :
       IF held[id] > 0 /\ Exits(id, Watched(id, look), strategy) # {}
       THEN SellAll(id) ELSE UNCHANGED <<held, fund>>

Tick(id) ==
  /\ pc = "tick" /\ id \in pass.todo
  /\ pass' = [pass EXCEPT !.todo = @ \ {id}]
  /\ \E look \in Looks : TickWithoutBar(id, look) \/ TickOnBar(id, look)
  /\ UNCHANGED <<kill, pc, sweep, history>>

\* The tick throws between its writes, which fails the pass: the token is
\* condemned and its row not, or the row is written and its sale is not made.
TickThrows(id) ==
  /\ pc = "tick" /\ id \in pass.todo /\ count.throws < MaxThrows /\ count' = Bump("throws")
  /\ \E look \in Looks :
       /\ blacklist' = blacklist \cup Condemned(id, look)
       /\ book' \in {book, Save(id, Watched(id, look))}
  /\ pc' = "boot" /\ current' = << >> /\ pass' = NoPass
  /\ UNCHANGED <<held, fund, kill, sweep, closed, lost>>

\* Positions with nothing new, no price or no candles are not ticked.
EndTicks ==
  /\ pc = "tick"
  /\ pc' = IF pass.kill THEN "end" ELSE "scan"
  /\ pass' = [pass EXCEPT !.todo = {}]
  /\ UNCHANGED <<book, held, blacklist, fund, kill, current, sweep, history>>

\* betweenSteps: the sweep over the live book, less what was stopped.
SweepDuringScan ==
  /\ pc = "scan" /\ Unstopped(DOMAIN current, pass) # {}
  /\ BeginSweep("scan", Unstopped(DOMAIN book, pass))
  /\ UNCHANGED <<book, held, blacklist, fund, kill, current, pass, history>>

\* As a bug would have it: the copies from before the scan.
NothingReadAgain(rows) == rows

AfterTheScan(rows) == Refreshed(rows)
EndScan ==
  /\ pc = "scan" /\ pc' = "score"
  /\ current' = AfterTheScan(current)
  /\ UNCHANGED <<book, held, blacklist, fund, kill, pass, sweep, history>>

-----------------------------------------------------------------------------
(* The allocator.                                                          *)

\* A row without a score takes this reading as its first.  The pass's copy is
\* not touched.
ScoreBaseline(id) ==
  /\ pc = "score" /\ id \in Unstopped(DOMAIN current, pass) /\ ~current[id].scored
  /\ book' = Save(id, [current[id] EXCEPT !.scored = TRUE])
  /\ UNCHANGED <<held, blacklist, fund, kill, pc, current, pass, sweep, history>>

ScoreStop(id) ==
  /\ pc = "score" /\ id \in Unstopped(DOMAIN current, pass) /\ current[id].scored
  /\ SellAll(id) /\ ClosePosition(id)
  /\ pass' = [pass EXCEPT !.stopped = @ \cup {id}]
  /\ UNCHANGED <<blacklist, kill, pc, current, sweep, count, lost>>

Rotate(id) ==
  /\ pc = "rotate" /\ id \in Unstopped(DOMAIN current, pass) \ pass.rotated
  /\ SellAll(id) /\ ClosePosition(id)
  /\ pass' = [pass EXCEPT !.rotated = @ \cup {id}]
  /\ UNCHANGED <<blacklist, kill, pc, current, sweep, count, lost>>

\* releasableSlots over every row the pass recovered.  Which it names is a choice
\* here (Allocation has the rule): a holder too, which is then sold first.
\* A frozen slot bans its token.
Release(id) ==
  /\ pc = "release" /\ id \in DOMAIN current \ pass.released
  /\ IF held[id] > 0 THEN SellAll(id) ELSE UNCHANGED <<held, fund>>
  /\ ClosePosition(id)
  /\ blacklist' = IF BlacklistOnFreeze /\ current[id].watch.stage = "frozen"
                  THEN blacklist \cup {TokenOf(id)} ELSE blacklist
  /\ pass' = [pass EXCEPT !.released = @ \cup {id}]
  /\ UNCHANGED <<kill, pc, current, sweep, count, lost>>

NextPhase ==
  /\ \/ pc = "score" /\ pc' = "rotate"
     \/ pc = "rotate" /\ pc' = "release"
     \/ pc = "release" /\ pc' = "trim"
  /\ UNCHANGED <<book, held, blacklist, fund, kill, current, pass, sweep, history>>

\* As a bug would have it: what a sweep sold is kept.
GoneByTheAllocator(p) == p.released \cup p.rotated

Gone(p) == p.released \cup p.rotated \cup p.stopped
Keeping == DOMAIN current \ Gone(pass)

\* What a slot needs: its fixed size, never under what is in the token; a frozen
\* one only what it holds.
Needs(id) ==
  IF current[id].watch.stage = "frozen" THEN Deployed(id) ELSE Max({Slot, Deployed(id)})
Trimmed(id) == [current[id] EXCEPT !.cap = Min({@, Needs(id)})]
Kept == [i \in Keeping |-> Trimmed(i)]

\* The trim, and the count of slots what is left pays for: over the rows the
\* pass kept.
Trim ==
  /\ pc = "trim" /\ pc' = "open"
  /\ LET cut == {i \in Keeping : current[i].cap > Needs(i)} IN
     book' = [i \in DOMAIN book \cup cut |->
                IF i \in cut THEN [Trimmed(i) EXCEPT !.scored = @ \/ (i \in DOMAIN book /\ book[i].scored)]
                ELSE book[i]]
  /\ pass' = [pass EXCEPT !.room = FreeSlots(FreeUsd(Kept))]
  /\ UNCHANGED <<held, blacklist, fund, kill, current, sweep, history>>

\* A token that gave up its slot in this pass must not win it straight back; a
\* rotated one is on the scanner's refused list, and so not a candidate.
\* As a bug would have it: only what was sold.
JustSold == TokensOf(pass.stopped)

JustFreed == TokensOf(pass.released \cup pass.stopped)
\* As a bug would have it: a token already held may be opened again.
EligibleTwice == Tokens \ (pass.banned \cup JustFreed \cup TokensOf(pass.rotated))

Eligible == Tokens \ (pass.banned \cup TokensOf(Keeping) \cup JustFreed \cup TokensOf(pass.rotated))

Open(id) ==
  /\ pc = "open" /\ pass.room > 0 /\ TokenOf(id) \in Eligible
  /\ id \notin closed \cup DOMAIN book
  /\ \A n \in 1..(id[2] - 1) : <<TokenOf(id), n>> \in closed \cup DOMAIN book
  /\ TokenOf(id) \notin TokensOf(pass.todo)
  /\ book' = Save(id, [cap |-> Slot, watch |-> StartDeathWatch, scored |-> TRUE])
  /\ pass' = [pass EXCEPT !.room = @ - 1, !.todo = @ \cup {id}]
  /\ UNCHANGED <<held, blacklist, fund, kill, pc, current, sweep, history>>

EndOpen ==
  /\ pc = "open" /\ pc' = "first"
  /\ UNCHANGED <<book, held, blacklist, fund, kill, current, pass, sweep, history>>

\* 3e: a slot just opened is looked at once; it holds nothing to sell.  One
\* that cannot be priced is left to the next pass.
FirstTick(id) ==
  /\ pc = "first" /\ id \in pass.todo \ DOMAIN current
  /\ \E look \in Looks :
       LET row == [book[id] EXCEPT !.watch = AssessAssetHealth(@, look)] IN
       /\ blacklist' = blacklist \cup (IF Condemns(book[id].watch, look) THEN {TokenOf(id)} ELSE {})
       /\ book' = Save(id, row)
       /\ current' = [i \in DOMAIN current \cup {id} |-> IF i = id THEN row ELSE current[i]]
  /\ UNCHANGED <<held, fund, kill, pc, pass, sweep, history>>

EndFirstTicks ==
  /\ pc = "first" /\ pc' = "buy"
  /\ UNCHANGED <<book, held, blacklist, fund, kill, current, pass, sweep, history>>

\* 3f, buyFirstStepOnSelection: only a slot that was priced and never held.
FirstBuy(id) ==
  /\ pc = "buy" /\ id \in pass.todo \cap DOMAIN current /\ held[id] = 0
  /\ BuyStep(id)
  /\ UNCHANGED <<blacklist, kill, pc, current, pass, sweep, closed, lost>>

EndFirstBuys ==
  /\ pc = "buy" /\ pc' = "end"
  /\ UNCHANGED <<book, held, blacklist, fund, kill, current, pass, sweep, history>>

\* The checkpoint, and the loop sleeps.  It remembers the last pass's switch.
EndPass ==
  /\ pc = "end" /\ pc' = "asleep"
  /\ pass' = [NoPass EXCEPT !.kill = pass.kill] /\ current' = << >>
  /\ UNCHANGED <<book, held, blacklist, fund, kill, sweep, history>>

-----------------------------------------------------------------------------
(* What may go wrong, and the operator.                                    *)

Forget == pc' = "boot" /\ current' = << >> /\ pass' = NoPass /\ sweep' = NoSweep

\* An await of the allocator throws: the pass fails, and the loop tries a whole
\* new one.  It may have sold a position whose row it did not yet close.
PassFails ==
  /\ pc \in {"scan", "score", "rotate", "release", "trim", "open", "end"}
  /\ count.throws < MaxThrows /\ count' = Bump("throws")
  /\ \/ UNCHANGED <<held, fund>>
     \/ pc \in {"score", "rotate", "release"} /\ \E id \in DOMAIN current : SellAll(id)
  /\ Forget
  /\ UNCHANGED <<book, blacklist, kill, closed, lost>>

Crash ==
  /\ pc # "boot" /\ count.crashes < MaxCrashes /\ count' = Bump("crashes")
  /\ Forget
  /\ UNCHANGED <<book, held, blacklist, fund, kill, closed, lost>>

\* The phone's order, applied between passes (ControlSync has the rest).
SetKill ==
  /\ pc \in {"boot", "asleep"} /\ count.kills < MaxKills /\ count' = Bump("kills")
  /\ kill' = ~kill
  /\ UNCHANGED <<book, held, blacklist, fund, pc, current, pass, sweep, closed, lost>>

-----------------------------------------------------------------------------

Sweeping == EndSweep \/ SweepThrows \/ \E id \in Ids : SweepSale(id) \/ SweepBuy(id)
Ticking  == EndTicks \/ \E id \in DOMAIN current : Tick(id) \/ TickThrows(id)
Allocating ==
  \/ SweepDuringScan \/ EndScan \/ NextPhase \/ Trim \/ EndOpen \/ EndFirstTicks \/ EndFirstBuys
  \/ \E id \in Ids : \/ ScoreBaseline(id) \/ ScoreStop(id) \/ Rotate(id) \/ Release(id)
                     \/ Open(id) \/ FirstTick(id) \/ FirstBuy(id)

Next == Sweeping \/ Ticking \/ Allocating \/ StartPass \/ GuardStops \/ EndPass \/ PassFails \/ Crash \/ SetKill

Spec == Init /\ [][Next]_vars

-----------------------------------------------------------------------------
(* Properties.                                                             *)

\* The shape of the state.
Places == {"boot", "asleep", "sweep", "tick", "scan", "score", "rotate", "release", "trim",
           "open", "first", "buy", "end"}
RowsOf(f) == f \in [DOMAIN f -> Rows] /\ DOMAIN f \subseteq Ids
TypeOK ==
  /\ RowsOf(book) /\ RowsOf(current)
  /\ held \in [Ids -> Nat] /\ blacklist \subseteq Tokens /\ fund \in Int /\ kill \in BOOLEAN
  /\ pc \in Places
  /\ pass \in [kill : BOOLEAN, banned : SUBSET Tokens, stopped : SUBSET Ids, rotated : SUBSET Ids,
               released : SUBSET Ids, todo : SUBSET Ids, room : Nat]
  /\ sweep \in [from : {"pass", "scan", "asleep"}, todo : SUBSET Ids, done : SUBSET Ids]
  /\ count \in [passes : Nat, buys : Nat, throws : Nat, crashes : Nat, kills : Nat]
  /\ {closed, lost} \subseteq SUBSET Ids

Bought(id) == held'[id] > held[id]
Opening(id) == pc = "open" /\ id \in DOMAIN book' \ DOMAIN book

\* A condemned token is never bought again: not by the sweeps, which walk the
\* whole book, not by the step bought on selection, and not through a new slot
\* (death-exit.ts, planRecovery, the sweep's guard on the watch's stage).
CondemnedNeverBuys == [][\A id \in Ids : Bought(id) \/ Opening(id) => TokenOf(id) \notin blacklist]_vars

\* Capital is promised once.  A step funded by the sweep and a slot opened by
\* the allocator draw on the same free capital, and neither takes the promises
\* of the rows the pass knows past the book (free-capital.ts, "the dollars must
\* not be handed out again").  A condemned row is outside the plan, and one
\* brought back after its sweep failed outside what the pass could know.
Promised(b) == MapThenSumSet(LAMBDA i : b[i].cap,
                             {i \in DOMAIN b : TokenOf(i) \notin blacklist /\ i \notin lost})
NeverSpentTwice ==
  [][(\E id \in Ids : Bought(id) \/ Opening(id)) /\ Promised(book') > Promised(book)
       => Promised(book') <= TotalCapital + fund]_vars

\* What a sweep, the score stop, a rotation or a release sold and closed stays
\* closed: no copy made before it is written back (orchestrator.ts, "nothing
\* downstream may re-sell or re-tick it").
SoldStaysSold == (closed \ lost) \cap DOMAIN book = {}

\* A token sits in one slot (Eligible: neither kept, nor freed in this pass).
OneRowPerToken ==
  \A i, j \in DOMAIN book \ lost : TokenOf(i) = TokenOf(j) => i = j

\* orchestrator.ts says of the sweep that it keeps the kill switch's guard; the
\* kill switch stops every opening (kill-switch.ts).
KillStopsBuying == [][\A id \in Ids : Bought(id) => ~pass.kill]_vars

\* assessHealth says of a death decided without a new bar that its exit goes
\* out on the first bar that does arrive (engine.ts): a held row that is dead
\* when the ticks begin is one of the rows to tick.
DeathExitGoesOut ==
  pc = "tick" => \A id \in DOMAIN book :
                   book[id].watch.stage = "dead" /\ held[id] > 0 => id \in DOMAIN current

=============================================================================
