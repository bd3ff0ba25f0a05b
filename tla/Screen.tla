-------------------------------- MODULE Screen --------------------------------
(***************************************************************************)
(* The screen beside the engine: what the dashboard (dashboard/lib/view.ts *)
(* and application/operations-view.ts) draws of a position, from the same  *)
(* environment and the same row, and by its own arithmetic.  It reads what *)
(* the sweep saved; it never asks the sweep.                               *)
(***************************************************************************)
EXTENDS Production

MostDrawn == 12
FreshMinutes == 15

\* As a bug would have it: the ladder nobody set.
ScreenOfDefaults(env) ==
  LET l == ProductionLadder(<< >>) IN
  [maxOpen |-> l.maxOpen, steps |-> Len(l.schedule), fixedTp |-> l.fixedTp, drop |-> l]

\* buildView: the ladder from the module the engine reads it from.  The
\* dip-bounce is always drawn, but for Ladder A, which is drawn instead.
ScreenOf(env) ==
  LET l == ProductionLadder(env) IN
  [maxOpen |-> l.maxOpen, steps |-> Len(l.schedule), fixedTp |-> l.fixedTp,
   drop |-> IF l.dropLadder THEN l ELSE Null]

-----------------------------------------------------------------------------
(* One position, at a price.                                               *)

Fillable(o) == Min({51, Holds(o.maxOpen), MostDrawn})

\* ladderScale: the last hour's while it is fresh, else the one at the buy.
LadderScale(o, position, now) ==
  LET scale == position.scaleNow IN
  IF ~o.drop.adaptive THEN 100
  ELSE IF o.drop.realtime /\ scale # Null /\ now - scale.at < FreshMinutes * LooksPerMinute
  THEN scale.scale ELSE UsableScale(position.dcaScale)

\* dropRungUsd: what the rung is configured to buy, or the nominal size.
DropRungUsd(o, level) ==
  IF level \in DOMAIN o.drop.rungs THEN o.drop.rungs[level]
  ELSE UsdForLevel([base |-> LargestBase, increment |-> 12000, maxPerLevel |-> o.drop.maxPerLevel], level)

\* dropRungs: each line hangs from the first buy, or from the one before, drawn
\* where that one is not bought yet.
DropRungs(o, buys, scale) ==
  LET bought(k) == k + 1 \in DOMAIN buys
      under(price, k) ==
        IF price = Null \/ k \notin DOMAIN o.drop.drops THEN Null
        ELSE (price * Factor(ScaledDrop(o.drop.drops[k], scale))) \div Whole
      first == IF buys = << >> THEN Null ELSE buys[1].price
      anchor[k \in 0..Fillable(o)] ==
        IF bought(k) THEN buys[k + 1].price
        ELSE IF k = 0 THEN Null
        ELSE under(IF o.drop.fromPrevious THEN anchor[k - 1] ELSE first, k)
  IN [k \in 1..(Fillable(o) - 1) |->
        [line |-> under(IF o.drop.fromPrevious THEN anchor[k - 1] ELSE first, k),
         usd |-> DropRungUsd(o, k), filled |-> bought(k)]]

\* dropLocks: whether the next rung's line is reached, or nothing where no rung
\* is left.
DropReached(o, buys, scale, price) ==
  LET n      == Len(buys)
      anchor == IF o.drop.fromPrevious THEN buys[n] ELSE buys[1] IN
  /\ n \in 1..(Fillable(o) - 1) /\ n \in DOMAIN o.drop.drops
  /\ Whole * price <= anchor.price * Factor(ScaledDrop(o.drop.drops[n], scale))

\* takeProfitLine, of a healthy position that holds something.
TakeProfitReached(o, position, fills, price) ==
  /\ position.stage = "healthy" /\ o.fixedTp > 0 /\ Held(fills)
  /\ ~GainAtMost(price, Ledger(fills), o.fixedTp - 1)

-----------------------------------------------------------------------------
(* The property.                                                           *)

\* Where the sweep measured a spacing this time, or never did.
SpacingIsCurrent == row'.scaleNow = Null \/ row'.scaleNow.at = clock'

\* The engine buys and sells nothing of what the screen draws before the screen
\* says so: a rung of Ladder A is bought at or under its drawn line, for the
\* drawn amount, with its lock shown reached; a step within the steps shown; and
\* the fixed profit at or over its line (production-ladder.ts, "a screen
\* disagreeing with the engine about the size of a trade").
DrawnBeforeItIsDone ==
  [][\A f \in NewFills :
       LET o     == rule.screen
           buys  == HoldingBuys(tape)
           scale == LadderScale(o, row', clock')
           rung  == DropRungs(o, buys, scale)[Len(buys)] IN
       /\ f.why = "drop" /\ SpacingIsCurrent =>
            /\ ~rung.filled /\ rung.line # Null /\ f.price <= rung.line /\ f.qty = rung.usd \div f.price
            /\ DropReached(o, buys, scale, f.price)
       /\ f.why = "dip" => Len(buys) < o.steps
       /\ f.why = "fixedTp" => TakeProfitReached(o, row, tape, f.price)]_sweepVars

=============================================================================
