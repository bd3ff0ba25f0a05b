----------------------------- MODULE DeathWatch -----------------------------
(***************************************************************************)
(* The death watch (domain/risk/death-exit.ts): what one look at a token's *)
(* health says, and the stage its confirmations lead to.  A look is a      *)
(* record; Unknown stands for what the monitor could not read.  Shares are *)
(* in percent, liquidity in thousands of dollars, time in hours.           *)
(***************************************************************************)
EXTENDS Integers, FiniteSets

CONSTANTS
  ExitConfirmations,   \* looks in a row with exit evidence that declare death
  ClearObservations,   \* clean looks in a row that lift a freeze
  Unknown              \* null: not measured

ASSUME DeathWatchAssumption ==
  /\ ExitConfirmations \in Nat \ {0}
  /\ ClearObservations \in Nat \ {0}
  /\ Unknown \notin Int

LiquidityFreezePct == 50
LiquidityExitPct   == 20
LiquidityFloor     == 5
HolderDumpPct      == 10
FreezeHours        == 3
ExitHours          == 12

Stages  == {"healthy", "frozen", "dead"}
Watches == [stage : Stages, exit : Nat, clean : Nat]

StartDeathWatch == [stage |-> "healthy", exit |-> 0, clean |-> 0]

AtLeast(x, n) == x # Unknown /\ x >= n

LiquidityBelow(look, pct) == look.liquidity * 100 < pct * look.entry

\* The stages of the signals a look carries: 2 is evidence for an exit, 1 a
\* suspicion.
Collapsed(look) ==
  /\ look.liquidity # Unknown
  /\ look.liquidity < LiquidityFloor \/ LiquidityBelow(look, LiquidityExitPct)

ExitEvidence(look) ==
  \/ look.sellQuote \in {"failed", "implausible"}
  \/ look.lp \in {"removed", "unlocked"}
  \/ Collapsed(look)
  \/ look.authority = TRUE
  \/ look.blocked = TRUE
  \/ AtLeast(look.idleHours, ExitHours)

Suspicion(look) ==
  \/ look.safetyFailed # {}
  \/ /\ look.liquidity # Unknown /\ ~Collapsed(look)
     /\ look.liquidity > 0 /\ LiquidityBelow(look, LiquidityFreezePct)
  \/ AtLeast(look.holderMoved, HolderDumpPct)
  \/ AtLeast(look.idleHours, FreezeHours) /\ ~AtLeast(look.idleHours, ExitHours)

EvaluateSignals(look) ==
  {n \in {1, 2} : IF n = 2 THEN ExitEvidence(look) ELSE Suspicion(look)}

\* One look, assessed.  A look without a signal counts as clean only when the
\* sell was quoted and went well; a dead watch no longer moves.
Clean(watch) ==
  IF watch.stage = "frozen" /\ watch.clean + 1 >= ClearObservations
  THEN StartDeathWatch
  ELSE [watch EXCEPT !.exit = 0, !.clean = @ + 1]

Suspect(watch, signals) ==
  LET exit == IF 2 \in signals THEN watch.exit + 1 ELSE 0 IN
  [stage |-> IF exit >= ExitConfirmations THEN "dead" ELSE "frozen", exit |-> exit, clean |-> 0]

AssessAssetHealth(watch, look) ==
  LET signals == EvaluateSignals(look) IN
  IF watch.stage = "dead" THEN watch
  ELSE IF signals # {} THEN Suspect(watch, signals)
  ELSE IF look.sellQuote = "ok" THEN Clean(watch)
  ELSE watch

Condemns(watch, look) ==
  watch.stage # "dead" /\ AssessAssetHealth(watch, look).stage = "dead"

\* What a stage leaves of the strategy's orders: entries and exits are sets.
ApplyDeathVerdict(entries, exits, stage, holding, exitOnFreeze) ==
  IF stage = "healthy" THEN entries \cup exits
  ELSE IF stage = "frozen" /\ ~exitOnFreeze THEN exits
  ELSE IF ~holding THEN {}
  ELSE IF stage = "dead" THEN {"DEATH"} ELSE {"FROZEN"}

\* The monitor asks for a sell quote, which costs money, only when something
\* cheaper is already wrong.
NeedsSellProbe(watch, look) == watch.stage # "healthy" \/ EvaluateSignals(look) # {}

=============================================================================
