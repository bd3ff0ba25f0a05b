---------------------------- MODULE PositionBook ----------------------------
(***************************************************************************)
(* What the durable record of one position promises, whoever trades it and *)
(* whenever the process dies: decisions made once and in the order of the  *)
(* bars, fills recorded once and whole, sales of what is held and nothing  *)
(* else, and a slot that is retired empty and for good.                    *)
(*                                                                         *)
(* Nothing here is a process, a broker or a queue: the engine, the sweep   *)
(* and the allocator of Settlement are shown to implement it, over the     *)
(* store whose writes are durable as they return.                          *)
(***************************************************************************)
EXTENDS Integers

CONSTANT Lots   \* what a buy opens and a sale closes

VARIABLES
  open,       \* whether the slot is the position's still
  decisions,  \* [bar, orders]: what was written down
  fills,      \* [at, part, n, via, side, lot]: what was recorded
  held,       \* lot -> how many of it were bought and not sold
  faults      \* what has gone wrong so far

bookVars == <<open, decisions, fills, held, faults>>

BookInit ==
  /\ open = TRUE /\ decisions = {} /\ fills = {} /\ faults = {}
  /\ held = [l \in Lots |-> 0]

\* A bar is decided after every bar decided before it.
Decide(decision) ==
  /\ open
  /\ \A d \in decisions : d.bar < decision.bar
  /\ decisions' = decisions \cup {decision}
  /\ UNCHANGED <<open, fills, held, faults>>

Recorded(at, part, n) == \E f \in fills : f.at = at /\ f.part = part /\ f.n = n

\* What the tick fills was decided first, for that bar.
Announced(f) ==
  f.via = "tick" => \E d \in decisions : d.bar = f.at /\ \E k \in DOMAIN d.orders : d.orders[k] = f.part

Buy(lot) == held' = [held EXCEPT ![lot] = @ + 1]

\* Nothing but what is held is sold, unless a write was lost.
Sell(lot) ==
  /\ "write" \in faults \/ held[lot] > 0
  /\ held' = [held EXCEPT ![lot] = @ - 1]

\* A fill is recorded once, and after the ones before it in its order.
Fill(f) ==
  /\ open
  /\ ~Recorded(f.at, f.part, f.n)
  /\ f.n > 0 => Recorded(f.at, f.part, f.n - 1)
  /\ Announced(f)
  /\ fills' = fills \cup {f}
  /\ IF f.side = "buy" THEN Buy(f.lot) ELSE Sell(f.lot)
  /\ UNCHANGED <<open, decisions, faults>>

\* A slot is retired once, and empty unless something has gone wrong.
Retire ==
  /\ open /\ open' = FALSE
  /\ faults = {} => \A l \in Lots : held[l] = 0
  /\ UNCHANGED <<decisions, fills, held, faults>>

\* A crash, or a write that is lost, takes nothing from the record.
GoWrong(fault) ==
  /\ faults' = faults \cup {fault}
  /\ UNCHANGED <<open, decisions, fills, held>>

BookNext ==
  \/ \E decision \in decisions' \ decisions : Decide(decision)
  \/ \E f \in fills' \ fills : Fill(f)
  \/ Retire
  \/ \E fault \in {"crash", "write"} : GoWrong(fault)

BookSpec == BookInit /\ [][BookNext]_bookVars
=============================================================================
