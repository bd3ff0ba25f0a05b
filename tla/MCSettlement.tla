---------------------------- MODULE MCSettlement ----------------------------
(* Small instances of Settlement for TLC: a ladder of two entries, and the *)
(* record of it that PositionBook specifies.                               *)
EXTENDS Settlement

MCLotIds == <<"Entry", "DCA-1">>

Recorded(f) == [at |-> f.at, part |-> f.part, n |-> f.n, via |-> f.via, side |-> f.side, lot |-> f.lot]

Fills(side, lot) == Cardinality({i \in DOMAIN tape : tape[i].side = side /\ tape[i].lot = lot})

\* The record, read off the row, the tape and what a restart would hold.
Book == INSTANCE PositionBook WITH
  Lots      <- Buys,
  open      <- row.open,
  decisions <- decided,
  fills     <- {Recorded(tape[i]) : i \in DOMAIN tape},
  held      <- [l \in Buys |-> Fills("buy", l) - Fills("sell", l)],
  faults    <- {f \in {"crash", "write"} : (f = "crash" /\ crashes > 0) \/ (f = "write" /\ failures > 0)}

\* Over the store whose writes are durable as they return, the engine, its
\* sweep and the allocator (engine.ts, stop-sweep.ts, orchestrator.ts) keep the
\* record as PositionBook promises it: every step of theirs, a crash between
\* two writes included, is a step of the record or leaves it alone.
ImplementsTheBook == Book!BookSpec
=============================================================================
