--------------------------- MODULE MCPositionMerge --------------------------
(* PositionMerge on two holdings, two values and every kind of write: one  *)
(* field at a time over an otherwise empty row, and the half readings.     *)
EXTENDS PositionMerge

CONSTANTS null

MCValues == {1, 2}
MCTimes  == {1, 2}
MCRests  == {"older", "newer"}

Blank(rest) ==
  [rest |-> rest, breakEvenArmed |-> FALSE, entryScore |-> null, dcaScale |-> null,
   gainLock |-> null, dcaScaleNow |-> null, dcaScaleNowAt |-> null,
   liquidityWatch |-> null, priceLow |-> null, dipWatch |-> null]

(* Every lock with every low: a sweep may carry both.                      *)
MCWrites ==
  LET b == Blank("newer")
      opt(S) == S \cup {null}
      locks == [pct : MCValues, since : MCTimes]
      lows  == [price : MCValues, holdingSince : MCTimes]
      ws    == [body : MCValues, at : MCTimes]
  IN  {Blank("older"), [b EXCEPT !.breakEvenArmed = TRUE]}
      \cup {[b EXCEPT !.entryScore = v, !.dcaScale = v] : v \in MCValues}
      \cup {[b EXCEPT !.gainLock = l, !.priceLow = low] : l \in opt(locks), low \in opt(lows)}
      \cup {[b EXCEPT !.dcaScaleNow = v, !.dcaScaleNowAt = t] : v \in opt(MCValues), t \in opt(MCTimes)}
      \cup {[b EXCEPT !.liquidityWatch = w] : w \in ws}
      \cup {[b EXCEPT !.dipWatch = w] : w \in ws}
=============================================================================
