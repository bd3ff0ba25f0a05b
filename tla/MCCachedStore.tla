--------------------------- MODULE MCCachedStore ----------------------------
(* The book: a row is its last written fields and a ratchet.               *)
EXTENDS CachedStore, TLC

CONSTANTS a, b, r1, r2

MCIds     == {a, b}
MCReaders == {r1, r2}

BookRows == [rest : {1, 2}, floor : {1, 2}]
BookKeep(kept, row) ==
  [rest |-> row.rest, floor |-> IF row.floor > kept.floor THEN row.floor ELSE kept.floor]

(* The tape's rule and the scans' are rules the module accepts too: what   *)
(* is proved of it holds of them.                                          *)
Scans == [at : 1..3]

ASSUME TapeKeepAssumption ==
  \A kept \in BookRows, row \in BookRows :
    /\ FirstWins(kept, row) \in BookRows
    /\ FirstWins(FirstWins(kept, row), row) = FirstWins(kept, row)
    /\ FirstWins(row, row) = row

ASSUME ScanKeepAssumption ==
  \A kept \in Scans, row \in Scans :
    /\ NewestWins(kept, row) \in Scans
    /\ NewestWins(NewestWins(kept, row), row) = NewestWins(kept, row)
    /\ NewestWins(row, row) = row

Symmetry == Permutations(MCIds) \cup Permutations(MCReaders)
=============================================================================
