--------------------------- MODULE PositionMerge ---------------------------
(***************************************************************************)
(* What a store keeps when a position is saved over the one it holds.      *)
(*                                                                         *)
(* Every step of the cycle writes a whole row back from a snapshot it read *)
(* earlier, so the store folds a save into the row it has: the break-even  *)
(* flag, the gain lock, the price low and the watches are ratchets. The    *)
(* rule is written twice: in TypeScript for the memory store and for the   *)
(* engine's in-memory book (domain/persistence/position-merge.ts), and in  *)
(* SQL for Postgres (the upsert of PostgresStore.savePosition). Here both  *)
(* run side by side on the same writes.                                    *)
(*                                                                         *)
(* Any writer may save any row: the writers' snapshots may be as stale as  *)
(* they like. A field no rule guards is part of `rest`.                    *)
(***************************************************************************)
EXTENDS Integers

CONSTANTS
  Null,     \* null, undefined and SQL's NULL
  Rests,    \* the fields taken as written: the cascade, the last bar, ...
  Values,   \* scores, scales, percentages, prices
  Times,    \* instants
  Writes    \* bound: the positions a run's writers save

Optional(S) == S \cup {Null}

GainLocks == [pct : Values, since : Times]
PriceLows == [price : Values, holdingSince : Times]
Watches   == [body : Values, at : Times]

Positions ==
  [rest : Rests, breakEvenArmed : BOOLEAN,
   entryScore : Optional(Values), dcaScale : Optional(Values),
   gainLock : Optional(GainLocks),
   dcaScaleNow : Optional(Values), dcaScaleNowAt : Optional(Times),
   liquidityWatch : Optional(Watches), priceLow : Optional(PriceLows),
   dipWatch : Optional(Watches)]

(* A row of the positions table; a NULL column is Null.                   *)
Columns ==
  [rest : Rests, break_even_armed : BOOLEAN,
   entry_score : Optional(Values), dca_scale : Optional(Values),
   gain_lock_pct : Optional(Values), gain_lock_since : Optional(Times),
   dca_scale_now : Optional(Values), dca_scale_now_at : Optional(Times),
   liquidity_watch : Optional(Watches), price_low : Optional(PriceLows),
   dip_watch : Optional(Watches)]

ASSUME PositionMergeAssumption ==
  /\ Values \subseteq Int /\ Times \subseteq Int
  /\ Null \notin Values \cup Times
  /\ Null \notin GainLocks /\ Null \notin PriceLows /\ Null \notin Watches
  /\ Writes \subseteq Positions
  /\ Null \notin Positions /\ Null \notin Columns

VARIABLES
  kept,     \* the position in memory, Null when there is none
  columns   \* the row of the positions table, Null when there is none

vars == <<kept, columns>>

-----------------------------------------------------------------------------
(* In TypeScript                                                           *)

(* Written once: the first value stays.                                    *)
FirstOf(stored, written) == IF stored # Null THEN stored ELSE written

(* Mutant of KeepGainLock: the greater floor, whoever earned it.           *)
KeepGreaterLock(stored, written) ==
  IF written = Null THEN stored
  ELSE IF stored = Null \/ written.pct > stored.pct THEN written ELSE stored

KeepGainLock(stored, written) ==
  IF written = Null THEN stored
  ELSE IF stored = Null \/ written.since > stored.since THEN written
  ELSE IF written.since < stored.since THEN stored
  ELSE IF written.pct > stored.pct THEN written ELSE stored

KeepPriceLow(stored, written) ==
  IF written = Null THEN stored
  ELSE IF stored = Null \/ written.holdingSince > stored.holdingSince THEN written
  ELSE IF written.holdingSince = stored.holdingSince /\ written.price < stored.price
       THEN written ELSE stored

(* keepLiquidityWatch and keepDipWatch, and the rule of the real-time      *)
(* scale: the one with the newer time.                                     *)
KeepNewer(stored, written) ==
  IF written # Null /\ (stored = Null \/ written.at > stored.at) THEN written ELSE stored

(* The real-time scale as a whole pair, or none.                           *)
ReadingOf(p) ==
  IF p.dcaScaleNow # Null /\ p.dcaScaleNowAt # Null
  THEN [body |-> p.dcaScaleNow, at |-> p.dcaScaleNowAt]
  ELSE Null

WithReading(p, reading) ==
  [p EXCEPT !.dcaScaleNow   = IF reading = Null THEN Null ELSE reading.body,
            !.dcaScaleNowAt = IF reading = Null THEN Null ELSE reading.at]

MergeSavedPosition(stored, p) ==
  IF stored = Null THEN WithReading(p, ReadingOf(p))
  ELSE WithReading(
         [p EXCEPT !.breakEvenArmed = stored.breakEvenArmed \/ p.breakEvenArmed,
                   !.entryScore     = FirstOf(stored.entryScore, p.entryScore),
                   !.dcaScale       = FirstOf(stored.dcaScale, p.dcaScale),
                   !.gainLock       = KeepGainLock(stored.gainLock, p.gainLock),
                   !.liquidityWatch = KeepNewer(stored.liquidityWatch, p.liquidityWatch),
                   !.priceLow       = KeepPriceLow(stored.priceLow, p.priceLow),
                   !.dipWatch       = KeepNewer(stored.dipWatch, p.dipWatch)],
         KeepNewer(ReadingOf(stored), ReadingOf(p)))

-----------------------------------------------------------------------------
(* In SQL                                                                  *)

(* The parameters savePosition binds: the lock and the reading go both or  *)
(* neither.                                                                *)
Bound(p) ==
  LET reading == p.dcaScaleNow # Null /\ p.dcaScaleNowAt # Null
  IN  [rest |-> p.rest, break_even_armed |-> p.breakEvenArmed,
       entry_score |-> p.entryScore, dca_scale |-> p.dcaScale,
       gain_lock_pct    |-> IF p.gainLock = Null THEN Null ELSE p.gainLock.pct,
       gain_lock_since  |-> IF p.gainLock = Null THEN Null ELSE p.gainLock.since,
       dca_scale_now    |-> IF reading THEN p.dcaScaleNow ELSE Null,
       dca_scale_now_at |-> IF reading THEN p.dcaScaleNowAt ELSE Null,
       liquidity_watch |-> p.liquidityWatch, price_low |-> p.priceLow,
       dip_watch |-> p.dipWatch]

Coalesce(a, b) == IF a # Null THEN a ELSE b
Greatest(a, b) == IF a = Null \/ b > a THEN b ELSE a

(* The WHENs of the two gain-lock CASEs; both read the row as it was.      *)
NewerLock(old, new) ==
  old.gain_lock_since = Null \/ new.gain_lock_since > old.gain_lock_since

(* Mutant of GainLockPct: the floor as written, for the same holding too.  *)
GainLockAsWritten(old, new) ==
  IF new.gain_lock_since = Null THEN old.gain_lock_pct ELSE new.gain_lock_pct

GainLockPct(old, new) ==
  IF new.gain_lock_since = Null THEN old.gain_lock_pct
  ELSE IF NewerLock(old, new) THEN new.gain_lock_pct
  ELSE IF new.gain_lock_since = old.gain_lock_since
       THEN Greatest(old.gain_lock_pct, new.gain_lock_pct)
  ELSE old.gain_lock_pct

(* Mutant of GainLockSince: a write with no lock clears the holding.       *)
GainLockSinceAsWritten(old, new) ==
  IF new.gain_lock_since = Null \/ NewerLock(old, new)
  THEN new.gain_lock_since ELSE old.gain_lock_since

GainLockSince(old, new) ==
  IF new.gain_lock_since # Null /\ NewerLock(old, new)
  THEN new.gain_lock_since ELSE old.gain_lock_since

NewerReading(old, new) ==
  /\ new.dca_scale_now_at # Null
  /\ old.dca_scale_now_at = Null \/ new.dca_scale_now_at > old.dca_scale_now_at

(* The CASE of a JSON watch.                                               *)
NewerWatch(old, new) ==
  IF new # Null /\ (old = Null \/ new.at > old.at) THEN new ELSE old

LowerLow(old, new) ==
  IF new = Null THEN old
  ELSE IF old = Null \/ new.holdingSince > old.holdingSince THEN new
  ELSE IF new.holdingSince = old.holdingSince /\ new.price < old.price THEN new
  ELSE old

(* The INSERT, or the ON CONFLICT (id) DO UPDATE over the row it finds.    *)
Upsert(old, new) ==
  IF old = Null THEN new
  ELSE [rest |-> new.rest,
        break_even_armed |-> old.break_even_armed \/ new.break_even_armed,
        entry_score      |-> Coalesce(old.entry_score, new.entry_score),
        dca_scale        |-> Coalesce(old.dca_scale, new.dca_scale),
        gain_lock_pct    |-> GainLockPct(old, new),
        gain_lock_since  |-> GainLockSince(old, new),
        dca_scale_now    |-> IF NewerReading(old, new) THEN new.dca_scale_now ELSE old.dca_scale_now,
        dca_scale_now_at |-> IF NewerReading(old, new) THEN new.dca_scale_now_at ELSE old.dca_scale_now_at,
        liquidity_watch  |-> NewerWatch(old.liquidity_watch, new.liquidity_watch),
        price_low        |-> LowerLow(old.price_low, new.price_low),
        dip_watch        |-> NewerWatch(old.dip_watch, new.dip_watch)]

(* loadPositions: the row read back, the lock and the reading only whole.  *)
Loaded(c) ==
  LET lock    == c.gain_lock_pct # Null /\ c.gain_lock_since # Null
      reading == c.dca_scale_now # Null /\ c.dca_scale_now_at # Null
  IN  [rest |-> c.rest, breakEvenArmed |-> c.break_even_armed,
       entryScore |-> c.entry_score, dcaScale |-> c.dca_scale,
       gainLock |-> IF lock THEN [pct |-> c.gain_lock_pct, since |-> c.gain_lock_since] ELSE Null,
       dcaScaleNow   |-> IF reading THEN c.dca_scale_now ELSE Null,
       dcaScaleNowAt |-> IF reading THEN c.dca_scale_now_at ELSE Null,
       liquidityWatch |-> c.liquidity_watch, priceLow |-> c.price_low,
       dipWatch |-> c.dip_watch]

-----------------------------------------------------------------------------
Init == kept = Null /\ columns = Null

SavePosition(p) ==
  /\ kept' = MergeSavedPosition(kept, p)
  /\ columns' = Upsert(columns, Bound(p))

(* The slot is retired. A stale snapshot saved afterwards makes the row    *)
(* anew, with that snapshot's ratchets.                                    *)
ClosePosition ==
  /\ kept # Null
  /\ kept' = Null
  /\ columns' = Null

Next == (\E p \in Writes : SavePosition(p)) \/ ClosePosition

Spec == Init /\ [][Next]_vars

-----------------------------------------------------------------------------
(* A pair of columns is written together or not at all.                    *)
Whole(c) ==
  /\ (c.gain_lock_pct = Null) = (c.gain_lock_since = Null)
  /\ (c.dca_scale_now = Null) = (c.dca_scale_now_at = Null)

WholeColumns == {c \in Columns : Whole(c)}

(* Type correctness of both copies, the row's pairs whole: a floor with no *)
(* holding, or a scale with no time, would be read back as nothing.        *)
TypeOK ==
  /\ kept \in Positions \cup {Null}
  /\ columns \in WholeColumns \cup {Null}

(* The memory store, the engine's book and the database never drift: after *)
(* any sequence of saves and closes, from snapshots however stale, the row *)
(* read back from the table is the position kept in memory.                *)
StoresAgree == kept = IF columns = Null THEN Null ELSE Loaded(columns)

(* A row that lives on may lose none of what its ratchets hold: the flag   *)
(* stays armed, a baseline once measured stays, the lock keeps its holding *)
(* or moves to a newer one and never falls for the same, the low never     *)
(* rises for the same holding, and no watch goes back in time.             *)
NotOlder(old, new) == old # Null => new # Null /\ (new = old \/ new.at > old.at)

LockHolds(old, new) ==
  old # Null =>
    /\ new # Null
    /\ \/ new.since > old.since
       \/ new.since = old.since /\ new.pct >= old.pct

LowHolds(old, new) ==
  old # Null =>
    /\ new # Null
    /\ \/ new.holdingSince > old.holdingSince
       \/ new.holdingSince = old.holdingSince /\ new.price <= old.price

RatchetsHoldFrom(old, new) ==
  /\ old.breakEvenArmed => new.breakEvenArmed
  /\ old.entryScore # Null => new.entryScore = old.entryScore
  /\ old.dcaScale # Null => new.dcaScale = old.dcaScale
  /\ LockHolds(old.gainLock, new.gainLock)
  /\ LowHolds(old.priceLow, new.priceLow)
  /\ NotOlder(old.liquidityWatch, new.liquidityWatch)
  /\ NotOlder(old.dipWatch, new.dipWatch)
  /\ NotOlder(ReadingOf(old), ReadingOf(new))

NothingIsLoosened ==
  [][kept # Null /\ kept' # Null => RatchetsHoldFrom(kept, kept')]_vars
=============================================================================
