------------------------ MODULE PositionMerge_proofs ------------------------
(***************************************************************************)
(* The TypeScript merge and the SQL upsert keep the same position, for any *)
(* values and any sequence of saves and closes, and neither loosens what a *)
(* row's ratchets hold.                                                    *)
(*                                                                         *)
(* The argument follows one field at a time: a pair of columns is read     *)
(* back as the lock or the reading it stands for, and each SQL rule, seen  *)
(* through that reading, is the TypeScript rule. A row whose pairs are     *)
(* whole stays whole, which is what makes the reading faithful.            *)
(***************************************************************************)
EXTENDS PositionMerge, TLAPS

LockOf(c) ==
  IF c.gain_lock_pct # Null /\ c.gain_lock_since # Null
  THEN [pct |-> c.gain_lock_pct, since |-> c.gain_lock_since] ELSE Null

ColumnReading(c) ==
  IF c.dca_scale_now # Null /\ c.dca_scale_now_at # Null
  THEN [body |-> c.dca_scale_now, at |-> c.dca_scale_now_at] ELSE Null

-----------------------------------------------------------------------------
(* The parameters of a save are a row with whole pairs.                    *)
LEMMA BoundIsWhole ==
  ASSUME NEW p \in Positions
  PROVE  Bound(p) \in WholeColumns
BY PositionMergeAssumption
   DEF Bound, WholeColumns, Whole, Columns, Positions, Optional, GainLocks

(* What is read back from a row is a position.                             *)
LEMMA LoadedIsPosition ==
  ASSUME NEW c \in WholeColumns
  PROVE  Loaded(c) \in Positions
BY PositionMergeAssumption
   DEF Loaded, WholeColumns, Whole, Columns, Positions, Optional, GainLocks

(* A value that is present is an integer.                                  *)
LEMMA PresentIsInt ==
  /\ \A v \in Optional(Values) : v # Null => v \in Values /\ v \in Int
  /\ \A t \in Optional(Times) : t # Null => t \in Times /\ t \in Int
BY PositionMergeAssumption DEF Optional

(* The lock a whole pair of columns stands for.                            *)
LEMMA LockOfPair ==
  ASSUME NEW c \in WholeColumns, c.gain_lock_since # Null
  PROVE  /\ c.gain_lock_pct \in Int /\ c.gain_lock_since \in Int
         /\ c.gain_lock_pct # Null
         /\ LockOf(c) = [pct |-> c.gain_lock_pct, since |-> c.gain_lock_since]
         /\ LockOf(c) # Null
<1>1. /\ c.gain_lock_pct \in Optional(Values) /\ c.gain_lock_since \in Optional(Times)
      /\ c.gain_lock_pct # Null
  BY DEF WholeColumns, Whole, Columns
<1>2. c.gain_lock_pct \in Values /\ c.gain_lock_since \in Times
  BY <1>1, PresentIsInt
<1>3. LockOf(c) = [pct |-> c.gain_lock_pct, since |-> c.gain_lock_since]
  BY <1>1 DEF LockOf
<1>4. LockOf(c) \in GainLocks
  BY <1>2, <1>3 DEF GainLocks
<1> QED
  BY <1>1, <1>2, <1>3, <1>4, PresentIsInt, PositionMergeAssumption

(* The two gain-lock CASEs, read as a pair, are keepGainLock, and the pair *)
(* they write is whole.                                                    *)
LEMMA LockAgrees ==
  ASSUME NEW old \in WholeColumns, NEW new \in WholeColumns,
         NEW up \in Columns,
         up.gain_lock_pct = GainLockPct(old, new),
         up.gain_lock_since = GainLockSince(old, new)
  PROVE  /\ (up.gain_lock_pct = Null) = (up.gain_lock_since = Null)
         /\ LockOf(up) = KeepGainLock(LockOf(old), LockOf(new))
<1>1. /\ old.gain_lock_pct \in Optional(Values) /\ new.gain_lock_pct \in Optional(Values)
      /\ old.gain_lock_since \in Optional(Times) /\ new.gain_lock_since \in Optional(Times)
      /\ (old.gain_lock_pct = Null) = (old.gain_lock_since = Null)
      /\ (new.gain_lock_pct = Null) = (new.gain_lock_since = Null)
  BY DEF WholeColumns, Whole, Columns
<1>2. CASE new.gain_lock_since = Null
  BY <1>1, <1>2 DEF GainLockPct, GainLockSince, KeepGainLock, LockOf
<1>3. CASE new.gain_lock_since # Null
  <2>1. /\ new.gain_lock_pct \in Int /\ new.gain_lock_since \in Int
        /\ new.gain_lock_pct # Null
        /\ LockOf(new) = [pct |-> new.gain_lock_pct, since |-> new.gain_lock_since]
        /\ LockOf(new) # Null
    BY <1>3, LockOfPair
  <2>2. CASE old.gain_lock_since = Null
    BY <1>1, <1>3, <2>1, <2>2
       DEF GainLockPct, GainLockSince, NewerLock, KeepGainLock, LockOf
  <2>3. CASE old.gain_lock_since # Null
    <3>1. /\ old.gain_lock_pct \in Int /\ old.gain_lock_since \in Int
          /\ old.gain_lock_pct # Null
          /\ LockOf(old) = [pct |-> old.gain_lock_pct, since |-> old.gain_lock_since]
          /\ LockOf(old) # Null
      BY <2>3, LockOfPair
    <3> QED
      BY <1>3, <2>1, <2>3, <3>1
         DEF GainLockPct, GainLockSince, NewerLock, Greatest, KeepGainLock, LockOf
  <2> QED
    BY <2>2, <2>3
<1> QED
  BY <1>2, <1>3

(* The reading a whole pair of columns stands for.                         *)
LEMMA ReadingOfPair ==
  ASSUME NEW c \in WholeColumns, c.dca_scale_now_at # Null
  PROVE  /\ c.dca_scale_now \in Int /\ c.dca_scale_now_at \in Int
         /\ c.dca_scale_now # Null
         /\ ColumnReading(c) = [body |-> c.dca_scale_now, at |-> c.dca_scale_now_at]
         /\ ColumnReading(c) # Null
<1>1. /\ c.dca_scale_now \in Optional(Values) /\ c.dca_scale_now_at \in Optional(Times)
      /\ c.dca_scale_now # Null
  BY DEF WholeColumns, Whole, Columns
<1>2. c.dca_scale_now \in Values /\ c.dca_scale_now_at \in Times
  BY <1>1, PresentIsInt
<1>3. ColumnReading(c) = [body |-> c.dca_scale_now, at |-> c.dca_scale_now_at]
  BY <1>1 DEF ColumnReading
<1>4. ColumnReading(c) \in Watches
  BY <1>2, <1>3 DEF Watches
<1> QED
  BY <1>1, <1>2, <1>3, <1>4, PresentIsInt, PositionMergeAssumption

(* The two CASEs of the real-time scale, read as a pair, keep the newer.   *)
LEMMA ReadingAgrees ==
  ASSUME NEW old \in WholeColumns, NEW new \in WholeColumns,
         NEW up \in Columns,
         up.dca_scale_now = (IF NewerReading(old, new) THEN new.dca_scale_now ELSE old.dca_scale_now),
         up.dca_scale_now_at = (IF NewerReading(old, new) THEN new.dca_scale_now_at ELSE old.dca_scale_now_at)
  PROVE  /\ (up.dca_scale_now = Null) = (up.dca_scale_now_at = Null)
         /\ ColumnReading(up) = KeepNewer(ColumnReading(old), ColumnReading(new))
<1>1. /\ (old.dca_scale_now = Null) = (old.dca_scale_now_at = Null)
      /\ (new.dca_scale_now = Null) = (new.dca_scale_now_at = Null)
  BY DEF WholeColumns, Whole
<1>2. CASE new.dca_scale_now_at = Null
  BY <1>1, <1>2 DEF NewerReading, KeepNewer, ColumnReading
<1>3. CASE new.dca_scale_now_at # Null
  <2>1. /\ new.dca_scale_now_at \in Int /\ new.dca_scale_now # Null
        /\ ColumnReading(new) = [body |-> new.dca_scale_now, at |-> new.dca_scale_now_at]
        /\ ColumnReading(new) # Null
    BY <1>3, ReadingOfPair
  <2>2. CASE old.dca_scale_now_at = Null
    BY <1>1, <1>3, <2>1, <2>2 DEF NewerReading, KeepNewer, ColumnReading
  <2>3. CASE old.dca_scale_now_at # Null
    <3>1. /\ old.dca_scale_now_at \in Int /\ old.dca_scale_now # Null
          /\ ColumnReading(old) = [body |-> old.dca_scale_now, at |-> old.dca_scale_now_at]
          /\ ColumnReading(old) # Null
      BY <2>3, ReadingOfPair
    <3> QED
      BY <1>3, <2>1, <2>3, <3>1 DEF NewerReading, KeepNewer, ColumnReading
  <2> QED
    BY <2>2, <2>3
<1> QED
  BY <1>2, <1>3

(* The upsert writes a row with whole pairs.                               *)
LEMMA UpsertIsWhole ==
  ASSUME NEW old \in WholeColumns, NEW new \in WholeColumns
  PROVE  Upsert(old, new) \in WholeColumns
<1> DEFINE up == Upsert(old, new)
<1>1. old # Null /\ old \in Columns /\ new \in Columns
  BY PositionMergeAssumption DEF WholeColumns
<1>2. up \in Columns
  BY <1>1 DEF Upsert, Columns, Coalesce, Greatest, GainLockPct, GainLockSince,
              NewerWatch, LowerLow
<1>3. /\ up.gain_lock_pct = GainLockPct(old, new)
      /\ up.gain_lock_since = GainLockSince(old, new)
      /\ up.dca_scale_now = (IF NewerReading(old, new) THEN new.dca_scale_now ELSE old.dca_scale_now)
      /\ up.dca_scale_now_at = (IF NewerReading(old, new) THEN new.dca_scale_now_at ELSE old.dca_scale_now_at)
  BY <1>1 DEF Upsert
<1>4. Whole(up)
  BY <1>2, <1>3, LockAgrees, ReadingAgrees DEF Whole
<1> QED
  BY <1>2, <1>4 DEF WholeColumns

(* A position, its real-time scale given as a whole reading.               *)
Position(rest, armed, entryScore, dcaScale, lock, reading, liquidity, low, dip) ==
  [rest |-> rest, breakEvenArmed |-> armed,
   entryScore |-> entryScore, dcaScale |-> dcaScale, gainLock |-> lock,
   dcaScaleNow   |-> IF reading = Null THEN Null ELSE reading.body,
   dcaScaleNowAt |-> IF reading = Null THEN Null ELSE reading.at,
   liquidityWatch |-> liquidity, priceLow |-> low, dipWatch |-> dip]

(* The position read back from a row.                                      *)
LEMMA LoadedAs ==
  ASSUME NEW c \in WholeColumns
  PROVE  Loaded(c) = Position(c.rest, c.break_even_armed, c.entry_score, c.dca_scale,
                              LockOf(c), ColumnReading(c),
                              c.liquidity_watch, c.price_low, c.dip_watch)
<1>1. (c.dca_scale_now = Null) = (c.dca_scale_now_at = Null)
  BY DEF WholeColumns, Whole
<1>2. CASE c.dca_scale_now_at = Null
  BY <1>1, <1>2 DEF Loaded, Position, LockOf, ColumnReading
<1>3. CASE c.dca_scale_now_at # Null
  BY <1>1, <1>3, ReadingOfPair DEF Loaded, Position, LockOf
<1> QED
  BY <1>2, <1>3

(* The reading of a position is the pair it was given.                     *)
LEMMA ReadingOfLoaded ==
  ASSUME NEW c \in WholeColumns
  PROVE  ReadingOf(Loaded(c)) = ColumnReading(c)
BY DEF ReadingOf, Loaded, ColumnReading

(* The parameters of a save stand for the position's own lock and reading. *)
LEMMA BoundPairs ==
  ASSUME NEW p \in Positions
  PROVE  /\ LockOf(Bound(p)) = p.gainLock
         /\ ColumnReading(Bound(p)) = ReadingOf(p)
<1>1. ColumnReading(Bound(p)) = ReadingOf(p)
  BY DEF ColumnReading, Bound, ReadingOf
<1>2. LockOf(Bound(p)) = p.gainLock
  <2>1. CASE p.gainLock = Null
    BY <2>1 DEF LockOf, Bound
  <2>2. CASE p.gainLock # Null
    <3>1. p.gainLock \in Optional(GainLocks)
      BY DEF Positions
    <3>2. p.gainLock \in GainLocks
      BY <2>2, <3>1 DEF Optional
    <3>3. p.gainLock.pct \in Values /\ p.gainLock.since \in Times
      BY <3>2 DEF GainLocks
    <3>4. p.gainLock.pct # Null /\ p.gainLock.since # Null
      BY <3>3, PositionMergeAssumption
    <3>5. LockOf(Bound(p)) = [pct |-> p.gainLock.pct, since |-> p.gainLock.since]
      BY <2>2, <3>4 DEF LockOf, Bound
    <3> QED
      BY <3>2, <3>5 DEF GainLocks
  <2> QED
    BY <2>1, <2>2
<1> QED
  BY <1>1, <1>2

(* The merge, field by field.                                              *)
LEMMA MergeAs ==
  ASSUME NEW stored \in Positions, NEW p \in Positions
  PROVE  MergeSavedPosition(stored, p) =
           Position(p.rest, stored.breakEvenArmed \/ p.breakEvenArmed,
                    FirstOf(stored.entryScore, p.entryScore),
                    FirstOf(stored.dcaScale, p.dcaScale),
                    KeepGainLock(stored.gainLock, p.gainLock),
                    KeepNewer(ReadingOf(stored), ReadingOf(p)),
                    KeepNewer(stored.liquidityWatch, p.liquidityWatch),
                    KeepPriceLow(stored.priceLow, p.priceLow),
                    KeepNewer(stored.dipWatch, p.dipWatch))
<1>1. stored # Null
  BY PositionMergeAssumption
<1> QED
  BY <1>1 DEF MergeSavedPosition, WithReading, Position, Positions

(* What a first save keeps, in both: the position, its pairs whole.        *)
LEMMA FirstSaveAgrees ==
  ASSUME NEW p \in Positions
  PROVE  Loaded(Upsert(Null, Bound(p))) = MergeSavedPosition(Null, p)
<1> DEFINE c == Bound(p)
<1>1. Upsert(Null, c) = c
  BY DEF Upsert
<1>2. Loaded(c) = Position(p.rest, p.breakEvenArmed, p.entryScore, p.dcaScale,
                           p.gainLock, ReadingOf(p),
                           p.liquidityWatch, p.priceLow, p.dipWatch)
  <2>1. /\ c.rest = p.rest /\ c.break_even_armed = p.breakEvenArmed
        /\ c.entry_score = p.entryScore /\ c.dca_scale = p.dcaScale
        /\ c.liquidity_watch = p.liquidityWatch /\ c.price_low = p.priceLow
        /\ c.dip_watch = p.dipWatch
    BY DEF Bound
  <2> QED
    BY <2>1, BoundIsWhole, BoundPairs, LoadedAs
<1>3. MergeSavedPosition(Null, p)
        = Position(p.rest, p.breakEvenArmed, p.entryScore, p.dcaScale,
                   p.gainLock, ReadingOf(p),
                   p.liquidityWatch, p.priceLow, p.dipWatch)
  BY DEF MergeSavedPosition, WithReading, Position, Positions
<1> QED
  BY <1>1, <1>2, <1>3

(* What any later save keeps, in both.                                     *)
LEMMA SaveAgrees ==
  ASSUME NEW old \in WholeColumns, NEW p \in Positions
  PROVE  Loaded(Upsert(old, Bound(p))) = MergeSavedPosition(Loaded(old), p)
<1> DEFINE new == Bound(p)
           up == Upsert(old, new)
           was == Loaded(old)
<1>1. new \in WholeColumns /\ up \in WholeColumns /\ up \in Columns /\ old # Null
  BY BoundIsWhole, UpsertIsWhole, PositionMergeAssumption DEF WholeColumns
<1>2. /\ was.breakEvenArmed = old.break_even_armed
      /\ was.entryScore = old.entry_score /\ was.dcaScale = old.dca_scale
      /\ was.gainLock = LockOf(old)
      /\ was.liquidityWatch = old.liquidity_watch /\ was.priceLow = old.price_low
      /\ was.dipWatch = old.dip_watch
  BY DEF Loaded, LockOf
<1>3. /\ new.rest = p.rest /\ new.break_even_armed = p.breakEvenArmed
      /\ new.entry_score = p.entryScore /\ new.dca_scale = p.dcaScale
      /\ new.liquidity_watch = p.liquidityWatch /\ new.price_low = p.priceLow
      /\ new.dip_watch = p.dipWatch
  BY DEF Bound
<1>4. /\ up.gain_lock_pct = GainLockPct(old, new)
      /\ up.gain_lock_since = GainLockSince(old, new)
      /\ up.dca_scale_now = (IF NewerReading(old, new) THEN new.dca_scale_now ELSE old.dca_scale_now)
      /\ up.dca_scale_now_at = (IF NewerReading(old, new) THEN new.dca_scale_now_at ELSE old.dca_scale_now_at)
  BY <1>1 DEF Upsert
<1>5. LockOf(up) = KeepGainLock(was.gainLock, p.gainLock)
  BY <1>1, <1>2, <1>4, LockAgrees, BoundPairs
<1>6. ColumnReading(up) = KeepNewer(ReadingOf(was), ReadingOf(p))
  BY <1>1, <1>4, ReadingAgrees, ReadingOfLoaded, BoundPairs
<1>7. /\ up.rest = p.rest
      /\ up.break_even_armed = (was.breakEvenArmed \/ p.breakEvenArmed)
      /\ up.entry_score = FirstOf(was.entryScore, p.entryScore)
      /\ up.dca_scale = FirstOf(was.dcaScale, p.dcaScale)
      /\ up.liquidity_watch = KeepNewer(was.liquidityWatch, p.liquidityWatch)
      /\ up.price_low = KeepPriceLow(was.priceLow, p.priceLow)
      /\ up.dip_watch = KeepNewer(was.dipWatch, p.dipWatch)
  <2>1. /\ up.rest = new.rest
        /\ up.break_even_armed = (old.break_even_armed \/ new.break_even_armed)
        /\ up.entry_score = Coalesce(old.entry_score, new.entry_score)
        /\ up.dca_scale = Coalesce(old.dca_scale, new.dca_scale)
        /\ up.liquidity_watch = NewerWatch(old.liquidity_watch, new.liquidity_watch)
        /\ up.price_low = LowerLow(old.price_low, new.price_low)
        /\ up.dip_watch = NewerWatch(old.dip_watch, new.dip_watch)
    BY <1>1 DEF Upsert
  <2> QED
    BY <2>1, <1>2, <1>3
       DEF Coalesce, FirstOf, NewerWatch, KeepNewer, LowerLow, KeepPriceLow
<1>8. Loaded(up) = Position(p.rest, was.breakEvenArmed \/ p.breakEvenArmed,
                            FirstOf(was.entryScore, p.entryScore),
                            FirstOf(was.dcaScale, p.dcaScale),
                            KeepGainLock(was.gainLock, p.gainLock),
                            KeepNewer(ReadingOf(was), ReadingOf(p)),
                            KeepNewer(was.liquidityWatch, p.liquidityWatch),
                            KeepPriceLow(was.priceLow, p.priceLow),
                            KeepNewer(was.dipWatch, p.dipWatch))
  BY <1>1, <1>5, <1>6, <1>7, LoadedAs
<1> QED
  BY <1>8, LoadedIsPosition, MergeAs

-----------------------------------------------------------------------------
(* The inductive invariant: both copies well typed, and agreeing.          *)
IInv == TypeOK /\ StoresAgree

LEMMA InitEstablishes == Init => IInv
BY DEF Init, IInv, TypeOK, StoresAgree

LEMMA SaveKeeps ==
  ASSUME IInv, NEW p \in Writes, SavePosition(p)
  PROVE  IInv'
<1>1. p \in Positions /\ Bound(p) \in WholeColumns
  BY BoundIsWhole, PositionMergeAssumption
<1>2. kept' = MergeSavedPosition(kept, p) /\ columns' = Upsert(columns, Bound(p))
  BY DEF SavePosition
<1>3. columns' \in WholeColumns
  <2>1. CASE columns = Null
    BY <1>1, <1>2, <2>1 DEF Upsert
  <2>2. CASE columns # Null
    BY <1>1, <1>2, <2>2, UpsertIsWhole DEF IInv, TypeOK
  <2> QED
    BY <2>1, <2>2
<1>4. kept' = Loaded(columns')
  <2>1. CASE columns = Null
    BY <1>1, <1>2, <2>1, FirstSaveAgrees DEF IInv, StoresAgree
  <2>2. CASE columns # Null
    BY <1>1, <1>2, <2>2, SaveAgrees DEF IInv, TypeOK, StoresAgree
  <2> QED
    BY <2>1, <2>2
<1>5. columns' # Null
  BY <1>3, PositionMergeAssumption DEF WholeColumns
<1>6. kept' \in Positions
  BY <1>3, <1>4, LoadedIsPosition
<1> QED
  BY <1>3, <1>4, <1>5, <1>6 DEF IInv, TypeOK, StoresAgree

LEMMA NextKeeps == IInv /\ [Next]_vars => IInv'
<1> SUFFICES ASSUME IInv, [Next]_vars PROVE IInv'
  OBVIOUS
<1>1. ASSUME NEW p \in Writes, SavePosition(p) PROVE IInv'
  BY <1>1, SaveKeeps
<1>2. CASE ClosePosition
  BY <1>2 DEF ClosePosition, IInv, TypeOK, StoresAgree
<1>3. CASE UNCHANGED vars
  BY <1>3 DEF vars, IInv, TypeOK, StoresAgree
<1> QED
  BY <1>1, <1>2, <1>3 DEF Next

LEMMA AlwaysIInv == Spec => []IInv
BY InitEstablishes, NextKeeps, PTL DEF Spec

(* TypeOK: the position and the row are well typed, and the row's pairs of *)
(* columns (the gain lock, the real-time scale) are whole.                 *)
THEOREM TypeCorrect == Spec => []TypeOK
<1>1. IInv => TypeOK
  BY DEF IInv
<1> QED
  BY <1>1, AlwaysIInv, PTL

(* StoresAgree: the TypeScript merge and the SQL upsert keep the same      *)
(* position, after any sequence of saves and closes.                       *)
THEOREM StoresAlwaysAgree == Spec => []StoresAgree
<1>1. IInv => StoresAgree
  BY DEF IInv
<1> QED
  BY <1>1, AlwaysIInv, PTL

-----------------------------------------------------------------------------
(* keepGainLock keeps the lock of the same holding at or over what it was, *)
(* or moves to a newer holding's.                                          *)
LEMMA LockRatchet ==
  ASSUME NEW old \in Optional(GainLocks), NEW new \in Optional(GainLocks)
  PROVE  LockHolds(old, KeepGainLock(old, new))
<1>1. CASE old = Null
  BY <1>1 DEF LockHolds
<1>2. CASE new = Null
  <2>1. CASE old # Null
    <3>1. old.pct \in Values /\ old.since \in Times
      BY <2>1 DEF Optional, GainLocks
    <3>2. old.pct \in Int /\ old.since \in Int
      BY <3>1, PositionMergeAssumption
    <3> QED
      BY <1>2, <2>1, <3>2 DEF LockHolds, KeepGainLock
  <2> QED
    BY <1>1, <2>1
<1>3. CASE old # Null /\ new # Null
  <2>1. old.pct \in Values /\ old.since \in Times /\ new.pct \in Values /\ new.since \in Times
    BY <1>3 DEF Optional, GainLocks
  <2>2. old.pct \in Int /\ old.since \in Int /\ new.pct \in Int /\ new.since \in Int
    BY <2>1, PositionMergeAssumption
  <2> QED
    BY <1>3, <2>2 DEF LockHolds, KeepGainLock
<1> QED
  BY <1>1, <1>2, <1>3

(* keepPriceLow never raises the low of a holding.                         *)
LEMMA LowRatchet ==
  ASSUME NEW old \in Optional(PriceLows), NEW new \in Optional(PriceLows)
  PROVE  LowHolds(old, KeepPriceLow(old, new))
<1>1. CASE old = Null
  BY <1>1 DEF LowHolds
<1>2. CASE new = Null
  <2>1. CASE old # Null
    <3>1. old.price \in Values /\ old.holdingSince \in Times
      BY <2>1 DEF Optional, PriceLows
    <3>2. old.price \in Int /\ old.holdingSince \in Int
      BY <3>1, PositionMergeAssumption
    <3> QED
      BY <1>2, <2>1, <3>2 DEF LowHolds, KeepPriceLow
  <2> QED
    BY <1>1, <2>1
<1>3. CASE old # Null /\ new # Null
  <2>1. /\ old.price \in Values /\ old.holdingSince \in Times
        /\ new.price \in Values /\ new.holdingSince \in Times
    BY <1>3 DEF Optional, PriceLows
  <2>2. /\ old.price \in Int /\ old.holdingSince \in Int
        /\ new.price \in Int /\ new.holdingSince \in Int
    BY <2>1, PositionMergeAssumption
  <2> QED
    BY <1>3, <2>2 DEF LowHolds, KeepPriceLow
<1> QED
  BY <1>1, <1>2, <1>3

(* The newer of two watches is never older than the first.                 *)
LEMMA WatchRatchet ==
  ASSUME NEW old, NEW new
  PROVE  NotOlder(old, KeepNewer(old, new))
BY DEF NotOlder, KeepNewer

(* A reading is a whole pair, or none.                                     *)
LEMMA ReadingType ==
  ASSUME NEW p \in Positions
  PROVE  ReadingOf(p) \in Optional(Watches)
<1>1. p.dcaScaleNow \in Optional(Values) /\ p.dcaScaleNowAt \in Optional(Times)
  BY DEF Positions
<1>2. CASE p.dcaScaleNow # Null /\ p.dcaScaleNowAt # Null
  <2>1. p.dcaScaleNow \in Values /\ p.dcaScaleNowAt \in Times
    BY <1>1, <1>2, PresentIsInt
  <2> QED
    BY <1>2, <2>1 DEF ReadingOf, Optional, Watches
<1>3. CASE ~(p.dcaScaleNow # Null /\ p.dcaScaleNowAt # Null)
  BY <1>3 DEF ReadingOf, Optional
<1> QED
  BY <1>2, <1>3

(* One save over a kept position loosens nothing.                          *)
LEMMA MergeLoosensNothing ==
  ASSUME NEW stored \in Positions, NEW p \in Positions
  PROVE  RatchetsHoldFrom(stored, MergeSavedPosition(stored, p))
<1> DEFINE m == MergeSavedPosition(stored, p)
           reading == KeepNewer(ReadingOf(stored), ReadingOf(p))
<1>1. /\ m.breakEvenArmed = (stored.breakEvenArmed \/ p.breakEvenArmed)
      /\ m.entryScore = FirstOf(stored.entryScore, p.entryScore)
      /\ m.dcaScale = FirstOf(stored.dcaScale, p.dcaScale)
      /\ m.gainLock = KeepGainLock(stored.gainLock, p.gainLock)
      /\ m.priceLow = KeepPriceLow(stored.priceLow, p.priceLow)
      /\ m.liquidityWatch = KeepNewer(stored.liquidityWatch, p.liquidityWatch)
      /\ m.dipWatch = KeepNewer(stored.dipWatch, p.dipWatch)
      /\ m.dcaScaleNow = IF reading = Null THEN Null ELSE reading.body
      /\ m.dcaScaleNowAt = IF reading = Null THEN Null ELSE reading.at
  BY MergeAs DEF Position
<1>2. /\ stored.gainLock \in Optional(GainLocks) /\ p.gainLock \in Optional(GainLocks)
      /\ stored.priceLow \in Optional(PriceLows) /\ p.priceLow \in Optional(PriceLows)
  BY DEF Positions
<1>3. LockHolds(stored.gainLock, m.gainLock) /\ LowHolds(stored.priceLow, m.priceLow)
  BY <1>1, <1>2, LockRatchet, LowRatchet
<1>4. ReadingOf(m) = reading
  <2>1. reading \in Optional(Watches)
    BY ReadingType DEF KeepNewer
  <2>2. CASE reading = Null
    BY <1>1, <2>2 DEF ReadingOf
  <2>3. CASE reading # Null
    <3>1. reading \in Watches
      BY <2>1, <2>3 DEF Optional
    <3>2. /\ reading.body # Null /\ reading.at # Null
          /\ reading = [body |-> reading.body, at |-> reading.at]
      BY <3>1, PositionMergeAssumption DEF Watches
    <3> QED
      BY <1>1, <2>3, <3>2 DEF ReadingOf
  <2> QED
    BY <2>2, <2>3
<1>5. /\ NotOlder(stored.liquidityWatch, m.liquidityWatch)
      /\ NotOlder(stored.dipWatch, m.dipWatch)
      /\ NotOlder(ReadingOf(stored), ReadingOf(m))
  BY <1>1, <1>4, WatchRatchet
<1> QED
  BY <1>1, <1>3, <1>5 DEF RatchetsHoldFrom, FirstOf

(* NothingIsLoosened: whatever snapshot a step saves, a row that lives on  *)
(* keeps its armed flag, its baselines, its lock, its low and its watches. *)
THEOREM NothingIsEverLoosened == Spec => NothingIsLoosened
<1>1. IInv /\ [Next]_vars => [kept # Null /\ kept' # Null => RatchetsHoldFrom(kept, kept')]_vars
  <2> SUFFICES ASSUME IInv, Next, kept # Null, kept' # Null
               PROVE  RatchetsHoldFrom(kept, kept')
    OBVIOUS
  <2>1. kept \in Positions
    BY DEF IInv, TypeOK
  <2>2. PICK p \in Writes : SavePosition(p)
    BY DEF Next, ClosePosition
  <2> QED
    BY <2>1, <2>2, MergeLoosensNothing, PositionMergeAssumption DEF SavePosition
<1> QED
  BY <1>1, AlwaysIInv, PTL DEF Spec, NothingIsLoosened

-----------------------------------------------------------------------------
(* Each rule, applied again to the same write, changes nothing.            *)
LEMMA LockAgain ==
  ASSUME NEW old \in Optional(GainLocks), NEW new \in Optional(GainLocks)
  PROVE  KeepGainLock(KeepGainLock(old, new), new) = KeepGainLock(old, new)
<1>1. CASE new = Null
  BY <1>1 DEF KeepGainLock
<1>2. CASE new # Null
  <2>1. new.pct \in Values /\ new.since \in Times
    BY <1>2 DEF Optional, GainLocks
  <2>2. new.pct \in Int /\ new.since \in Int
    BY <2>1, PositionMergeAssumption
  <2> QED
    BY <1>2, <2>2 DEF KeepGainLock
<1> QED
  BY <1>1, <1>2

LEMMA LowAgain ==
  ASSUME NEW old \in Optional(PriceLows), NEW new \in Optional(PriceLows)
  PROVE  KeepPriceLow(KeepPriceLow(old, new), new) = KeepPriceLow(old, new)
<1>1. CASE new = Null
  BY <1>1 DEF KeepPriceLow
<1>2. CASE new # Null
  <2>1. new.price \in Values /\ new.holdingSince \in Times
    BY <1>2 DEF Optional, PriceLows
  <2>2. new.price \in Int /\ new.holdingSince \in Int
    BY <2>1, PositionMergeAssumption
  <2> QED
    BY <1>2, <2>2 DEF KeepPriceLow
<1> QED
  BY <1>1, <1>2

LEMMA NewerAgain ==
  ASSUME NEW old, NEW new
  PROVE  KeepNewer(KeepNewer(old, new), new) = KeepNewer(old, new)
BY DEF KeepNewer

(* The merge of two positions is a position.                               *)
LEMMA MergeIsPosition ==
  ASSUME NEW stored \in Positions, NEW p \in Positions
  PROVE  /\ MergeSavedPosition(stored, p) \in Positions
         /\ ReadingOf(MergeSavedPosition(stored, p)) = KeepNewer(ReadingOf(stored), ReadingOf(p))
<1> DEFINE m == MergeSavedPosition(stored, p)
           reading == KeepNewer(ReadingOf(stored), ReadingOf(p))
<1>1. reading \in Optional(Watches)
  BY ReadingType DEF KeepNewer
<1>2. CASE reading = Null
  <2>1. m.dcaScaleNow = Null /\ m.dcaScaleNowAt = Null
    BY <1>2, MergeAs DEF Position
  <2>2. ReadingOf(m) = reading
    BY <1>2, <2>1 DEF ReadingOf
  <2>3. m \in Positions
    BY <1>2, MergeAs
       DEF Position, Positions, Optional, FirstOf, KeepGainLock, KeepNewer, KeepPriceLow
  <2> QED
    BY <2>2, <2>3
<1>3. CASE reading # Null
  <2>1. reading \in Watches
    BY <1>1, <1>3 DEF Optional
  <2>2. /\ reading.body \in Values /\ reading.at \in Times
        /\ reading.body # Null /\ reading.at # Null
        /\ reading = [body |-> reading.body, at |-> reading.at]
    BY <2>1, PositionMergeAssumption DEF Watches
  <2>3. m.dcaScaleNow = reading.body /\ m.dcaScaleNowAt = reading.at
    BY <1>3, MergeAs DEF Position
  <2>4. ReadingOf(m) = reading
    BY <2>2, <2>3 DEF ReadingOf
  <2>5. m \in Positions
    BY <1>3, <2>2, MergeAs
       DEF Position, Positions, Optional, FirstOf, KeepGainLock, KeepNewer, KeepPriceLow
  <2> QED
    BY <2>4, <2>5
<1> QED
  BY <1>2, <1>3

(* A save written twice, or read by a load and folded over it, keeps what  *)
(* one does: what a cache that cannot know whether its load saw a write    *)
(* rests on.                                                               *)
THEOREM SavingAgainKeeps ==
  ASSUME NEW stored \in Positions, NEW p \in Positions
  PROVE  MergeSavedPosition(MergeSavedPosition(stored, p), p) = MergeSavedPosition(stored, p)
<1> DEFINE m == MergeSavedPosition(stored, p)
<1>1. m \in Positions /\ ReadingOf(m) = KeepNewer(ReadingOf(stored), ReadingOf(p))
  BY MergeIsPosition
<1>2. /\ m.breakEvenArmed = (stored.breakEvenArmed \/ p.breakEvenArmed)
      /\ m.entryScore = FirstOf(stored.entryScore, p.entryScore)
      /\ m.dcaScale = FirstOf(stored.dcaScale, p.dcaScale)
      /\ m.gainLock = KeepGainLock(stored.gainLock, p.gainLock)
      /\ m.liquidityWatch = KeepNewer(stored.liquidityWatch, p.liquidityWatch)
      /\ m.priceLow = KeepPriceLow(stored.priceLow, p.priceLow)
      /\ m.dipWatch = KeepNewer(stored.dipWatch, p.dipWatch)
  BY MergeAs DEF Position
<1>3. /\ stored.gainLock \in Optional(GainLocks) /\ p.gainLock \in Optional(GainLocks)
      /\ stored.priceLow \in Optional(PriceLows) /\ p.priceLow \in Optional(PriceLows)
      /\ stored.breakEvenArmed \in BOOLEAN /\ p.breakEvenArmed \in BOOLEAN
  BY DEF Positions
<1>4. /\ KeepGainLock(m.gainLock, p.gainLock) = m.gainLock
      /\ KeepPriceLow(m.priceLow, p.priceLow) = m.priceLow
      /\ KeepNewer(m.liquidityWatch, p.liquidityWatch) = m.liquidityWatch
      /\ KeepNewer(m.dipWatch, p.dipWatch) = m.dipWatch
      /\ KeepNewer(ReadingOf(m), ReadingOf(p)) = ReadingOf(m)
  BY <1>1, <1>2, <1>3, LockAgain, LowAgain, NewerAgain
<1>5. /\ FirstOf(m.entryScore, p.entryScore) = m.entryScore
      /\ FirstOf(m.dcaScale, p.dcaScale) = m.dcaScale
      /\ (m.breakEvenArmed \/ p.breakEvenArmed) = m.breakEvenArmed
  BY <1>2, <1>3 DEF FirstOf
<1>6. MergeSavedPosition(m, p)
        = Position(p.rest, m.breakEvenArmed, m.entryScore, m.dcaScale, m.gainLock,
                   ReadingOf(m), m.liquidityWatch, m.priceLow, m.dipWatch)
  BY <1>1, <1>4, <1>5, MergeAs
<1>7. m = Position(p.rest, m.breakEvenArmed, m.entryScore, m.dcaScale, m.gainLock,
                   ReadingOf(m), m.liquidityWatch, m.priceLow, m.dipWatch)
  BY <1>1, <1>2, MergeAs
<1> QED
  BY <1>6, <1>7
=============================================================================
