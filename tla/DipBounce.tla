----------------------------- MODULE DipBounce -----------------------------
(***************************************************************************)
(* The dip-bounce ladder (domain/strategy/dip-bounce.ts): every buy of a   *)
(* holding waits for a dip under the buy before it and a bounce off the    *)
(* low of that dip, and a fall past a ceiling is a collapse, not a dip.    *)
(*                                                                         *)
(* The sweep (application/stop-sweep.ts) folds each live price it sees     *)
(* into a watch, saves the watch if it moved, buys when it fires, and only *)
(* then saves the watch the buy leaves behind. Each is a write of its own, *)
(* the process may die between any two, and the rest of the cycle saves    *)
(* the row back from snapshots of it.                                      *)
(*                                                                         *)
(* One position. Prices are integers; the rounding room on a line is none. *)
(* The tick buys nothing here: with this ladder on, its doors are shut.    *)
(***************************************************************************)
EXTENDS Integers, Sequences

CONSTANTS
  Prices,       \* the live prices the sweep may see
  Paid(_),      \* what a buy at a price may cost per unit: spread and impact
  DipPct, BouncePct, MaxDipPct, DipStepPct, BounceStepPct,
  LateFrom, LatePct,  \* lateBounceFromDca, 0 when off, and lateBouncePct
  MaxSteps,
  Gap,          \* the clock between two sweeps
  Null,         \* null
  MaxClock,     \* bound: the last instant of a run
  MaxCrashes    \* bound: how many times the process may die

Percentages == {DipPct, BouncePct, MaxDipPct, DipStepPct, BounceStepPct, LatePct}

(* DipWatch: low is null while the watch is not armed.                     *)
Watches == [reference : Nat, low : Nat \cup {Null}, armed : BOOLEAN, at : Int,
            holdingSince : Int \cup {Null}, crashed : BOOLEAN]

ASSUME DipBounceAssumption ==
  /\ Prices \subseteq Nat \ {0}
  /\ \A p \in Prices : Paid(p) \subseteq Nat /\ \A q \in Paid(p) : q >= p
  /\ Percentages \subseteq 0..99 /\ LateFrom \in Nat /\ MaxSteps \in Nat
  /\ DipPct > 0 /\ BouncePct > 0 /\ LatePct > 0
  /\ Gap \in Nat /\ Gap > 1
  /\ Null \notin Int /\ Null \notin Watches
  /\ MaxClock \in Nat /\ MaxCrashes \in Nat

VARIABLES
  clock,     \* the instant of the last sweep
  stored,    \* the row's dipWatch
  snapshot,  \* the dipWatch of the row as some step of the cycle read it
  buys,      \* the holding's buys, oldest first
  newest,    \* the stamp of the newest fill on the tape, -1 when it is empty
  pc, look,  \* where the sweep is, and its locals
  crashes,
  looks      \* history: the prices seen since the last fill

vars == <<clock, stored, snapshot, buys, newest, pc, look, crashes, looks>>

NoLook == [price |-> 0, at |-> 0, watch |-> Null]

-----------------------------------------------------------------------------
(* The lines                                                               *)

(* What the step-th buy asks: each DCA adds its points.                    *)
Dcas(step) == IF step > 2 THEN step - 2 ELSE 0

DipOf(step)    == DipPct + DipStepPct * Dcas(step)
BounceOf(step) == IF LateFrom > 0 /\ step - 1 >= LateFrom THEN LatePct
                  ELSE BouncePct + BounceStepPct * Dcas(step)

(* A ceiling of zero is off, and does not grow into one.                   *)
CeilingOf(step) == IF MaxDipPct > 0 THEN MaxDipPct + DipStepPct * Dcas(step) ELSE 0

AtArmLine(price, reference, step)  == 100 * price <= reference * (100 - DipOf(step))
AtBounceLine(price, low, step)     == 100 * price >= low * (100 + BounceOf(step))

Collapsed(low, reference, step) ==
  CeilingOf(step) > 0 /\ 100 * low < reference * (100 - CeilingOf(step))

-----------------------------------------------------------------------------
(* The watch                                                               *)

Unarmed(reference, at, since) ==
  [reference |-> reference, low |-> Null, armed |-> FALSE, at |-> at,
   holdingSince |-> since, crashed |-> FALSE]

ArmedAt(reference, low, at, since, step) ==
  [reference |-> reference, low |-> low, armed |-> TRUE, at |-> at,
   holdingSince |-> since, crashed |-> Collapsed(low, reference, step)]

Since(held) == IF held = <<>> THEN Null ELSE held[1].time
LastBuy(held) == held[Len(held)]

(* A moved watch is stamped after the one it replaces.                     *)
StampAfter(at, watch) == IF watch = Null \/ at > watch.at THEN at ELSE watch.at + 1

ArmedFor(watch, step) ==
  watch.armed /\ watch.low # Null /\ AtArmLine(watch.low, watch.reference, step)

(* Mutant of Mine: a watch that has not seen the last buy still counts.    *)
MineOrStale(watch, held) == watch # Null /\ watch.holdingSince = Since(held)

(* Only this holding's watch, and only if it saw the last buy.             *)
Mine(watch, held) ==
  /\ watch # Null /\ watch.holdingSince = Since(held)
  /\ held = <<>> \/ watch.at >= LastBuy(held).time

(* One armed under a shallower line waits unarmed off the same reference.  *)
Current(watch, at, held) ==
  IF ~Mine(watch, held) THEN Null
  ELSE IF watch.armed /\ ~ArmedFor(watch, Len(held) + 1)
       THEN Unarmed(watch.reference, at, Since(held))
  ELSE watch

(* The high before the first buy; the last buy after it.                   *)
ReferenceAt(watch, price, held) ==
  IF held = <<>> /\ price > watch.reference THEN price ELSE watch.reference

(* Back at the reference, the dip was undone between two looks.            *)
Undone(price, watch) == price >= watch.reference

(* Armed if this price is at the next step's line, and collapsed at once   *)
(* if it is past the ceiling.                                              *)
From(reference, price, at, held) ==
  IF AtArmLine(price, reference, Len(held) + 1)
  THEN ArmedAt(reference, price, at, Since(held), Len(held) + 1)
  ELSE Unarmed(reference, at, Since(held))

(* An unarmed watch, after this price.                                     *)
Waiting(watch, price, at, held) ==
  LET reference == ReferenceAt(watch, price, held)
  IN  IF reference = watch.reference /\ ~AtArmLine(price, reference, Len(held) + 1)
      THEN watch
      ELSE From(reference, price, at, held)

Lower(watch, price) == IF price < watch.low THEN price ELSE watch.low

Followed(watch, price, at) ==
  IF Lower(watch, price) = watch.low THEN watch
  ELSE [watch EXCEPT !.low = price, !.at = at]

Step(watch, buy) == [watch |-> watch, buy |-> buy]

(* An armed watch, after this price. Out of a collapse the low starts      *)
(* again here.                                                             *)
Falling(watch, price, at, held) ==
  LET step == Len(held) + 1
      low  == Lower(watch, price)
  IN  IF Undone(price, watch)
      THEN Step(Unarmed(ReferenceAt(watch, price, held), at, Since(held)), FALSE)
      ELSE IF watch.crashed
      THEN Step(IF Collapsed(price, watch.reference, step)
                THEN Followed(watch, price, at)
                ELSE From(watch.reference, price, at, held), FALSE)
      ELSE IF Collapsed(low, watch.reference, step)
      THEN Step([watch EXCEPT !.low = low, !.at = at, !.crashed = TRUE], FALSE)
      ELSE Step(Followed(watch, price, at), AtBounceLine(price, low, step))

(* nextDipBounce: one live price folded into the watch, and whether the    *)
(* next step is bought at it. A fresh watch starts at what the last buy    *)
(* paid, or at this price.                                                 *)
NextDipBounce(watch, price, at, held) ==
  LET stamp   == StampAfter(at, watch)
      current == Current(watch, stamp, held)
  IN  IF Len(held) >= MaxSteps THEN Step(watch, FALSE)
      ELSE IF current = Null
      THEN Step(From(IF held = <<>> THEN price ELSE LastBuy(held).price, price, stamp, held), FALSE)
      ELSE IF ~current.armed THEN Step(Waiting(current, price, stamp, held), FALSE)
      ELSE Falling(current, price, stamp, held)

(* Worth a write: anything but a move of the high or the low under 0.1%.   *)
Moved(old, new) == 1000 * (IF new > old THEN new - old ELSE old - new) >= old

WorthWriting(old, new, held) ==
  /\ new # Null
  /\ \/ old = Null
     \/ old.holdingSince # new.holdingSince \/ old.armed # new.armed
     \/ old.crashed # new.crashed
     \/ held # <<>> /\ old.at < LastBuy(held).time
     \/ Moved(old.reference, new.reference)
     \/ new.armed /\ new.low < old.low /\ Moved(old.low, new.low)

WatchAfterBuy(price, boughtAt, since, watch) ==
  Unarmed(price, StampAfter(boughtAt, watch), since)

(* Mutant of Keep: whatever is written.                                    *)
KeepWritten(old, new) == new

(* keepDipWatch: the newer one.                                            *)
Keep(old, new) == IF new # Null /\ (old = Null \/ new.at > old.at) THEN new ELSE old

-----------------------------------------------------------------------------
(* The sweep                                                               *)

Init ==
  /\ clock = 0 /\ crashes = 0 /\ newest = -1
  /\ stored = Null /\ snapshot = Null
  /\ buys = <<>> /\ looks = <<>>
  /\ pc = "idle" /\ look = NoLook

(* buyOnDipBounce down to the write of the watch: a live price is folded   *)
(* into the watch the row holds, which is saved if it is worth a write.    *)
Look ==
  /\ pc = "idle" /\ clock + Gap <= MaxClock
  /\ clock' = clock + Gap
  /\ \E price \in Prices :
       LET step == NextDipBounce(stored, price, clock', buys)
       IN  /\ stored' = IF WorthWriting(stored, step.watch, buys)
                        THEN Keep(stored, step.watch) ELSE stored
           /\ IF step.buy
              THEN pc' = "buy" /\ look' = [price |-> price, at |-> clock', watch |-> step.watch]
              ELSE UNCHANGED <<pc, look>>
           /\ looks' = Append(looks, price)
  /\ UNCHANGED <<snapshot, buys, newest, crashes>>

(* The step of a slot just opened, bought at the live price with no dip:   *)
(* only where the tape is empty.                                           *)
Select ==
  /\ pc = "idle" /\ clock + Gap <= MaxClock /\ newest = -1
  /\ clock' = clock + Gap
  /\ \E price \in Prices : look' = [price |-> price, at |-> clock', watch |-> stored]
  /\ pc' = "select"
  /\ UNCHANGED <<stored, snapshot, buys, newest, crashes, looks>>

(* buyStep that bought nothing: the pool refuses, no capital is free, or   *)
(* the broker rejects. The watch stays as it was saved.                    *)
Refuse ==
  /\ pc \in {"buy", "select"}
  /\ pc' = "idle" /\ look' = NoLook
  /\ UNCHANGED <<clock, stored, snapshot, buys, newest, crashes, looks>>

(* A fill is never stamped before the newest one on the tape.              *)
Stamped(at) == IF at > newest THEN at ELSE newest + 1

(* buyStep's settle, recorded.                                             *)
Fill ==
  /\ pc \in {"buy", "select"}
  /\ pc' = "watch"
  /\ newest' = Stamped(look.at)
  /\ \E paid \in Paid(look.price) :
       buys' = Append(buys, [time |-> newest', price |-> paid, live |-> look.price])
  /\ looks' = <<>>
  /\ UNCHANGED <<clock, stored, snapshot, look, crashes>>

(* buyStep's last write: the reference is what was just bought at.         *)
SaveWatch ==
  /\ pc = "watch"
  /\ stored' = Keep(stored, WatchAfterBuy(look.price, LastBuy(buys).time, Since(buys), look.watch))
  /\ pc' = "idle" /\ look' = NoLook
  /\ UNCHANGED <<clock, snapshot, buys, newest, crashes, looks>>

(* A sale empties the holding; the row and its watch stay.                 *)
Sell ==
  /\ pc = "idle" /\ buys # <<>>
  /\ newest' = Stamped(clock)
  /\ buys' = <<>> /\ looks' = <<>>
  /\ UNCHANGED <<clock, stored, snapshot, pc, look, crashes>>

(* A step of the cycle reads the row.                                      *)
ReadRow ==
  /\ pc = "idle" /\ snapshot' = stored
  /\ UNCHANGED <<clock, stored, buys, newest, pc, look, crashes, looks>>

(* It writes the whole row back, with the watch it read.                   *)
WriteRow ==
  /\ pc = "idle" /\ stored' = Keep(stored, snapshot)
  /\ UNCHANGED <<clock, snapshot, buys, newest, pc, look, crashes, looks>>

(* The process dies between two writes.                                    *)
Crash ==
  /\ crashes < MaxCrashes
  /\ crashes' = crashes + 1
  /\ pc' = "idle" /\ look' = NoLook /\ snapshot' = Null
  /\ UNCHANGED <<clock, stored, buys, newest, looks>>

Next ==
  \/ Look \/ Select \/ Refuse \/ Fill \/ SaveWatch
  \/ Sell \/ ReadRow \/ WriteRow \/ Crash

Spec == Init /\ [][Next]_vars

-----------------------------------------------------------------------------
(* Properties                                                              *)

IsWatch(w) ==
  w \in Watches /\ (w.armed <=> w.low # Null) /\ (w.crashed => w.armed)

(* Every variable has its shape; a watch holds a low exactly while it is   *)
(* armed, and only an armed one has collapsed (DipWatch).                  *)
TypeOK ==
  /\ clock \in Nat /\ crashes \in 0..MaxCrashes /\ newest \in Int
  /\ \A w \in {stored, snapshot, look.watch} : w # Null => IsWatch(w)
  /\ buys \in Seq([time : Int, price : Nat, live : Prices])
  /\ looks \in Seq(Prices)
  /\ pc \in {"idle", "buy", "select", "watch"}
  /\ look.price \in Prices \cup {0} /\ look.at \in Nat

(* A DCA is bought strictly under what the buy before it paid, whatever    *)
(* price gapped between two looks and whichever write of the sweep the     *)
(* process died before (dip-bounce.ts: "each buy is strictly under the     *)
(* last").                                                                 *)
NextBuyUnderLast ==
  pc = "buy" /\ buys # <<>> => look.price < LastBuy(buys).price

(* The prices a step may be measured from: the last buy, what it paid if   *)
(* its watch was lost; before the first buy the high that was seen, or one *)
(* that no higher price moved enough to be worth a write.                  *)
References ==
  IF buys = <<>>
  THEN {looks[i] : i \in {h \in DOMAIN looks :
         \A j \in DOMAIN looks : looks[j] > looks[h] => ~Moved(looks[h], looks[j])}}
  ELSE {LastBuy(buys).live, LastBuy(buys).price}

(* A buy the ladder fires has, among the prices seen since the last fill,  *)
(* a low at or past its own step's line and within its own ceiling, none   *)
(* lower and none back at the reference since, and the bounce off it. A    *)
(* first buy is judged where no process died: a crash between a first buy  *)
(* and its watch, and a sale before the next look, leave the watch of      *)
(* before that buy to the next holding.                                    *)
DippedAndBounced ==
  pc = "buy" /\ (buys = <<>> => crashes = 0) =>
    \E reference \in References, i \in DOMAIN looks :
      LET step == Len(buys) + 1
          low  == looks[i]
      IN  /\ AtArmLine(low, reference, step) /\ AtBounceLine(look.price, low, step)
          /\ CeilingOf(step) > 0 => 100 * low >= reference * (100 - CeilingOf(step))
          /\ \A j \in i..Len(looks) : low <= looks[j] /\ looks[j] < reference
=============================================================================
