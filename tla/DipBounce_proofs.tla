-------------------------- MODULE DipBounce_proofs --------------------------
(***************************************************************************)
(* Every DCA is bought strictly under what the buy before it paid, and     *)
(* what fires a buy is a dip and its bounce, for every policy, every live  *)
(* price and every cost over it, and however often the process dies.       *)
(*                                                                         *)
(* A watch that counts for the holding has a reference no buy was paid     *)
(* under. What keeps a watch that missed the last buy from counting is the *)
(* order of stamps: a watch is stamped no later than the sweep that wrote  *)
(* it, a firing step leaves it as it was, and a fill is stamped by its     *)
(* sweep or later -- so a buy whose watch was lost is newer than any watch.*)
(*                                                                         *)
(* Such a watch also tells the truth of the prices seen since the last     *)
(* fill (Tells): it may say less than was seen, where a move was not worth *)
(* a write, but what it is measured from was left by the last buy or seen, *)
(* and the low it follows is the low of a dip that nothing undid.          *)
(***************************************************************************)
EXTENDS DipBounce, TLAPS

Holdings == Seq([time : Int, price : Nat, live : Prices])

UnderLast(w, held) ==
  held # <<>> /\ Mine(w, held) => w.reference <= LastBuy(held).price

(* A watch of the row, or of a snapshot of it.                             *)
Kept(w) == w # Null => w.at <= clock /\ UnderLast(w, buys)

(* Under way, the step is newer than every watch and every fill.           *)
Newer(w) == w # Null => w.at < clock

StampInv ==
  /\ newest <= clock + 1
  /\ newest < 0 => buys = <<>>
  /\ buys # <<>> => newest <= clock /\ LastBuy(buys).time <= newest

StepInv ==
  /\ pc \in {"buy", "select"} =>
       /\ look.at = clock /\ look.price \in Prices /\ newest < clock
       /\ Newer(stored) /\ Newer(snapshot) /\ Newer(look.watch)
  /\ pc = "select" => buys = <<>>
  /\ pc = "watch" =>
       /\ buys # <<>> /\ LastBuy(buys).time = clock
       /\ look.price \in Prices /\ look.price <= LastBuy(buys).price
       /\ Newer(look.watch)

IInv ==
  /\ TypeOK /\ StampInv /\ StepInv
  /\ Kept(stored) /\ Kept(snapshot) /\ NextBuyUnderLast

-----------------------------------------------------------------------------
(* A bounce is a rise: a price that is at its own bounce line is no price. *)
LEMMA BounceRises ==
  ASSUME NEW price \in Nat \ {0}, NEW step \in Nat
  PROVE  ~AtBounceLine(price, price, step)
<1>1. BounceOf(step) \in Nat \ {0}
  <2>1. BouncePct \in Nat \ {0} /\ LatePct \in Nat \ {0} /\ BounceStepPct \in Nat /\ LateFrom \in Nat
    BY DipBounceAssumption DEF Percentages
  <2>2. Dcas(step) \in Nat
    BY DEF Dcas
  <2>3. \A m, n \in Nat : m * n \in Nat
    BY SMT
  <2> QED
    BY <2>1, <2>2, <2>3 DEF BounceOf
<1>2. \A b \in Nat \ {0} : ~(100 * price >= price * (100 + b))
  <2> TAKE b \in Nat \ {0}
  <2>1. price * (100 + b) = 100 * price + price * b
    BY SMT
  <2>2. price * b > 0
    BY SMT
  <2> QED
    BY <2>1, <2>2
<1> QED
  BY <1>1, <1>2 DEF AtBounceLine

LEMMA LastOfHolding ==
  ASSUME NEW held \in Holdings
  PROVE  /\ Len(held) \in Nat
         /\ held # <<>> => LastBuy(held).time \in Int /\ LastBuy(held).price \in Nat
         /\ Since(held) \in Int \cup {Null}
<1> DEFINE Buys == [time : Int, price : Nat, live : Prices]
<1>1. CASE held = <<>>
  BY <1>1 DEF Since
<1>2. CASE held # <<>>
  <2>1. held \in Seq(Buys) /\ 1 \in DOMAIN held /\ Len(held) \in DOMAIN held
    BY <1>2 DEF Holdings
  <2>2. \A i \in DOMAIN held : held[i] \in Buys
    <3> HIDE DEF Buys
    <3> QED
      BY <2>1
  <2>3. held[1].time \in Int /\ held[Len(held)].time \in Int /\ held[Len(held)].price \in Nat
    BY <2>1, <2>2
  <2> QED
    BY <1>2, <2>1, <2>3 DEF Since, LastBuy
<1>3. Len(held) \in Nat
  BY DEF Holdings
<1> QED
  BY <1>1, <1>2, <1>3

(* The two watches the ladder writes.                                      *)
LEMMA NewWatches ==
  ASSUME NEW reference \in Nat, NEW low \in Nat, NEW at \in Int, NEW step \in Nat,
         NEW since \in Int \cup {Null}
  PROVE  /\ IsWatch(Unarmed(reference, at, since))
         /\ IsWatch(ArmedAt(reference, low, at, since, step))
<1>1. Collapsed(low, reference, step) \in BOOLEAN
  BY DEF Collapsed
<1>2. low # Null
  BY DipBounceAssumption
<1> QED
  BY <1>1, <1>2 DEF IsWatch, Watches, Unarmed, ArmedAt

(* A live price folded into a watch no newer leaves a watch no newer than  *)
(* the look and still not over the last buy. If it buys, the watch is the  *)
(* one it was and the price is under the last buy.                         *)
LEMMA FoldedPrice ==
  ASSUME NEW watch, NEW held \in Holdings, NEW price \in Prices, NEW at \in Int,
         watch # Null => IsWatch(watch) /\ watch.at < at /\ UnderLast(watch, held)
  PROVE  LET step == NextDipBounce(watch, price, at, held)
         IN  /\ step.watch # Null =>
                  IsWatch(step.watch) /\ step.watch.at <= at /\ UnderLast(step.watch, held)
             /\ step.buy => /\ step.watch = watch /\ watch # Null
                            /\ held # <<>> => price < LastBuy(held).price
<1> DEFINE n == Len(held) + 1
           since == Since(held)
           current == Current(watch, at, held)
           folded == NextDipBounce(watch, price, at, held)
           Fine(w) == IsWatch(w) /\ w.at <= at /\ UnderLast(w, held)
<1>1. StampAfter(at, watch) = at
  BY DEF StampAfter, IsWatch, Watches
<1>2. price \in Nat \ {0} /\ n \in Nat
  BY LastOfHolding, DipBounceAssumption
<1>3. ASSUME NEW reference \in Nat, held # <<>> => reference <= LastBuy(held).price
      PROVE  Fine(Unarmed(reference, at, since)) /\ Fine(From(reference, price, at, held))
  <2>1. IsWatch(Unarmed(reference, at, since)) /\ IsWatch(ArmedAt(reference, price, at, since, n))
    BY <1>2, LastOfHolding, NewWatches
  <2>2. /\ Unarmed(reference, at, since).at = at
        /\ Unarmed(reference, at, since).reference = reference
        /\ ArmedAt(reference, price, at, since, n).at = at
        /\ ArmedAt(reference, price, at, since, n).reference = reference
    BY DEF Unarmed, ArmedAt
  <2> QED
    BY <1>3, <2>1, <2>2 DEF UnderLast, From
<1>4. current # Null =>
        /\ Fine(current) /\ current.reference \in Nat
        /\ held # <<>> => current.reference <= LastBuy(held).price
        /\ current.armed => current = watch /\ watch # Null
  <2>1. CASE ~Mine(watch, held)
    BY <2>1 DEF Current
  <2>2. CASE Mine(watch, held)
    <3>1. watch # Null /\ IsWatch(watch) /\ watch.at < at /\ watch.reference \in Nat
          /\ watch.at \in Int /\ (held # <<>> => watch.reference <= LastBuy(held).price)
      BY <2>2 DEF Mine, IsWatch, Watches, UnderLast
    <3>2. CASE watch.armed /\ ~ArmedFor(watch, Len(held) + 1)
      <4>1. current = Unarmed(watch.reference, at, since)
        BY <2>2, <3>2 DEF Current
      <4>2. Fine(Unarmed(watch.reference, at, since))
        BY <1>3, <3>1
      <4>3. /\ Unarmed(watch.reference, at, since).armed = FALSE
            /\ Unarmed(watch.reference, at, since).reference = watch.reference
        BY DEF Unarmed
      <4> QED
        BY <3>1, <4>1, <4>2, <4>3
    <3>3. CASE ~(watch.armed /\ ~ArmedFor(watch, Len(held) + 1))
      <4>1. current = watch
        BY <2>2, <3>3 DEF Current
      <4> QED
        BY <3>1, <4>1 DEF UnderLast
    <3> QED
      BY <3>2, <3>3
  <2> QED
    BY <2>1, <2>2
<1>5. /\ \A w, b : Step(w, b).watch = w /\ Step(w, b).buy = b
      /\ \A w : Fine(w) => Fine(Step(w, FALSE).watch) /\ ~Step(w, FALSE).buy
  BY DEF Step
<1>6. CASE Len(held) >= MaxSteps
  <2>1. folded = Step(watch, FALSE)
    BY <1>6 DEF NextDipBounce
  <2>2. watch # Null => Fine(watch)
    BY DEF IsWatch, Watches
  <2>3. folded.watch = watch /\ ~folded.buy
    BY <1>5, <2>1
  <2> QED
    BY <2>2, <2>3
<1>7. CASE ~(Len(held) >= MaxSteps) /\ current = Null
  <2> DEFINE reference == IF held = <<>> THEN price ELSE LastBuy(held).price
  <2>1. folded = Step(From(reference, price, at, held), FALSE)
    BY <1>1, <1>7 DEF NextDipBounce
  <2>2. reference \in Nat /\ (held # <<>> => reference <= LastBuy(held).price)
    BY <1>2, LastOfHolding
  <2>3. Fine(From(reference, price, at, held))
    BY <1>3, <2>2
  <2> QED
    BY <1>5, <2>1, <2>3
<1>8. ASSUME current # Null
      PROVE  LET reference == ReferenceAt(current, price, held)
             IN  reference \in Nat /\ (held # <<>> => reference <= LastBuy(held).price)
  BY <1>2, <1>4, <1>8 DEF ReferenceAt
<1>9. CASE ~(Len(held) >= MaxSteps) /\ current # Null /\ ~current.armed
  <2>1. folded = Step(Waiting(current, price, at, held), FALSE)
    BY <1>1, <1>9 DEF NextDipBounce
  <2>2. Fine(From(ReferenceAt(current, price, held), price, at, held)) /\ Fine(current)
    BY <1>3, <1>4, <1>8, <1>9
  <2>3. Fine(Waiting(current, price, at, held))
    BY <2>2 DEF Waiting
  <2> QED
    BY <1>5, <2>1, <2>3
<1>10. CASE ~(Len(held) >= MaxSteps) /\ current # Null /\ current.armed
  <2> DEFINE back == ReferenceAt(current, price, held)
             low == Lower(current, price)
             followed == Followed(current, price, at)
             deeper == [current EXCEPT !.low = low, !.at = at, !.crashed = TRUE]
  <2>1. /\ Fine(current) /\ current = watch /\ watch # Null
        /\ current.reference \in Nat /\ current.low \in Nat /\ low \in Nat
    BY <1>2, <1>4, <1>10 DEF IsWatch, Watches, Lower
  <2>2. low # Null /\ price # Null
    BY <1>2, <2>1, DipBounceAssumption
  <2>3. Fine(followed) /\ Fine(deeper)
    <3> DEFINE sunk == [current EXCEPT !.low = price, !.at = at]
    <3>1. IsWatch(sunk) /\ IsWatch(deeper)
      BY <1>2, <1>10, <2>1, <2>2 DEF IsWatch, Watches
    <3>2. /\ sunk.at = at /\ sunk.reference = current.reference
          /\ deeper.at = at /\ deeper.reference = current.reference
      BY <2>1 DEF IsWatch, Watches
    <3>3. Fine(sunk) /\ Fine(deeper)
      BY <1>4, <1>10, <2>1, <3>1, <3>2 DEF UnderLast
    <3> QED
      BY <2>1, <3>3 DEF Followed
  <2>4. Fine(Unarmed(back, at, since)) /\ Fine(From(current.reference, price, at, held))
    BY <1>3, <1>4, <1>8, <1>10
  <2>5. folded = Falling(current, price, at, held)
    BY <1>1, <1>10 DEF NextDipBounce
  <2>6. CASE Undone(price, current)
    BY <1>5, <2>4, <2>5, <2>6 DEF Falling
  <2>7. CASE ~Undone(price, current) /\ current.crashed
    <3>1. folded = Step(IF Collapsed(price, current.reference, n) THEN followed
                        ELSE From(current.reference, price, at, held), FALSE)
      BY <2>5, <2>7 DEF Falling
    <3> QED
      BY <1>5, <2>3, <2>4, <3>1
  <2>8. CASE ~Undone(price, current) /\ ~current.crashed /\ Collapsed(low, current.reference, n)
    BY <1>5, <2>3, <2>5, <2>8 DEF Falling
  <2>9. CASE ~Undone(price, current) /\ ~current.crashed /\ ~Collapsed(low, current.reference, n)
    <3>1. folded = Step(followed, AtBounceLine(price, low, n))
      BY <2>5, <2>9 DEF Falling
    <3>2. ASSUME AtBounceLine(price, low, n)
          PROVE  followed = watch /\ (held # <<>> => price < LastBuy(held).price)
      <4>1. low # price
        BY <1>2, <3>2, BounceRises
      <4>2. followed = current
        BY <4>1 DEF Followed, Lower
      <4>3. price < current.reference
        BY <1>2, <2>1, <2>9 DEF Undone
      <4> QED
        BY <1>2, <1>4, <1>10, <2>1, <4>2, <4>3, LastOfHolding
    <3> QED
      BY <1>5, <2>1, <2>3, <3>1, <3>2
  <2> QED
    BY <2>6, <2>7, <2>8, <2>9
<1> QED
  BY <1>6, <1>7, <1>9, <1>10

(* The row keeps one of the two watches.                                   *)
LEMMA KeepsOne == ASSUME NEW old, NEW new PROVE Keep(old, new) \in {old, new}
BY DEF Keep

-----------------------------------------------------------------------------
LEMMA InitInv == Init => IInv
<1> SUFFICES ASSUME Init PROVE IInv
  OBVIOUS
<1>1. buys \in Seq([time : Int, price : Nat, live : Prices]) /\ looks \in Seq(Prices)
  BY DEF Init
<1>2. TypeOK
  BY <1>1, DipBounceAssumption DEF Init, TypeOK, NoLook
<1> QED
  BY <1>2 DEF Init, IInv, StampInv, StepInv, Kept, NextBuyUnderLast, NoLook

LEMMA LookInv == IInv /\ Look => IInv'
<1> SUFFICES ASSUME IInv, Look PROVE IInv'
  OBVIOUS
<1>1. PICK price \in Prices :
        LET step == NextDipBounce(stored, price, clock', buys)
        IN  /\ stored' = IF WorthWriting(stored, step.watch, buys)
                         THEN Keep(stored, step.watch) ELSE stored
            /\ IF step.buy
               THEN pc' = "buy" /\ look' = [price |-> price, at |-> clock', watch |-> step.watch]
               ELSE UNCHANGED <<pc, look>>
            /\ looks' = Append(looks, price)
  BY DEF Look
<1> DEFINE step == NextDipBounce(stored, price, clock', buys)
           Fine(w) == w # Null => IsWatch(w) /\ w.at <= clock' /\ UnderLast(w, buys)
<1>2. /\ pc = "idle" /\ clock' \in Nat /\ clock + 1 < clock'
      /\ UNCHANGED <<snapshot, buys, newest, crashes>>
  BY DipBounceAssumption DEF Look, IInv, TypeOK
<1>3. /\ TypeOK /\ StampInv /\ Kept(stored) /\ Kept(snapshot)
      /\ buys \in Holdings /\ clock \in Nat /\ newest \in Int
  BY DEF IInv, TypeOK, Holdings
<1>4. \A w \in {stored, snapshot} : w # Null => IsWatch(w) /\ w.at < clock' /\ UnderLast(w, buys)
  BY <1>2, <1>3 DEF TypeOK, IsWatch, Watches, Kept
<1>5. /\ Fine(step.watch)
      /\ step.buy => /\ step.watch = stored /\ stored # Null
                     /\ buys # <<>> => price < LastBuy(buys).price
  <2>1. stored # Null => IsWatch(stored) /\ stored.at < clock' /\ UnderLast(stored, buys)
    BY <1>4
  <2>2. clock' \in Int
    BY <1>2
  <2> HIDE DEF step
  <2>3. LET s == NextDipBounce(stored, price, clock', buys)
        IN  /\ s.watch # Null => IsWatch(s.watch) /\ s.watch.at <= clock' /\ UnderLast(s.watch, buys)
            /\ s.buy => /\ s.watch = stored /\ stored # Null
                        /\ buys # <<>> => price < LastBuy(buys).price
    BY <1>3, <2>1, <2>2, FoldedPrice
  <2> QED
    BY <2>3 DEF step
<1> HIDE DEF step
<1>6. Fine(stored') /\ Fine(snapshot')
  <2>1. stored' \in {stored, step.watch}
    BY <1>1, KeepsOne DEF step
  <2>2. Fine(stored) /\ Fine(snapshot)
    BY <1>2, <1>4 DEF IsWatch, Watches
  <2> QED
    BY <1>2, <1>5, <2>1, <2>2
<1>7. Kept(stored)' /\ Kept(snapshot)'
  BY <1>2, <1>6 DEF Kept, UnderLast, Mine, Since, LastBuy
<1>8. CASE step.buy
  <2>1. pc' = "buy" /\ look' = [price |-> price, at |-> clock', watch |-> stored] /\ stored' = stored
    <3>1. Keep(stored, stored) = stored
      BY DEF Keep
    <3> QED
      BY <1>1, <1>5, <1>8, <3>1 DEF step
  <2>2. TypeOK'
    BY <1>1, <1>2, <1>3, <2>1 DEF TypeOK
  <2>3. newest < clock'
    BY <1>2, <1>3 DEF StampInv, TypeOK
  <2>4. StampInv'
    <3>1. PICK now \in Nat : clock' = now
      BY <1>2
    <3> QED
      BY <1>2, <1>3, <3>1 DEF StampInv, LastBuy
  <2>5. StepInv'
    BY <1>2, <1>4, <2>1, <2>3 DEF StepInv, Newer
  <2>6. NextBuyUnderLast'
    BY <1>2, <1>5, <1>8, <2>1 DEF NextBuyUnderLast, LastBuy
  <2> QED
    BY <1>7, <2>2, <2>4, <2>5, <2>6 DEF IInv
<1>9. CASE ~step.buy
  <2>1. UNCHANGED <<pc, look>> /\ looks' \in Seq(Prices)
    BY <1>1, <1>3, <1>9 DEF step, TypeOK
  <2>2. TypeOK'
    BY <1>2, <1>3, <1>6, <2>1 DEF TypeOK
  <2>3. StampInv'
    <3>1. PICK now \in Nat : clock' = now
      BY <1>2
    <3> QED
      BY <1>2, <1>3, <3>1 DEF StampInv, LastBuy
  <2> QED
    BY <1>2, <1>7, <2>1, <2>2, <2>3 DEF IInv, StepInv, NextBuyUnderLast
<1> QED
  BY <1>8, <1>9

LEMMA SelectInv == IInv /\ Select => IInv'
<1> SUFFICES ASSUME IInv, Select PROVE IInv'
  OBVIOUS
<1>1. /\ pc = "idle" /\ newest = -1 /\ clock' \in Nat /\ clock + 1 < clock' /\ clock \in Nat
      /\ UNCHANGED <<stored, snapshot, buys, newest, crashes, looks>>
      /\ pc' = "select" /\ look'.price \in Prices /\ look'.at = clock' /\ look'.watch = stored
  BY DipBounceAssumption DEF Select, IInv, TypeOK
<1>2. TypeOK /\ StampInv /\ Kept(stored) /\ Kept(snapshot)
  BY DEF IInv
<1>3. buys = <<>>
  BY <1>1, <1>2 DEF StampInv
<1>4. TypeOK'
  BY <1>1, <1>2 DEF TypeOK
<1>5. Kept(stored)' /\ Kept(snapshot)'
  BY <1>1, <1>2, <1>3 DEF Kept, UnderLast, TypeOK, IsWatch, Watches
<1>6. StampInv' /\ NextBuyUnderLast'
  <2>1. PICK now \in Nat : clock' = now
    BY <1>1
  <2> QED
    BY <1>1, <1>3, <2>1 DEF StampInv, NextBuyUnderLast
<1>7. StepInv'
  BY <1>1, <1>2, <1>3 DEF StepInv, Newer, Kept, TypeOK, IsWatch, Watches
<1> QED
  BY <1>4, <1>5, <1>6, <1>7 DEF IInv

LEMMA FillInv == IInv /\ Fill => IInv'
<1> SUFFICES ASSUME IInv, Fill PROVE IInv'
  OBVIOUS
<1>1. PICK paid \in Paid(look.price) :
        buys' = Append(buys, [time |-> newest', price |-> paid, live |-> look.price])
  BY DEF Fill
<1>2. /\ pc \in {"buy", "select"} /\ pc' = "watch" /\ looks' = <<>> /\ newest' = Stamped(look.at)
      /\ UNCHANGED <<clock, stored, snapshot, look, crashes>>
  BY DEF Fill
<1>3. TypeOK /\ StampInv /\ StepInv /\ Kept(stored) /\ Kept(snapshot) /\ clock \in Nat /\ newest \in Int
  BY DEF IInv, TypeOK
<1>4. /\ look.at = clock /\ look.price \in Prices /\ newest < clock
      /\ Newer(stored) /\ Newer(snapshot) /\ Newer(look.watch)
  BY <1>2, <1>3 DEF StepInv
<1>5. newest' = clock
  BY <1>2, <1>3, <1>4 DEF Stamped
<1>6. paid \in Nat /\ look.price <= paid
  BY <1>4, DipBounceAssumption
<1> DEFINE Buys == [time : Int, price : Nat, live : Prices]
           bought == [time |-> newest', price |-> paid, live |-> look.price]
<1>7. bought \in Buys /\ bought.time = clock /\ bought.price = paid
  BY <1>3, <1>4, <1>5, <1>6
<1>8. buys' \in Seq(Buys) /\ buys' # <<>> /\ LastBuy(buys)' = bought
  <2>1. buys \in Seq(Buys) /\ buys' = Append(buys, bought)
    BY <1>1, <1>3 DEF TypeOK
  <2> HIDE DEF Buys, bought
  <2>2. /\ Append(buys, bought) \in Seq(Buys) /\ Append(buys, bought) # <<>>
        /\ Append(buys, bought)[Len(Append(buys, bought))] = bought
    BY <1>7, <2>1
  <2> QED
    BY <2>1, <2>2 DEF LastBuy
<1>9. TypeOK'
  <2>1. looks' \in Seq(Prices)
    BY <1>2
  <2> QED
    BY <1>2, <1>3, <1>5, <1>8, <2>1 DEF TypeOK
<1>10. \A w \in {stored, snapshot} : w # Null => w.at \in Int /\ w.at < clock
  BY <1>3, <1>4 DEF TypeOK, IsWatch, Watches, Newer
<1>11. Kept(stored)' /\ Kept(snapshot)'
  <2>1. \A w \in {stored, snapshot} : w # Null => ~Mine(w, buys')
    BY <1>3, <1>7, <1>8, <1>10 DEF Mine, LastBuy
  <2> QED
    BY <1>2, <1>3, <1>10, <2>1 DEF Kept, UnderLast
<1>12. StampInv'
  BY <1>2, <1>3, <1>5, <1>7, <1>8 DEF StampInv
<1>13. StepInv'
  BY <1>2, <1>4, <1>6, <1>7, <1>8 DEF StepInv, Newer
<1> QED
  BY <1>2, <1>9, <1>11, <1>12, <1>13 DEF IInv, NextBuyUnderLast

LEMMA SaveWatchInv == IInv /\ SaveWatch => IInv'
<1> SUFFICES ASSUME IInv, SaveWatch PROVE IInv'
  OBVIOUS
<1> DEFINE after == WatchAfterBuy(look.price, LastBuy(buys).time, Since(buys), look.watch)
<1>1. /\ pc = "watch" /\ pc' = "idle" /\ look' = NoLook
      /\ stored' = Keep(stored, after)
      /\ UNCHANGED <<clock, snapshot, buys, newest, crashes, looks>>
  BY DEF SaveWatch
<1>2. TypeOK /\ StampInv /\ StepInv /\ Kept(stored) /\ Kept(snapshot) /\ clock \in Nat
  BY DEF IInv, TypeOK
<1>3. /\ buys # <<>> /\ LastBuy(buys).time = clock
      /\ look.price \in Nat /\ look.price <= LastBuy(buys).price /\ Newer(look.watch)
  BY <1>1, <1>2, DipBounceAssumption DEF StepInv
<1>4. StampAfter(clock, look.watch) = clock
  BY <1>2, <1>3 DEF StampAfter, Newer, TypeOK, IsWatch, Watches
<1>5. after = Unarmed(look.price, clock, Since(buys))
  BY <1>3, <1>4 DEF WatchAfterBuy
<1>6. IsWatch(after) /\ after.at = clock /\ after.reference = look.price
  <2>1. Since(buys) \in Int \cup {Null}
    BY <1>2, LastOfHolding DEF Holdings, TypeOK
  <2>2. clock \in Int /\ 1 \in Nat
    BY <1>2
  <2>3. IsWatch(Unarmed(look.price, clock, Since(buys)))
    BY <1>3, <2>1, <2>2, NewWatches
  <2> QED
    BY <1>5, <2>3 DEF Unarmed
<1> HIDE DEF after
<1>7. stored' \in {stored, after}
  BY <1>1, KeepsOne
<1>8. TypeOK'
  <2>1. stored' # Null => IsWatch(stored')
    BY <1>2, <1>6, <1>7 DEF TypeOK
  <2> QED
    BY <1>1, <1>2, <2>1 DEF TypeOK, NoLook
<1>9. Kept(stored)' /\ Kept(snapshot)'
  <2>1. Kept(after)
    BY <1>2, <1>3, <1>6 DEF Kept, UnderLast
  <2> QED
    BY <1>1, <1>2, <1>7, <2>1 DEF Kept
<1> QED
  BY <1>1, <1>2, <1>8, <1>9 DEF IInv, StampInv, StepInv, NextBuyUnderLast

LEMMA SellInv == IInv /\ Sell => IInv'
<1> SUFFICES ASSUME IInv, Sell PROVE IInv'
  OBVIOUS
<1>1. /\ pc = "idle" /\ buys # <<>> /\ newest' = Stamped(clock) /\ buys' = <<>> /\ looks' = <<>>
      /\ UNCHANGED <<clock, stored, snapshot, pc, look, crashes>>
  BY DEF Sell
<1>2. TypeOK /\ StampInv /\ Kept(stored) /\ Kept(snapshot) /\ clock \in Nat /\ newest \in Int
  BY DEF IInv, TypeOK
<1>3. newest' \in Int /\ newest' <= clock + 1
  BY <1>1, <1>2 DEF StampInv, Stamped
<1>4. buys' \in Seq([time : Int, price : Nat, live : Prices]) /\ looks' \in Seq(Prices)
  BY <1>1
<1>5. TypeOK'
  BY <1>1, <1>2, <1>3, <1>4 DEF TypeOK
<1>6. Kept(stored)' /\ Kept(snapshot)' /\ StampInv'
  BY <1>1, <1>2, <1>3 DEF Kept, UnderLast, StampInv
<1> QED
  BY <1>1, <1>5, <1>6 DEF IInv, StepInv, NextBuyUnderLast

LEMMA OtherInv == IInv /\ (Refuse \/ ReadRow \/ WriteRow \/ Crash \/ UNCHANGED vars) => IInv'
<1> SUFFICES ASSUME IInv, Refuse \/ ReadRow \/ WriteRow \/ Crash \/ UNCHANGED vars PROVE IInv'
  OBVIOUS
<1>1. TypeOK /\ StampInv /\ Kept(stored) /\ Kept(snapshot)
  BY DEF IInv
<1>2. CASE Refuse
  <2>1. TypeOK'
    BY <1>1, <1>2 DEF Refuse, TypeOK, NoLook
  <2> QED
    BY <1>1, <1>2, <2>1 DEF Refuse, IInv, StampInv, StepInv, Kept, NextBuyUnderLast
<1>3. CASE ReadRow
  <2>1. TypeOK'
    BY <1>1, <1>3 DEF ReadRow, TypeOK
  <2> QED
    BY <1>1, <1>3, <2>1 DEF ReadRow, IInv, StampInv, StepInv, Kept, NextBuyUnderLast
<1>4. CASE WriteRow
  <2>1. stored' \in {stored, snapshot}
    BY <1>4, KeepsOne DEF WriteRow
  <2>2. TypeOK'
    BY <1>1, <1>4, <2>1 DEF WriteRow, TypeOK
  <2> QED
    BY <1>1, <1>4, <2>1, <2>2 DEF WriteRow, IInv, StampInv, StepInv, Kept, NextBuyUnderLast
<1>5. CASE Crash
  <2>1. crashes' \in 0..MaxCrashes
    BY <1>1, <1>5, DipBounceAssumption DEF Crash, TypeOK
  <2>2. TypeOK'
    BY <1>1, <1>5, <2>1 DEF Crash, TypeOK, NoLook
  <2> QED
    BY <1>1, <1>5, <2>2 DEF Crash, IInv, StampInv, StepInv, Kept, NextBuyUnderLast
<1>6. CASE UNCHANGED vars
  BY <1>6 DEF vars, IInv, TypeOK, StampInv, StepInv, Newer, Kept, NextBuyUnderLast
<1> QED
  BY <1>2, <1>3, <1>4, <1>5, <1>6

-----------------------------------------------------------------------------
(* The strengthened invariant holds in every reachable state.              *)
THEOREM Invariance == Spec => []IInv
<1>1. IInv /\ [Next]_vars => IInv'
  BY LookInv, SelectInv, FillInv, SaveWatchInv, SellInv, OtherInv DEF Next
<1> QED
  BY InitInv, <1>1, PTL DEF Spec

(* Every variable keeps its shape, and a watch holds a low exactly while   *)
(* it is armed (DipWatch in dip-bounce.ts).                                *)
THEOREM TypeCorrectness == Spec => []TypeOK
<1>1. IInv => TypeOK
  BY DEF IInv
<1> QED
  BY Invariance, <1>1, PTL

(* Every DCA is under what the buy before it paid: nextDipBounce with the  *)
(* watch buyStep leaves behind, over any crash between the fill and that   *)
(* watch, and over any row written back from an older snapshot.            *)
THEOREM DcasDescend == Spec => []NextBuyUnderLast
<1>1. IInv => NextBuyUnderLast
  BY DEF IInv
<1> QED
  BY Invariance, <1>1, PTL

-----------------------------------------------------------------------------
(* What a watch tells of the prices seen since the last fill: what it is   *)
(* measured from, and, while it is armed and has not collapsed, the low of *)
(* the dip it follows. The row's watch may say less than was seen, where a *)
(* move was not worth a write, and never anything else.                    *)
Measured(reference, held, seen) ==
  IF held = <<>>
  THEN \E i \in DOMAIN seen :
         /\ seen[i] = reference
         /\ \A j \in DOMAIN seen : seen[j] > reference => ~Moved(reference, seen[j])
  ELSE reference \in {LastBuy(held).live, LastBuy(held).price}

(* The i-th price seen is the low of a dip under the step's line.          *)
LowOf(i, reference, step, seen) ==
  /\ AtArmLine(seen[i], reference, step) /\ ~Collapsed(seen[i], reference, step)
  /\ \A j \in i..Len(seen) : seen[i] <= seen[j] /\ seen[j] < reference

Tells(w, held, seen) ==
  /\ Mine(w, held) /\ Measured(w.reference, held, seen)
  /\ ArmedFor(w, Len(held) + 1) /\ ~w.crashed =>
       \E i \in DOMAIN seen : seen[i] <= w.low /\ LowOf(i, w.reference, Len(held) + 1, seen)

(* A step that is still to be bought, and not the first of a holding where *)
(* a process died: see DippedAndBounced.                                   *)
Judged == Len(buys) < MaxSteps /\ (buys = <<>> => crashes = 0)

TellsInv == Judged /\ (looks # <<>> \/ Mine(stored, buys)) => Tells(stored, buys, looks)

(* While no process died, the row's watch is of the holding it has; a copy *)
(* of it is no newer; and a fill is newer than the watch it will replace.  *)
RowInv ==
  /\ crashes = 0 /\ buys # <<>> /\ pc # "watch" => stored # Null /\ stored.holdingSince = Since(buys)
  /\ snapshot # Null => stored # Null /\ snapshot.at <= stored.at
  /\ pc = "watch" => looks = <<>> /\ Newer(stored) /\ look.price = LastBuy(buys).live

LooksInv == TellsInv /\ RowInv /\ DippedAndBounced

-----------------------------------------------------------------------------
(* The lines, for any prices.                                              *)
LEMMA LinesFall ==
  ASSUME NEW step \in Nat, NEW reference \in Nat, NEW p \in Nat \ {0}, NEW q \in Nat \ {0}
  PROVE  /\ AtArmLine(p, reference, step) => p < reference
         /\ AtArmLine(p, reference, step) /\ q <= p => AtArmLine(q, reference, step)
<1>1. DipPct \in Nat \ {0} /\ DipStepPct \in Nat /\ Dcas(step) \in Nat
  BY DipBounceAssumption DEF Percentages, Dcas
<1>2. \A m, n \in Nat : m * n \in Nat
  BY SMT
<1>3. PICK dip \in Nat \ {0} : DipOf(step) = dip
  BY <1>1, <1>2 DEF DipOf
<1>4. PICK product \in Int : reference * (100 - dip) = product
  BY SMT
<1>5. product <= 100 * reference - reference
  <2>1. reference * (100 - dip) = 100 * reference - reference * dip
    BY SMT
  <2>2. reference * dip >= reference
    BY SMT
  <2> QED
    BY <1>4, <2>1, <2>2
<1> QED
  BY <1>3, <1>4, <1>5 DEF AtArmLine

LEMMA BouncesOffLess ==
  ASSUME NEW step \in Nat, NEW price \in Nat, NEW low \in Nat, NEW l \in Nat, l <= low,
         AtBounceLine(price, low, step)
  PROVE  AtBounceLine(price, l, step)
<1>1. BounceOf(step) \in Nat
  <2>1. BouncePct \in Nat /\ LatePct \in Nat /\ BounceStepPct \in Nat /\ LateFrom \in Nat
    BY DipBounceAssumption DEF Percentages
  <2>2. Dcas(step) \in Nat
    BY DEF Dcas
  <2>3. \A m, n \in Nat : m * n \in Nat
    BY SMT
  <2> QED
    BY <2>1, <2>2, <2>3 DEF BounceOf
<1>2. PICK b \in Nat : 100 + BounceOf(step) = b
  BY <1>1
<1>3. PICK more \in Nat : low = l + more
  <2>1. low - l \in Nat /\ low = l + (low - l)
    BY SMT
  <2> QED
    BY <2>1
<1>4. (l + more) * b = l * b + more * b /\ more * b \in Nat /\ l * b \in Nat
  BY SMT
<1> QED
  BY <1>2, <1>3, <1>4 DEF AtBounceLine

LEMMA CeilingIsNat == ASSUME NEW step \in Nat PROVE CeilingOf(step) \in Nat
<1>1. MaxDipPct \in Nat /\ DipStepPct \in Nat /\ Dcas(step) \in Nat
  BY DipBounceAssumption DEF Percentages, Dcas
<1>2. \A m, k \in Nat : m * k \in Nat
  BY SMT
<1> QED
  BY <1>1, <1>2 DEF CeilingOf

(* One more price seen.                                                    *)
LEMMA OneMore ==
  ASSUME NEW seen \in Seq(Prices), NEW price \in Prices
  PROVE  LET all == Append(seen, price)
         IN  /\ all \in Seq(Prices) /\ all # <<>> /\ Len(seen) \in Nat /\ Len(all) = Len(seen) + 1
             /\ DOMAIN all = 1..Len(all) /\ DOMAIN seen = 1..Len(seen)
             /\ all[Len(all)] = price /\ Len(all) \in DOMAIN all
             /\ \A i \in DOMAIN seen : i \in DOMAIN all /\ all[i] = seen[i] /\ seen[i] \in Prices
             /\ \A j \in DOMAIN all : j \in DOMAIN seen \/ j = Len(all)
OBVIOUS

LEMMA StillMeasured ==
  ASSUME NEW held \in Holdings, NEW seen \in Seq(Prices), NEW price \in Prices, NEW reference \in Nat,
         Measured(reference, held, seen),
         held = <<>> /\ price > reference => ~Moved(reference, price)
  PROVE  Measured(reference, held, Append(seen, price))
<1> DEFINE all == Append(seen, price)
<1>1. /\ \A i \in DOMAIN seen : i \in DOMAIN all /\ all[i] = seen[i]
      /\ \A j \in DOMAIN all : j \in DOMAIN seen \/ all[j] = price
  BY OneMore
<1> HIDE DEF all
<1>2. Measured(reference, held, all)
  BY <1>1 DEF Measured
<1> QED
  BY <1>2 DEF all

LEMMA MeasuredFromHere ==
  ASSUME NEW seen \in Seq(Prices), NEW price \in Prices, NEW reference \in Nat,
         seen = <<>> \/ (Measured(reference, <<>>, seen) /\ price >= reference)
  PROVE  Measured(price, <<>>, Append(seen, price))
<1> DEFINE all == Append(seen, price)
<1>1. /\ Len(all) \in DOMAIN all /\ all[Len(all)] = price
      /\ \A i \in DOMAIN seen : all[i] = seen[i] /\ seen[i] \in Nat
      /\ \A j \in DOMAIN all : j \in DOMAIN seen \/ all[j] = price
      /\ price \in Nat
      /\ seen = <<>> => DOMAIN seen = {}
  <2>1. /\ Len(all) \in DOMAIN all /\ all[Len(all)] = price
        /\ \A i \in DOMAIN seen : all[i] = seen[i] /\ seen[i] \in Prices
        /\ \A j \in DOMAIN all : j \in DOMAIN seen \/ all[j] = price
    BY OneMore
  <2>2. Prices \subseteq Nat
    BY DipBounceAssumption
  <2>3. seen = <<>> => DOMAIN seen = {}
    OBVIOUS
  <2> QED
    BY <2>1, <2>2, <2>3
<1> HIDE DEF all
<1>2. ASSUME NEW j \in DOMAIN all, all[j] > price
      PROVE  ~Moved(price, all[j])
  <2>1. j \in DOMAIN seen /\ all[j] = seen[j] /\ seen # <<>>
    BY <1>1, <1>2
  <2>2. ~Moved(reference, seen[j]) /\ price >= reference
    BY <1>1, <1>2, <2>1 DEF Measured
  <2> QED
    BY <1>1, <1>2, <2>1, <2>2 DEF Moved
<1>3. Measured(price, <<>>, all)
  BY <1>1, <1>2 DEF Measured
<1> QED
  BY <1>3 DEF all

LEMMA LowStays ==
  ASSUME NEW seen \in Seq(Prices), NEW price \in Prices, NEW reference \in Nat, NEW step \in Nat,
         NEW i \in DOMAIN seen, LowOf(i, reference, step, seen), seen[i] <= price, price < reference
  PROVE  i \in DOMAIN Append(seen, price) /\ Append(seen, price)[i] = seen[i]
         /\ LowOf(i, reference, step, Append(seen, price))
<1> DEFINE all == Append(seen, price)
<1>1. i \in DOMAIN all /\ all[i] = seen[i] /\ i \in Nat /\ Len(seen) \in Nat /\ Len(all) = Len(seen) + 1
  BY OneMore
<1>2. \A j \in i..Len(all) : (j \in i..Len(seen) /\ all[j] = seen[j]) \/ all[j] = price
  BY OneMore, <1>1
<1> HIDE DEF all
<1>3. LowOf(i, reference, step, all)
  BY <1>1, <1>2 DEF LowOf
<1> QED
  BY <1>1, <1>3 DEF all

LEMMA LowHere ==
  ASSUME NEW seen \in Seq(Prices), NEW price \in Prices, NEW reference \in Nat, NEW step \in Nat,
         AtArmLine(price, reference, step), ~Collapsed(price, reference, step), price < reference
  PROVE  LET all == Append(seen, price)
         IN  Len(all) \in DOMAIN all /\ all[Len(all)] = price /\ LowOf(Len(all), reference, step, all)
<1> DEFINE all == Append(seen, price)
<1>1. Len(all) \in DOMAIN all /\ all[Len(all)] = price /\ Len(all) \in Nat /\ price \in Nat
  BY OneMore, DipBounceAssumption
<1> HIDE DEF all
<1>2. \A j \in Len(all)..Len(all) : j = Len(all)
  BY <1>1
<1>3. LowOf(Len(all), reference, step, all)
  BY <1>1, <1>2 DEF LowOf
<1> QED
  BY <1>1, <1>3 DEF all

(* The two watches the ladder writes tell the truth.                       *)
LEMMA NewTells ==
  ASSUME NEW held \in Holdings, NEW seen \in Seq(Prices), NEW price \in Prices, NEW at \in Int,
         NEW reference \in Nat, held # <<>> => LastBuy(held).time <= at,
         Measured(reference, held, Append(seen, price))
  PROVE  /\ Tells(Unarmed(reference, at, Since(held)), held, Append(seen, price))
         /\ Tells(From(reference, price, at, held), held, Append(seen, price))
<1> DEFINE n == Len(held) + 1
           all == Append(seen, price)
           waiting == Unarmed(reference, at, Since(held))
           armed == ArmedAt(reference, price, at, Since(held), n)
<1>1. n \in Nat /\ price \in Nat \ {0} /\ (held # <<>> => LastBuy(held).time \in Int)
  BY LastOfHolding, DipBounceAssumption
<1>2. /\ waiting # Null /\ waiting.reference = reference /\ waiting.at = at /\ ~waiting.armed
      /\ waiting.holdingSince = Since(held)
      /\ armed # Null /\ armed.reference = reference /\ armed.at = at /\ armed.low = price
      /\ armed.holdingSince = Since(held) /\ armed.crashed = Collapsed(price, reference, n)
  <2>1. IsWatch(waiting) /\ IsWatch(armed)
    BY <1>1, LastOfHolding, NewWatches
  <2>2. waiting \in Watches /\ armed \in Watches
    BY <2>1 DEF IsWatch
  <2>3. \A w \in Watches : w # Null
    BY DipBounceAssumption
  <2> QED
    BY <2>2, <2>3 DEF Unarmed, ArmedAt
<1> HIDE DEF waiting, armed
<1>3. Mine(waiting, held) /\ Mine(armed, held)
  BY <1>1, <1>2 DEF Mine
<1>4. Tells(waiting, held, all)
  BY <1>2, <1>3 DEF Tells, ArmedFor
<1>5. CASE AtArmLine(price, reference, n)
  <2>1. price < reference
    BY <1>1, <1>5, LinesFall
  <2>2. ~armed.crashed => Len(all) \in DOMAIN all /\ all[Len(all)] = price /\ LowOf(Len(all), reference, n, all)
    BY <1>1, <1>2, <1>5, <2>1, LowHere
  <2>3. Tells(armed, held, all)
    BY <1>1, <1>2, <1>3, <2>2 DEF Tells
  <2> QED
    BY <1>4, <1>5, <2>3 DEF From, waiting, armed
<1>6. CASE ~AtArmLine(price, reference, n)
  BY <1>4, <1>6 DEF From, waiting
<1> QED
  BY <1>5, <1>6

(* A price folded into a watch that tells the truth leaves one that does,  *)
(* kept or not worth the write; and a step that fires has its dip and its  *)
(* bounce.                                                                 *)
LEMMA FoldedTells ==
  ASSUME NEW watch, NEW held \in Holdings, NEW price \in Prices, NEW at \in Int, NEW seen \in Seq(Prices),
         watch # Null => IsWatch(watch) /\ watch.at < at,
         held # <<>> => LastBuy(held).time <= at,
         Len(held) < MaxSteps,
         seen # <<>> \/ Mine(watch, held) => Tells(watch, held, seen)
  PROVE  LET folded == NextDipBounce(watch, price, at, held)
             kept   == IF WorthWriting(watch, folded.watch, held) THEN Keep(watch, folded.watch) ELSE watch
             all    == Append(seen, price)
             n      == Len(held) + 1
         IN  /\ Tells(kept, held, all)
             /\ folded.buy => \E i \in DOMAIN all :
                  /\ Measured(watch.reference, held, all)
                  /\ LowOf(i, watch.reference, n, all) /\ AtBounceLine(price, all[i], n)
<1> DEFINE n == Len(held) + 1
           since == Since(held)
           all == Append(seen, price)
           current == Current(watch, at, held)
           folded == NextDipBounce(watch, price, at, held)
           Kept1(w) == IF WorthWriting(watch, w, held) THEN Keep(watch, w) ELSE watch
           Fires == \E i \in DOMAIN all :
                      /\ Measured(watch.reference, held, all)
                      /\ LowOf(i, watch.reference, n, all) /\ AtBounceLine(price, all[i], n)
           Result(s) == Tells(Kept1(s.watch), held, all) /\ (s.buy => Fires)
<1> SUFFICES Result(folded)
  OBVIOUS
<1> HIDE DEF folded
<1>1. StampAfter(at, watch) = at /\ ~(Len(held) >= MaxSteps)
  BY LastOfHolding, DipBounceAssumption DEF StampAfter, IsWatch, Watches
<1>2. price \in Nat \ {0} /\ n \in Nat
  BY LastOfHolding, DipBounceAssumption
<1>3. ASSUME NEW w, NEW b, folded = Step(w, b), Tells(Kept1(w), held, all), b => Fires
      PROVE  Result(folded)
  <2>1. folded.watch = w /\ folded.buy = b
    BY <1>3 DEF Step
  <2> QED
    BY <1>3, <2>1
(* What is written is kept: it is newer.                                   *)
<1>4. ASSUME NEW w, w # Null, w.at = at, WorthWriting(watch, w, held) PROVE Kept1(w) = w
  BY <1>4 DEF Keep, IsWatch, Watches
<1>5. ASSUME NEW reference \in Nat, Measured(reference, held, all)
      PROVE  /\ Tells(Unarmed(reference, at, since), held, all)
             /\ Tells(From(reference, price, at, held), held, all)
  BY <1>5, NewTells
<1>6. ASSUME NEW reference \in Nat
      PROVE  LET u == Unarmed(reference, at, since)
                 f == From(reference, price, at, held)
             IN  /\ u # Null /\ u.at = at /\ u.holdingSince = since /\ ~u.armed /\ u.reference = reference
                 /\ f # Null /\ f.at = at /\ f.holdingSince = since /\ f.reference = reference
                 /\ f.armed => f.crashed = Collapsed(price, reference, n)
  <2> DEFINE u == Unarmed(reference, at, since)
             d == ArmedAt(reference, price, at, since, n)
  <2>1. IsWatch(u) /\ IsWatch(d)
    BY <1>2, LastOfHolding, NewWatches
  <2>2. u # Null /\ d # Null
    BY <2>1, DipBounceAssumption DEF IsWatch
  <2>3. /\ u.at = at /\ u.holdingSince = since /\ ~u.armed /\ u.reference = reference
        /\ d.at = at /\ d.holdingSince = since /\ d.reference = reference
        /\ d.crashed = Collapsed(price, reference, n)
    BY DEF Unarmed, ArmedAt
  <2>4. From(reference, price, at, held) = IF AtArmLine(price, reference, n) THEN d ELSE u
    BY DEF From
  <2> HIDE DEF u, d
  <2>5. LET f == From(reference, price, at, held)
        IN  /\ f # Null /\ f.at = at /\ f.holdingSince = since /\ f.reference = reference
            /\ f.armed => f.crashed = Collapsed(price, reference, n)
    BY <2>2, <2>3, <2>4
  <2> QED
    BY <2>2, <2>3, <2>5 DEF u
<1>7. CASE ~Mine(watch, held)
  <2> DEFINE reference == IF held = <<>> THEN price ELSE LastBuy(held).price
             fresh == From(reference, price, at, held)
  <2>1. folded = Step(fresh, FALSE)
    BY <1>1, <1>7 DEF folded, NextDipBounce, Current
  <2>2. seen = <<>>
    BY <1>7 DEF Tells
  <2>3. reference \in Nat /\ Measured(reference, held, all)
    <3>1. held = <<>> => Measured(price, <<>>, all)
      BY <1>2, <2>2, MeasuredFromHere
    <3> QED
      BY <1>2, <3>1, LastOfHolding DEF Measured
  <2>4. Tells(fresh, held, all) /\ fresh # Null /\ fresh.at = at /\ fresh.holdingSince = since
    BY <1>5, <1>6, <2>3
  <2> HIDE DEF fresh
  <2>5. WorthWriting(watch, fresh, held)
    <3>1. watch # Null => watch.at \in Int
      BY DEF IsWatch, Watches
    <3> QED
      BY <1>7, <2>4, <3>1, LastOfHolding DEF WorthWriting, Mine
  <2>6. Kept1(fresh) = fresh
    BY <1>4, <2>4, <2>5
  <2> QED
    BY <1>3, <2>1, <2>4, <2>6
<1>8. CASE Mine(watch, held)
  <2>1. /\ watch # Null /\ IsWatch(watch) /\ watch.reference \in Nat /\ watch.at \in Int /\ watch.at < at
        /\ watch.holdingSince = since /\ Tells(watch, held, seen) /\ Measured(watch.reference, held, seen)
    BY <1>8 DEF Mine, IsWatch, Watches, Tells
  <2>2. Kept1(watch) = watch
    BY DEF Keep
  <2>3. CASE ~ArmedFor(watch, n)
    <3> DEFINE reference == ReferenceAt(current, price, held)
               risen == From(reference, price, at, held)
               waited == Waiting(current, price, at, held)
    <3>1. /\ current # Null /\ ~current.armed /\ current.reference = watch.reference
          /\ current = watch \/ (watch.armed /\ current = Unarmed(watch.reference, at, since))
      BY <1>6, <1>8, <2>1, <2>3 DEF Current, ArmedFor, IsWatch
    <3>2. folded = Step(waited, FALSE)
      BY <1>1, <3>1 DEF folded, NextDipBounce
    <3>3. /\ reference \in Nat /\ reference = (IF held = <<>> /\ price > watch.reference THEN price ELSE watch.reference)
          /\ waited \in {current, risen} /\ (waited = current \/ waited = risen)
          /\ waited # risen => reference = watch.reference
      BY <1>2, <2>1, <3>1 DEF ReferenceAt, Waiting
    <3>4. Measured(reference, held, all)
      <4>1. CASE held = <<>> /\ price > watch.reference
        BY <1>2, <2>1, <3>3, <4>1, MeasuredFromHere
      <4>2. CASE ~(held = <<>> /\ price > watch.reference)
        BY <2>1, <3>3, <4>2, StillMeasured
      <4> QED
        BY <4>1, <4>2
    <3>5. ASSUME ~Moved(watch.reference, reference)
          PROVE  Tells(watch, held, all)
      <4>1. Measured(watch.reference, held, all)
        BY <2>1, <3>3, <3>5, StillMeasured
      <4> QED
        BY <1>8, <2>3, <4>1 DEF Tells
    <3>6. Tells(Kept1(risen), held, all)
      <4>1. Tells(risen, held, all) /\ risen # Null /\ risen.at = at /\ risen.reference = reference
        BY <1>5, <1>6, <3>3, <3>4
      <4> HIDE DEF risen, reference
      <4>2. CASE WorthWriting(watch, risen, held)
        BY <1>4, <4>1, <4>2
      <4>3. CASE ~WorthWriting(watch, risen, held)
        <5>1. ~Moved(watch.reference, reference)
          BY <4>1, <4>3 DEF WorthWriting
        <5> QED
          BY <3>5, <4>3, <5>1
      <4> QED
        BY <4>2, <4>3
    <3>7. CASE waited # risen
      <4>1. waited = current /\ reference = watch.reference
        BY <3>3, <3>7
      <4>2. ~Moved(watch.reference, watch.reference) \/ watch.reference = 0
        BY <2>1 DEF Moved
      <4>3. Tells(Kept1(current), held, all)
        <5>1. CASE current = watch
          <6>1. Measured(watch.reference, held, all)
            BY <3>4, <4>1
          <6>2. Tells(watch, held, all)
            BY <1>8, <2>3, <6>1 DEF Tells
          <6> QED
            BY <2>2, <5>1, <6>2
        <5>2. CASE watch.armed /\ current = Unarmed(watch.reference, at, since)
          <6>1. current.at = at /\ Tells(current, held, all)
            BY <1>5, <1>6, <2>1, <3>4, <4>1, <5>2
          <6>2. WorthWriting(watch, current, held)
            BY <3>1, <5>2 DEF WorthWriting
          <6> HIDE DEF current
          <6> QED
            BY <1>4, <3>1, <6>1, <6>2
        <5> QED
          BY <3>1, <5>1, <5>2
      <4> QED
        BY <1>3, <3>2, <4>1, <4>3
    <3>8. CASE waited = risen
      BY <1>3, <3>2, <3>6, <3>8
    <3> QED
      BY <3>7, <3>8
  <2>4. CASE ArmedFor(watch, n)
    <3> DEFINE low == Lower(watch, price)
               followed == Followed(watch, price, at)
               deeper == [watch EXCEPT !.low = low, !.at = at, !.crashed = TRUE]
    <3>1. current = watch /\ watch.armed /\ watch.low \in Nat /\ watch.low # Null /\ low \in Nat
      BY <1>2, <1>8, <2>1, <2>4, DipBounceAssumption DEF Current, ArmedFor, IsWatch, Watches, Lower
    <3>2. folded = Falling(watch, price, at, held)
      BY <1>1, <2>1, <3>1 DEF folded, NextDipBounce
    <3>3. /\ followed.reference = watch.reference /\ followed.holdingSince = since
          /\ followed.at \in {watch.at, at} /\ followed.crashed = watch.crashed
          /\ followed.low \in {watch.low, price} /\ followed # Null
          /\ deeper.reference = watch.reference /\ deeper.holdingSince = since
          /\ deeper.at = at /\ deeper.crashed = TRUE /\ deeper # Null
      <4>1. followed \in Watches /\ deeper \in Watches
        BY <1>2, <2>1, <3>1 DEF Followed, IsWatch, Watches
      <4>2. followed # Null /\ deeper # Null
        BY <4>1, DipBounceAssumption
      <4> QED
        BY <1>2, <2>1, <3>1, <4>2 DEF Followed, IsWatch, Watches
    <3>4. CASE Undone(price, watch)
      <4> DEFINE back == ReferenceAt(watch, price, held)
                 idle == Unarmed(back, at, since)
      <4>1. folded = Step(idle, FALSE)
        BY <3>2, <3>4 DEF Falling
      <4>2. back \in Nat /\ price >= watch.reference
            /\ back = (IF held = <<>> /\ price > watch.reference THEN price ELSE watch.reference)
        BY <1>2, <2>1, <3>4 DEF ReferenceAt, Undone
      <4>3. Measured(back, held, all)
        <5>1. CASE held = <<>>
          BY <1>2, <2>1, <4>2, <5>1, MeasuredFromHere
        <5>2. CASE held # <<>>
          BY <2>1, <4>2, <5>2, StillMeasured
        <5> QED
          BY <5>1, <5>2
      <4>4. Tells(idle, held, all) /\ idle # Null /\ idle.at = at /\ ~idle.armed
        BY <1>5, <1>6, <4>2, <4>3
      <4> HIDE DEF idle
      <4>5. WorthWriting(watch, idle, held)
        BY <3>1, <4>4 DEF WorthWriting
      <4> QED
        BY <1>3, <1>4, <4>1, <4>4, <4>5
    <3>5. CASE ~Undone(price, watch)
      <4>1. price < watch.reference /\ Measured(watch.reference, held, all)
        BY <1>2, <2>1, <3>5, StillMeasured DEF Undone
      (* A watch that has collapsed tells of no low.                       *)
      <4>2. ASSUME NEW w, w.reference = watch.reference, w.holdingSince = since, w.at \in {watch.at, at},
                   w # Null,
                   w.crashed \/ \E i \in DOMAIN all : all[i] <= w.low /\ LowOf(i, watch.reference, n, all)
            PROVE  Tells(w, held, all)
        <5>1. Mine(w, held)
          BY <1>8, <2>1, <4>2 DEF Mine
        <5> QED
          BY <4>1, <4>2, <5>1 DEF Tells
      <4>3. ASSUME watch.crashed \/ \E i \in DOMAIN all : /\ all[i] <= watch.low /\ all[i] <= followed.low
                                                          /\ LowOf(i, watch.reference, n, all)
            PROVE  Tells(Kept1(followed), held, all)
        <5>1. Tells(watch, held, all)
          BY <2>1, <4>2, <4>3
        <5>2. Tells(followed, held, all)
          BY <3>3, <4>2, <4>3
        <5>3. Kept1(followed) \in {watch, followed}
          BY KeepsOne
        <5> QED
          BY <5>1, <5>2, <5>3
      <4>4. CASE watch.crashed /\ Collapsed(price, watch.reference, n)
        <5>1. folded = Step(followed, FALSE)
          BY <3>2, <3>5, <4>4 DEF Falling
        <5> QED
          BY <1>3, <4>3, <4>4, <5>1
      <4>5. CASE watch.crashed /\ ~Collapsed(price, watch.reference, n)
        <5> DEFINE again == From(watch.reference, price, at, held)
        <5>1. folded = Step(again, FALSE)
          BY <3>2, <3>5, <4>5 DEF Falling
        <5>2. /\ Tells(again, held, all) /\ again # Null /\ again.at = at
              /\ again.armed => again.crashed = Collapsed(price, watch.reference, n)
          BY <1>5, <1>6, <2>1, <4>1
        <5> HIDE DEF again
        <5>3. WorthWriting(watch, again, held)
          BY <3>1, <4>5, <5>2 DEF WorthWriting
        <5> QED
          BY <1>3, <1>4, <5>1, <5>2, <5>3
      <4>6. CASE ~watch.crashed /\ Collapsed(low, watch.reference, n)
        <5>1. folded = Step(deeper, FALSE)
          BY <3>2, <3>5, <4>6 DEF Falling
        <5>2. Tells(deeper, held, all)
          BY <3>3, <4>2
        <5>3. WorthWriting(watch, deeper, held)
          BY <3>3, <4>6 DEF WorthWriting
        <5> HIDE DEF deeper
        <5> QED
          BY <1>3, <1>4, <3>3, <5>1, <5>2, <5>3
      <4>7. CASE ~watch.crashed /\ ~Collapsed(low, watch.reference, n)
        <5>1. folded = Step(followed, AtBounceLine(price, low, n))
          BY <3>2, <3>5, <4>7 DEF Falling
        <5>2. PICK i \in DOMAIN seen : seen[i] <= watch.low /\ LowOf(i, watch.reference, n, seen)
          BY <2>1, <2>4, <4>7 DEF Tells
        <5>3. seen[i] \in Nat \ {0} /\ low = (IF price < watch.low THEN price ELSE watch.low)
          BY OneMore, DipBounceAssumption DEF Lower
        <5>4. PICK l \in DOMAIN all : /\ all[l] \in Nat /\ all[l] <= watch.low /\ all[l] <= price
                                      /\ LowOf(l, watch.reference, n, all)
          <6>1. CASE price < seen[i]
            <7>1. low = price /\ AtArmLine(seen[i], watch.reference, n)
              BY <1>2, <3>1, <5>2, <5>3, <6>1 DEF LowOf
            <7>2. AtArmLine(price, watch.reference, n)
              BY <1>2, <2>1, <5>3, <6>1, <7>1, LinesFall
            <7>3. Len(all) \in DOMAIN all /\ all[Len(all)] = price /\ LowOf(Len(all), watch.reference, n, all)
              BY <1>2, <2>1, <4>1, <4>7, <7>1, <7>2, LowHere
            <7> QED
              BY <1>2, <3>1, <5>2, <5>3, <6>1, <7>3
          <6>2. CASE seen[i] <= price
            <7>1. i \in DOMAIN all /\ all[i] = seen[i] /\ LowOf(i, watch.reference, n, all)
              BY <1>2, <2>1, <4>1, <5>2, <6>2, LowStays
            <7> QED
              BY <5>2, <5>3, <6>2, <7>1
          <6> QED
            BY <1>2, <5>3, <6>1, <6>2
        <5>5. Tells(Kept1(followed), held, all)
          BY <3>3, <4>3, <5>4
        <5>6. AtBounceLine(price, low, n) => Fires
          <6> SUFFICES ASSUME AtBounceLine(price, low, n) PROVE Fires
            OBVIOUS
          <6>1. low = watch.low
            BY <1>2, <5>3, BounceRises
          <6>2. AtBounceLine(price, all[l], n)
            BY <1>2, <3>1, <5>4, <6>1, BouncesOffLess
          <6> QED
            BY <4>1, <5>4, <6>2
        <5> QED
          BY <1>3, <5>1, <5>5, <5>6
      <4> QED
        BY <4>4, <4>5, <4>6, <4>7
    <3> QED
      BY <3>4, <3>5
  <2> QED
    BY <2>3, <2>4
<1> QED
  BY <1>7, <1>8

-----------------------------------------------------------------------------
(* Each step keeps it.                                                     *)
LEMMA LookTells == IInv /\ LooksInv /\ Look => LooksInv'
<1> SUFFICES ASSUME IInv, LooksInv, Look PROVE LooksInv'
  OBVIOUS
<1>1. PICK price \in Prices :
        LET step == NextDipBounce(stored, price, clock', buys)
        IN  /\ stored' = IF WorthWriting(stored, step.watch, buys)
                         THEN Keep(stored, step.watch) ELSE stored
            /\ IF step.buy
               THEN pc' = "buy" /\ look' = [price |-> price, at |-> clock', watch |-> step.watch]
               ELSE UNCHANGED <<pc, look>>
            /\ looks' = Append(looks, price)
  BY DEF Look
<1> DEFINE n == Len(buys) + 1
           folded == NextDipBounce(stored, price, clock', buys)
           kept == IF WorthWriting(stored, folded.watch, buys) THEN Keep(stored, folded.watch) ELSE stored
           all == Append(looks, price)
           Fires == \E i \in DOMAIN all :
                      /\ Measured(stored.reference, buys, all)
                      /\ LowOf(i, stored.reference, n, all) /\ AtBounceLine(price, all[i], n)
<1>2. /\ pc = "idle" /\ clock' \in Nat /\ clock + 1 < clock'
      /\ UNCHANGED <<snapshot, buys, newest, crashes>>
  BY DipBounceAssumption DEF Look, IInv, TypeOK
<1>3. /\ TypeOK /\ StampInv /\ Kept(stored) /\ buys \in Holdings /\ looks \in Seq(Prices)
      /\ clock \in Nat /\ newest \in Int /\ TellsInv /\ RowInv
  BY DEF IInv, LooksInv, TypeOK, Holdings
<1>4. stored # Null => IsWatch(stored) /\ stored.at \in Int /\ stored.at < clock' /\ UnderLast(stored, buys)
  BY <1>2, <1>3 DEF TypeOK, IsWatch, Watches, Kept
<1>5. buys # <<>> => LastBuy(buys).time <= clock'
  BY <1>2, <1>3, LastOfHolding DEF StampInv
<1>6. Judged => /\ Tells(kept, buys, all)
                /\ folded.buy => Fires
  <2> SUFFICES ASSUME Judged PROVE Tells(kept, buys, all) /\ (folded.buy => Fires)
    OBVIOUS
  <2>1. Len(buys) < MaxSteps /\ (looks # <<>> \/ Mine(stored, buys) => Tells(stored, buys, looks))
    BY <1>3 DEF Judged, TellsInv
  <2>2. clock' \in Int
    BY <1>2
  <2>3. LET f == NextDipBounce(stored, price, clock', buys)
            k == IF WorthWriting(stored, f.watch, buys) THEN Keep(stored, f.watch) ELSE stored
        IN  /\ Tells(k, buys, all)
            /\ f.buy => Fires
    BY <1>3, <1>4, <1>5, <2>1, <2>2, FoldedTells
  <2> QED
    BY <2>3
<1>7. stored' = kept /\ looks' = all /\ (pc' # "idle" => pc' = "buy" /\ folded.buy /\ look'.price = price)
      /\ (~folded.buy => pc' = "idle")
  BY <1>1, <1>2
<1>8. folded.buy => Len(buys) < MaxSteps
  <2>1. ~(Len(buys) >= MaxSteps) => Len(buys) < MaxSteps
    BY <1>3, LastOfHolding, DipBounceAssumption
  <2> QED
    BY <2>1 DEF NextDipBounce, Step
<1>9. (folded.watch # Null => IsWatch(folded.watch)) /\ (folded.buy => stored # Null)
  <2>1. stored # Null => IsWatch(stored) /\ stored.at < clock' /\ UnderLast(stored, buys)
    BY <1>4
  <2>2. clock' \in Int
    BY <1>2
  <2>3. LET f == NextDipBounce(stored, price, clock', buys)
        IN  /\ f.watch # Null => IsWatch(f.watch) /\ f.watch.at <= clock' /\ UnderLast(f.watch, buys)
            /\ f.buy => /\ f.watch = stored /\ stored # Null
                        /\ buys # <<>> => price < LastBuy(buys).price
    BY <1>3, <2>1, <2>2, FoldedPrice
  <2> QED
    BY <2>3
<1>10. stored # Null =>
        /\ kept # Null /\ kept.at \in Int /\ stored.at <= kept.at
        /\ buys # <<>> /\ stored.holdingSince = Since(buys) => kept.holdingSince = Since(buys)
  <2> SUFFICES ASSUME stored # Null
               PROVE  /\ kept # Null /\ kept.at \in Int /\ stored.at <= kept.at
                      /\ buys # <<>> /\ stored.holdingSince = Since(buys) => kept.holdingSince = Since(buys)
    OBVIOUS
  <2>2. CASE ~(Len(buys) >= MaxSteps)
    <3>1. buys # <<>> => Judged
      BY <1>3, <2>2, LastOfHolding, DipBounceAssumption DEF Judged
    <3>2. buys # <<>> => kept.holdingSince = Since(buys)
      BY <1>6, <3>1 DEF Tells, Mine
    <3> HIDE DEF folded
    <3> QED
      BY <1>4, <1>9, <3>2 DEF Keep, IsWatch, Watches
  <2>3. CASE Len(buys) >= MaxSteps
    <3>1. folded.watch = stored
      BY <2>3 DEF NextDipBounce, Step
    <3>2. kept = stored
      BY <3>1 DEF Keep
    <3> QED
      BY <1>4, <3>2
  <2> QED
    BY <2>2, <2>3
<1> HIDE DEF kept, folded, all
<1>11. TellsInv'
  <2>1. Judged' => Judged /\ looks' = all /\ stored' = kept /\ buys' = buys
    BY <1>2, <1>7 DEF Judged
  <2> QED
    BY <1>6, <2>1 DEF TellsInv
<1>12. RowInv'
  <2>1. crashes' = 0 /\ buys' # <<>> => stored' # Null /\ stored'.holdingSince = Since(buys')
    BY <1>2, <1>3, <1>7, <1>10 DEF RowInv
  <2>2. snapshot' # Null => stored' # Null /\ snapshot'.at <= stored'.at
    <3>1. snapshot # Null => snapshot.at \in Int /\ stored # Null /\ snapshot.at <= stored.at
      BY <1>3 DEF TypeOK, IsWatch, Watches, RowInv
    <3> QED
      BY <1>2, <1>4, <1>7, <1>10, <3>1
  <2>3. pc' # "watch"
    BY <1>7
  <2> QED
    BY <2>1, <2>2, <2>3 DEF RowInv, Since
<1>13. DippedAndBounced'
  <2> SUFFICES ASSUME pc' = "buy", buys = <<>> => crashes = 0
               PROVE  DippedAndBounced'
    BY <1>2 DEF DippedAndBounced
  <2>1. folded.buy /\ look'.price = price /\ Fires
    BY <1>6, <1>7, <1>8 DEF Judged
  <2>2. PICK i \in DOMAIN all :
          /\ Measured(stored.reference, buys, all)
          /\ LowOf(i, stored.reference, n, all) /\ AtBounceLine(price, all[i], n)
    BY <2>1
  <2>3. stored.reference \in References'
    <3>1. stored.reference \in
            IF buys = <<>>
            THEN {all[k] : k \in {h \in DOMAIN all :
                    \A j \in DOMAIN all : all[j] > all[h] => ~Moved(all[h], all[j])}}
            ELSE {LastBuy(buys).live, LastBuy(buys).price}
      BY <2>2 DEF Measured
    <3> QED
      BY <1>2, <1>7, <3>1 DEF References, LastBuy
  <2>4. /\ AtArmLine(all[i], stored.reference, n) /\ AtBounceLine(price, all[i], n)
        /\ CeilingOf(n) > 0 => 100 * all[i] >= stored.reference * (100 - CeilingOf(n))
        /\ \A j \in i..Len(all) : all[i] <= all[j] /\ all[j] < stored.reference
    <3>1. i \in Nat /\ all[i] \in Nat /\ stored # Null /\ stored.reference \in Nat
      <4>1. all[i] \in Prices /\ i \in Nat
        BY <1>3, OneMore DEF all
      <4>2. stored # Null
        BY <1>9, <2>1
      <4> QED
        BY <1>4, <4>1, <4>2, DipBounceAssumption DEF IsWatch, Watches
    <3>2. CeilingOf(n) \in Nat
      <4>1. n \in Nat
        BY <1>3, LastOfHolding
      <4> QED
        BY <4>1, CeilingIsNat
    <3>3. PICK product \in Int : stored.reference * (100 - CeilingOf(n)) = product
      <4>1. \A m, k \in Int : m * k \in Int
        BY SMT
      <4> QED
        BY <3>1, <3>2, <4>1
    <3> HIDE DEF n
    <3> QED
      BY <2>2, <3>1, <3>2, <3>3 DEF LowOf, Collapsed
  <2> QED
    BY <1>2, <1>7, <2>1, <2>3, <2>4 DEF DippedAndBounced
<1> QED
  BY <1>11, <1>12, <1>13 DEF LooksInv

LEMMA SelectTells == IInv /\ LooksInv /\ Select => LooksInv'
<1> SUFFICES ASSUME IInv, LooksInv, Select PROVE LooksInv'
  OBVIOUS
<1>1. pc = "idle" /\ pc' = "select" /\ UNCHANGED <<stored, snapshot, buys, newest, crashes, looks>>
  BY DEF Select
<1>2. TellsInv' /\ RowInv'
  BY <1>1 DEF LooksInv, TellsInv, Judged, RowInv, Since, Mine, Tells, Measured, LastBuy
<1> QED
  BY <1>1, <1>2 DEF LooksInv, DippedAndBounced

LEMMA FillTells == IInv /\ LooksInv /\ Fill => LooksInv'
<1> SUFFICES ASSUME IInv, LooksInv, Fill PROVE LooksInv'
  OBVIOUS
<1>1. PICK paid \in Paid(look.price) :
        buys' = Append(buys, [time |-> newest', price |-> paid, live |-> look.price])
  BY DEF Fill
<1>2. /\ pc \in {"buy", "select"} /\ pc' = "watch" /\ looks' = <<>> /\ newest' = Stamped(look.at)
      /\ UNCHANGED <<clock, stored, snapshot, look, crashes>>
  BY DEF Fill
<1>3. /\ TypeOK /\ StepInv /\ RowInv /\ clock \in Nat /\ newest \in Int
      /\ buys \in Seq([time : Int, price : Nat, live : Prices])
  BY DEF IInv, LooksInv, TypeOK
<1>4. newest' = clock /\ Newer(stored)
  BY <1>2, <1>3 DEF StepInv, Stamped
<1>5. buys' # <<>> /\ LastBuy(buys') = [time |-> newest', price |-> paid, live |-> look.price]
  BY <1>1, <1>3 DEF LastBuy
<1>6. ~Mine(stored', buys')
  BY <1>2, <1>3, <1>4, <1>5 DEF Mine, Newer, TypeOK, IsWatch, Watches
<1>7. TellsInv'
  BY <1>2, <1>6 DEF TellsInv
<1>8. RowInv'
  BY <1>2, <1>3, <1>4, <1>5 DEF RowInv, Newer, LastBuy
<1> QED
  BY <1>2, <1>7, <1>8 DEF LooksInv, DippedAndBounced

LEMMA SaveWatchTells == IInv /\ LooksInv /\ SaveWatch => LooksInv'
<1> SUFFICES ASSUME IInv, LooksInv, SaveWatch PROVE LooksInv'
  OBVIOUS
<1> DEFINE after == WatchAfterBuy(look.price, LastBuy(buys).time, Since(buys), look.watch)
<1>1. /\ pc = "watch" /\ pc' = "idle" /\ look' = NoLook
      /\ stored' = Keep(stored, after)
      /\ UNCHANGED <<clock, snapshot, buys, newest, crashes, looks>>
  BY DEF SaveWatch
<1>2. TypeOK /\ StampInv /\ StepInv /\ RowInv /\ clock \in Nat
  BY DEF IInv, LooksInv, TypeOK
<1>3. /\ buys # <<>> /\ LastBuy(buys).time = clock /\ look.price = LastBuy(buys).live /\ looks = <<>>
      /\ look.price \in Nat /\ Newer(look.watch) /\ Newer(stored)
  BY <1>1, <1>2, DipBounceAssumption DEF StepInv, RowInv
<1>4. StampAfter(clock, look.watch) = clock
  BY <1>2, <1>3 DEF StampAfter, Newer, TypeOK, IsWatch, Watches
<1>5. after = Unarmed(look.price, clock, Since(buys))
  BY <1>3, <1>4 DEF WatchAfterBuy
<1>6. /\ after # Null /\ after.at = clock /\ after.reference = look.price /\ ~after.armed
      /\ after.holdingSince = Since(buys)
  <2>1. Since(buys) \in Int \cup {Null}
    BY <1>2, LastOfHolding DEF Holdings, TypeOK
  <2>2. clock \in Int /\ 1 \in Nat
    BY <1>2
  <2>3. IsWatch(Unarmed(look.price, clock, Since(buys)))
    BY <1>3, <2>1, <2>2, NewWatches
  <2>4. Unarmed(look.price, clock, Since(buys)) # Null
    BY <2>3, DipBounceAssumption DEF IsWatch
  <2> QED
    BY <1>5, <2>4 DEF Unarmed
<1> HIDE DEF after
<1>7. stored' = after
  BY <1>1, <1>2, <1>3, <1>6 DEF Keep, Newer, TypeOK, IsWatch, Watches
<1>8. Tells(after, buys, looks)
  BY <1>2, <1>3, <1>6 DEF Tells, Mine, Measured, ArmedFor
<1>9. TellsInv'
  <2>1. Tells(stored', buys', looks')
    BY <1>1, <1>7, <1>8
  <2> QED
    BY <2>1 DEF TellsInv
<1>10. snapshot # Null => snapshot.at <= after.at
  BY <1>2, <1>3, <1>6 DEF RowInv, Newer, TypeOK, IsWatch, Watches
<1>11. RowInv'
  <2>1. Since(buys') = Since(buys)
    BY <1>1
  <2> QED
    BY <1>1, <1>6, <1>7, <1>10, <2>1 DEF RowInv, Since
<1> QED
  BY <1>1, <1>9, <1>11 DEF LooksInv, DippedAndBounced

LEMMA SellTells == IInv /\ LooksInv /\ Sell => LooksInv'
<1> SUFFICES ASSUME IInv, LooksInv, Sell PROVE LooksInv'
  OBVIOUS
<1>1. /\ pc = "idle" /\ buys # <<>> /\ buys' = <<>> /\ looks' = <<>>
      /\ UNCHANGED <<clock, stored, snapshot, pc, look, crashes>>
  BY DEF Sell
<1>2. RowInv /\ buys \in Seq([time : Int, price : Nat, live : Prices])
  BY DEF IInv, LooksInv, TypeOK
<1>3. Since(buys) # Null
  <2> DEFINE Buys == [time : Int, price : Nat, live : Prices]
  <2>1. buys \in Seq(Buys) /\ 1 \in DOMAIN buys
    BY <1>1, <1>2
  <2>2. buys[1] \in Buys
    <3> HIDE DEF Buys
    <3> QED
      BY <2>1
  <2> QED
    BY <1>1, <2>2, DipBounceAssumption DEF Since
<1>4. Judged' => ~Mine(stored', buys')
  BY <1>1, <1>2, <1>3 DEF Judged, RowInv, Mine, Since
<1>5. TellsInv' /\ RowInv'
  BY <1>1, <1>2, <1>4 DEF TellsInv, RowInv
<1> QED
  BY <1>1, <1>5 DEF LooksInv, DippedAndBounced

LEMMA OtherTells == IInv /\ LooksInv /\ (Refuse \/ ReadRow \/ WriteRow \/ Crash \/ UNCHANGED vars) => LooksInv'
<1> SUFFICES ASSUME IInv, LooksInv, Refuse \/ ReadRow \/ WriteRow \/ Crash \/ UNCHANGED vars
             PROVE  LooksInv'
  OBVIOUS
<1> USE DEF Since, Mine, Tells, Measured, LastBuy, LowOf
<1>1. TypeOK /\ TellsInv /\ RowInv
  BY DEF IInv, LooksInv
<1>2. CASE Refuse
  BY <1>1, <1>2 DEF Refuse, LooksInv, TellsInv, Judged, RowInv, DippedAndBounced
<1>3. CASE ReadRow
  <2>1. stored # Null => stored.at <= stored.at
    BY <1>1 DEF TypeOK, IsWatch, Watches
  <2> QED
    BY <1>1, <1>3, <2>1 DEF ReadRow, LooksInv, TellsInv, Judged, RowInv, DippedAndBounced
<1>4. CASE WriteRow
  <2>1. stored' = stored
    BY <1>1, <1>4 DEF WriteRow, RowInv, Keep, TypeOK, IsWatch, Watches
  <2> QED
    BY <1>1, <1>4, <2>1 DEF WriteRow, LooksInv, TellsInv, Judged, RowInv, DippedAndBounced
<1>5. CASE Crash
  <2>1. crashes' # 0
    BY <1>1, <1>5 DEF Crash, TypeOK
  <2> QED
    BY <1>1, <1>5, <2>1 DEF Crash, LooksInv, TellsInv, Judged, RowInv, DippedAndBounced
<1>6. CASE UNCHANGED vars
  BY <1>1, <1>6 DEF vars, LooksInv, TellsInv, Judged, RowInv, DippedAndBounced, Newer, References
<1> QED
  BY <1>2, <1>3, <1>4, <1>5, <1>6

(* What the ladder fires on is a dip to the step's line, within its        *)
(* ceiling, off what the last buy left, and the bounce from it: whatever   *)
(* the prices, whatever moves were not worth a write, whoever saves the    *)
(* row back and however often the process dies.                            *)
THEOREM AlwaysDippedAndBounced == Spec => []DippedAndBounced
<1>1. Init => LooksInv
  BY DEF Init, LooksInv, TellsInv, RowInv, DippedAndBounced, Mine
<1>2. IInv /\ LooksInv /\ [Next]_vars => LooksInv'
  BY LookTells, SelectTells, FillTells, SaveWatchTells, SellTells, OtherTells DEF Next
<1>3. LooksInv => DippedAndBounced
  BY DEF LooksInv
<1> QED
  BY <1>1, <1>2, <1>3, Invariance, PTL DEF Spec
=============================================================================
