-------------------------- MODULE Providers_proofs --------------------------
(***************************************************************************)
(* What is made of the providers' answers, for any tokens, budgets and     *)
(* limits: the scan (Scan) and the memories and the patience of its feeds  *)
(* (Feeds).                                                                *)
(***************************************************************************)
EXTENDS Scan, Feeds, FiniteSetTheorems, WellFoundedInduction, TLAPS

-----------------------------------------------------------------------------
(* Serving a set in order.                                                 *)

(* A set of naturals that has a member has a least one.                    *)
LEMMA LeastNatural ==
  ASSUME NEW T \in SUBSET Nat, T # {}
  PROVE  \E x \in T : \A y \in T : x <= y
<1> DEFINE R == OpToRel(<, Nat)
<1>1. IsWellFoundedOn(R, Nat)
  BY NatLessThanWellFounded
<1>2. \A x, y \in Nat : y < x => <<y, x>> \in R
  BY DEF OpToRel
<1> HIDE DEF R
<1>3. PICK x \in T : \A y \in T : ~ (<<y, x>> \in R)
  BY <1>1, WFMin
<1>4. \A y \in T : x <= y
  <2> TAKE y \in T
  <2>1. ~(y < x)
    BY <1>2, <1>3
  <2> QED  BY <2>1
<1> QED  BY <1>4

Ahead(S, R, t)  == {u \in S : <<u, t>> \in R}
Served(S, R, n) == {t \in S : Cardinality(Ahead(S, R, t)) < n}

(* Of those a strict order serves, fewer than n have fewer than n before   *)
(* them: their places are all different.                                   *)
LEMMA ServedInOrder ==
  ASSUME NEW S, IsFiniteSet(S), NEW n \in Nat, NEW R,
         \A t, u \in S : t # u => <<t, u>> \in R \/ <<u, t>> \in R,
         \A t \in S : <<t, t>> \notin R,
         \A t, u, v \in S : <<t, u>> \in R /\ <<u, v>> \in R => <<t, v>> \in R
  PROVE  Cardinality(Served(S, R, n)) <= n
<1> DEFINE place == [t \in Served(S, R, n) |-> Cardinality(Ahead(S, R, t))]
<1>1. ASSUME NEW t \in S
      PROVE  IsFiniteSet(Ahead(S, R, t)) /\ Cardinality(Ahead(S, R, t)) \in Nat
  <2>1. Ahead(S, R, t) \in SUBSET S
    BY DEF Ahead
  <2> QED  BY <2>1, FS_Subset, FS_CardinalityType
<1>2. ASSUME NEW t \in S, NEW u \in S, <<t, u>> \in R
      PROVE  Cardinality(Ahead(S, R, t)) # Cardinality(Ahead(S, R, u))
  <2>1. Ahead(S, R, t) \in SUBSET Ahead(S, R, u) /\ t \in Ahead(S, R, u) /\ t \notin Ahead(S, R, t)
    BY <1>2 DEF Ahead
  <2> QED  BY <1>1, <2>1, FS_Subset
<1>3. place \in [Served(S, R, n) -> 0..(n - 1)]
  BY <1>1 DEF Served
<1>4. \A t, u \in Served(S, R, n) : place[t] = place[u] => t = u
  <2> TAKE t, u \in Served(S, R, n)
  <2>1. place[t] = Cardinality(Ahead(S, R, t)) /\ place[u] = Cardinality(Ahead(S, R, u))
    OBVIOUS
  <2> HIDE DEF place
  <2> QED  BY <1>2, <2>1 DEF Served
<1>5. place \in Injection(Served(S, R, n), 0..(n - 1))
  BY <1>3, <1>4 DEF Injection, IsInjective
<1>6. IsFiniteSet(0..(n - 1)) /\ Cardinality(0..(n - 1)) = n
  BY FS_Interval
<1> HIDE DEF place
<1> QED  BY <1>5, <1>6, FS_Injection

(* FirstOf serves no more than it is asked for, and all it can.            *)
LEMMA FirstOfBound ==
  ASSUME NEW S \in SUBSET Nat, IsFiniteSet(S), NEW n \in Nat
  PROVE  FirstOf(S, n) \subseteq S /\ IsFiniteSet(FirstOf(S, n)) /\ Cardinality(FirstOf(S, n)) <= n
<1> DEFINE R == {p \in Nat \X Nat : p[1] < p[2]}
<1>1. \A t, u \in S : t # u => <<t, u>> \in R \/ <<u, t>> \in R
  OBVIOUS
<1>2. \A t \in S : <<t, t>> \notin R
  OBVIOUS
<1>3. \A t, u, v \in S : <<t, u>> \in R /\ <<u, v>> \in R => <<t, v>> \in R
  OBVIOUS
<1>4. \A t, u \in S : <<u, t>> \in R <=> u < t
  OBVIOUS
<1> HIDE DEF R
<1>5. Cardinality(Served(S, R, n)) <= n
  BY <1>1, <1>2, <1>3, ServedInOrder
<1>6. \A t \in S : Ahead(S, R, t) = {u \in S : u < t}
  BY <1>4 DEF Ahead
<1>7. FirstOf(S, n) = Served(S, R, n)
  BY <1>6 DEF FirstOf, Served
<1>8. FirstOf(S, n) \in SUBSET S
  BY DEF FirstOf
<1> QED  BY <1>5, <1>7, <1>8, FS_Subset

LEMMA FirstOfServes ==
  ASSUME NEW S \in SUBSET Nat, NEW n \in Nat, n > 0, S # {}
  PROVE  FirstOf(S, n) # {}
<1>1. PICK t \in S : \A u \in S : t <= u
  BY LeastNatural
<1>2. {u \in S : u < t} = {}
  <2>1. \A u \in S : u \in Nat /\ t \in Nat /\ ~(u < t)
    BY <1>1
  <2> QED  BY <2>1
<1>3. Cardinality({u \in S : u < t}) = 0
  BY <1>2, FS_EmptySet
<1> QED  BY <1>3 DEF FirstOf

(* The smaller of two.                                                     *)
LEMMA MinOfTwo ==
  ASSUME NEW a \in Int, NEW b \in Int
  PROVE  Min({a, b}) \in {a, b} /\ Min({a, b}) <= a /\ Min({a, b}) <= b
<1>1. \E x \in {a, b} : \A y \in {a, b} : x <= y
  <2>1. CASE a <= b
    BY <2>1
  <2>2. CASE b <= a
    BY <2>2
  <2> QED  BY <2>1, <2>2
<1> QED  BY <1>1 DEF Min

-----------------------------------------------------------------------------
(* The scan: its invariant.                                                *)

ScanPlaces == {"discover", "intake", "paid", "candles", "done", "failed"}

ScanTypes ==
  /\ at \in ScanPlaces
  /\ asked \subseteq Universe /\ attempted \subseteq Universe
  /\ DOMAIN look \subseteq Universe /\ (at = "discover" => DOMAIN look = {})
  /\ roomLeft \in Nat /\ spent \in Nat /\ page \in Nat
  /\ queue \subseteq DOMAIN look /\ remembered \subseteq DOMAIN look /\ unexamined \subseteq DOMAIN look
  /\ examined \subseteq queue /\ barred \subseteq attempted

(* What waits for the paid stage, what is remembered and what goes on the  *)
(* screen unchecked are apart, until the stage ends and leaves the rest of *)
(* its queue unchecked.                                                    *)
ApartInv ==
  /\ queue \cap remembered = {} /\ unexamined \cap Judged = {}
  /\ at \in {"discover", "intake", "paid"} => unexamined \cap queue = {}

(* No check is paid past the budget.                                       *)
SpentInv == spent <= MaxChecks

(* What is held is in the universe.                                        *)
OursInv == at \in {"intake", "paid", "candles", "done"} => Ours \subseteq asked

(* While the candles of nobody failed, the paid stage ended for a reason.  *)
FilledInv ==
  at \in {"candles", "done"} /\ barred = {} =>
    Cardinality(Passed \ Ours) >= Wanted \/ Budget = 0 \/ Pending = {}

ScanInv == ScanTypes /\ ApartInv /\ SpentInv /\ OursInv /\ FilledInv

LEMMA ScanInvInit == ASSUME ScanAssumption, ScanInit PROVE ScanInv
<1> USE DEF ScanInit, NoLook
<1>1. ScanTypes
  BY DEF ScanTypes, ScanPlaces
<1>2. ApartInv /\ OursInv /\ FilledInv
  BY DEF ApartInv, OursInv, FilledInv, Judged
<1>3. SpentInv
  BY DEF SpentInv, ScanAssumption
<1> QED  BY <1>1, <1>2, <1>3 DEF ScanInv

(* The sets of the scan are finite.                                        *)
LEMMA ScanFinite ==
  ASSUME ScanAssumption, ScanTypes
  PROVE  /\ Universe \subseteq Nat /\ IsFiniteSet(Universe)
         /\ \A T \in SUBSET Universe : IsFiniteSet(T) /\ Cardinality(T) \in Nat
         /\ Pending \subseteq Universe /\ Passed \subseteq Universe /\ Candidates \subseteq Passed
         /\ Budget \in Nat /\ Shortfall0 \in Nat
<1>1. Universe \subseteq Nat /\ IsFiniteSet(Universe)
  BY DEF ScanAssumption, Universe
<1>2. \A T \in SUBSET Universe : IsFiniteSet(T) /\ Cardinality(T) \in Nat
  BY <1>1, FS_Subset, FS_CardinalityType
<1>3. Pending \subseteq Universe /\ Passed \subseteq Universe /\ Candidates \subseteq Passed
  BY DEF Pending, Passed, Judged, Candidates, ScanTypes
<1>4. Budget \in Nat
  BY DEF ScanAssumption, ScanTypes, Budget, Positive0
<1>5. Cardinality(PassedStrangers) \in Nat
  BY <1>2, <1>3 DEF PassedStrangers
<1>6. Shortfall0 \in Nat
  BY <1>5 DEF ScanAssumption, Shortfall0, Positive0
<1> QED  BY <1>1, <1>2, <1>3, <1>4, <1>6

(* A batch is of what waits and within the budget: ours, or no more        *)
(* strangers than are wanted; and none is left out for any other reason.   *)
LEMMA BatchFits ==
  ASSUME ScanAssumption, ScanTypes
  PROVE  /\ NextBatch \subseteq Pending /\ Cardinality(NextBatch) \in Nat
         /\ Cardinality(NextBatch) <= Budget
         /\ Pending \cap Ours # {} => NextBatch \subseteq Ours
         /\ Pending \cap Ours = {} => Cardinality(NextBatch) <= Shortfall0
         /\ NextBatch = {} => Budget = 0 \/ Pending = {} \/ Shortfall0 = 0
<1> DEFINE wanted == Min({Shortfall0, Budget})
<1>1. Pending \in SUBSET Nat /\ Pending \cap Ours \in SUBSET Nat
  BY ScanFinite
<1>2. IsFiniteSet(Pending) /\ IsFiniteSet(Pending \cap Ours)
  BY ScanFinite, FS_Subset
<1>3. Budget \in Nat /\ Shortfall0 \in Nat
  BY ScanFinite
<1>4. wanted \in {Shortfall0, Budget} /\ wanted <= Shortfall0 /\ wanted <= Budget
  <2>1. Budget \in Int /\ Shortfall0 \in Int
    BY <1>3
  <2> QED  BY <2>1, MinOfTwo
<1> HIDE DEF wanted
<1>5. CASE Pending \cap Ours # {}
  <2>1. NextBatch = FirstOf(Pending \cap Ours, Budget)
    BY <1>5 DEF NextBatch
  <2>2. /\ NextBatch \subseteq Pending \cap Ours /\ IsFiniteSet(NextBatch)
        /\ Cardinality(NextBatch) <= Budget
    BY <1>1, <1>2, <1>3, <2>1, FirstOfBound
  <2>3. NextBatch = {} => ~(Budget > 0)
    BY <1>1, <1>3, <1>5, <2>1, FirstOfServes
  <2>4. Cardinality(NextBatch) \in Nat
    BY <2>2, FS_CardinalityType
  <2> QED  BY <1>3, <1>5, <2>2, <2>3, <2>4
<1>6. CASE Pending \cap Ours = {}
  <2>1. NextBatch = FirstOf(Pending, wanted)
    BY <1>6 DEF NextBatch, wanted
  <2>2. wanted \in Nat
    BY <1>3, <1>4
  <2>3. NextBatch \subseteq Pending /\ IsFiniteSet(NextBatch) /\ Cardinality(NextBatch) <= wanted
    BY <1>1, <1>2, <2>1, <2>2, FirstOfBound
  <2>4. NextBatch = {} /\ Pending # {} => ~(wanted > 0)
    BY <1>1, <2>1, <2>2, FirstOfServes
  <2>5. Cardinality(NextBatch) \in Nat
    BY <2>3, FS_CardinalityType
  <2>6. Cardinality(NextBatch) <= Budget /\ Cardinality(NextBatch) <= Shortfall0
    BY <1>3, <1>4, <2>2, <2>3, <2>5
  <2> QED  BY <1>3, <1>4, <1>6, <2>2, <2>3, <2>4, <2>5, <2>6
<1> QED  BY <1>5, <1>6

(* The candles asked for next are of candidates not asked for before.      *)
LEMMA CandlesAreNew ==
  NextCandles \subseteq Candidates \ attempted
BY DEF NextCandles, FirstOf

LEMMA ScanTypesStep ==
  ASSUME ScanAssumption, ScanTypes, ScanNext
  PROVE  ScanTypes'
<1> USE DEF ScanTypes, ScanPlaces
<1>1. CASE Discover
  <2>1. asked' \subseteq Universe
    BY <1>1 DEF Discover, Capped, Universe
  <2>2. Positive0(MaxTokens - Cardinality(Ours)) \in Nat
    BY ScanFinite DEF ScanAssumption, Positive0, Universe
  <2>3. roomLeft' \in Nat
    <3> DEFINE room == Positive0(MaxTokens - Cardinality(Ours))
    <3>1. \A d \in SUBSET Strangers : Positive0(room - Cardinality(d)) \in Nat
      <4> TAKE d \in SUBSET Strangers
      <4>1. Cardinality(d) \in Nat
        BY ScanFinite DEF Universe
      <4> HIDE DEF room
      <4> QED  BY <2>2, <4>1 DEF Positive0, room
    <3>2. roomLeft' = room \/ \E d \in SUBSET Strangers : roomLeft' = Positive0(room - Cardinality(d))
      BY <1>1 DEF Discover
    <3> QED  BY <2>2, <3>1, <3>2
  <2>4. page' \in Nat /\ at' = "intake"
    <3>1. RegistryPages \in Nat
      BY DEF ScanAssumption
    <3>2. at' = "intake" /\ (page' = 0 \/ page' = RegistryPages)
      BY <1>1 DEF Discover
    <3> QED  BY <3>1, <3>2
  <2>5. Ours \subseteq asked'
    BY <1>1 DEF Discover, Capped
  <2> QED  BY <1>1, <2>1, <2>3, <2>4 DEF Discover
<1>2. CASE Intake
  <2>1. PICK priced \in SUBSET (Universe \ DOMAIN look) : \E seen \in [priced -> MarketLooks] :
          LET worth == {t \in priced : WorthPaying(t, seen[t])}
              known == Reported(worth, seen)
          IN /\ look' = [t \in DOMAIN look \cup priced |-> IF t \in priced THEN seen[t] ELSE look[t]]
             /\ remembered' = remembered \cup known
             /\ queue' = queue \cup (worth \ known)
             /\ unexamined' = unexamined \cup (priced \ worth)
    BY <1>2 DEF Intake
  <2>2. DOMAIN look' = DOMAIN look \cup priced
    BY <2>1
  <2>3. /\ queue' \subseteq queue \cup priced /\ queue \subseteq queue'
        /\ remembered' \subseteq remembered \cup priced /\ unexamined' \subseteq unexamined \cup priced
    BY <2>1 DEF Reported
  <2> QED  BY <1>2, <2>2, <2>3 DEF Intake
<1>3. CASE Examine
  <2>1. Cardinality(NextBatch) \in Nat /\ NextBatch \subseteq queue
    BY BatchFits DEF Pending
  <2> QED  BY <1>3, <2>1 DEF Examine
<1>4. CASE ReadPage
  <2>1. PICK listed \in SUBSET Strangers : \E fresh \in SUBSET (listed \ asked) :
          /\ Cardinality(fresh) = Min({roomLeft, Cardinality(listed \ asked)})
          /\ asked' = asked \cup fresh /\ roomLeft' = roomLeft - Cardinality(fresh)
          /\ at' = IF fresh = {} THEN "paid" ELSE "intake"
    BY <1>4 DEF ReadPage
  <2> PICK fresh \in SUBSET (listed \ asked) :
          /\ Cardinality(fresh) = Min({roomLeft, Cardinality(listed \ asked)})
          /\ asked' = asked \cup fresh /\ roomLeft' = roomLeft - Cardinality(fresh)
          /\ at' = IF fresh = {} THEN "paid" ELSE "intake"
    BY <2>1
  <2>2. Cardinality(fresh) \in Nat /\ Cardinality(listed \ asked) \in Nat
    <3>1. fresh \in SUBSET Universe /\ listed \ asked \in SUBSET Universe
      BY DEF Universe
    <3> QED  BY <3>1, ScanFinite
  <2>3. Cardinality(fresh) <= roomLeft
    <3>1. roomLeft \in Int /\ Cardinality(listed \ asked) \in Int
      BY <2>2
    <3> QED  BY <3>1, MinOfTwo
  <2>4. roomLeft' \in Nat /\ page' \in Nat
    BY <1>4, <2>2, <2>3 DEF ReadPage
  <2>5. asked' \subseteq Universe /\ asked \subseteq asked'
    BY DEF Universe
  <2> QED  BY <1>4, <2>4, <2>5 DEF ReadPage
<1>5. CASE RegistryEnds
  BY <1>5 DEF RegistryEnds, ScanAssumption
<1>6. CASE EndPaid
  BY <1>6 DEF EndPaid, Pending
<1>7. CASE ScanFails
  BY <1>7 DEF ScanFails
<1>8. CASE Download
  <2>1. NextCandles \subseteq Universe
    BY CandlesAreNew, ScanFinite
  <2> QED  BY <1>8, <2>1 DEF Download
<1>9. CASE EndScanOnce
  BY <1>9 DEF EndScanOnce
<1> QED
  BY <1>1, <1>2, <1>3, <1>4, <1>5, <1>6, <1>7, <1>8, <1>9 DEF ScanNext

LEMMA ApartStep ==
  ASSUME ScanAssumption, ScanTypes, ApartInv, ScanNext
  PROVE  ApartInv'
<1> USE DEF ApartInv, Judged
<1>1. CASE Intake
  <2>1. PICK priced \in SUBSET (Universe \ DOMAIN look) : \E seen \in [priced -> MarketLooks] :
          LET worth == {t \in priced : WorthPaying(t, seen[t])}
              known == Reported(worth, seen)
          IN /\ remembered' = remembered \cup known
             /\ queue' = queue \cup (worth \ known)
             /\ unexamined' = unexamined \cup (priced \ worth)
    BY <1>1 DEF Intake
  <2>2. PICK worth \in SUBSET priced : \E known \in SUBSET worth :
          /\ remembered' = remembered \cup known
          /\ queue' = queue \cup (worth \ known)
          /\ unexamined' = unexamined \cup (priced \ worth)
    BY <2>1 DEF Reported
  <2>3. priced \cap (queue \cup remembered \cup unexamined \cup examined) = {}
    BY DEF ScanTypes
  <2> QED  BY <1>1, <2>2, <2>3 DEF Intake
<1>2. CASE Examine
  <2>1. NextBatch \subseteq queue
    BY BatchFits DEF Pending
  <2> QED  BY <1>2, <2>1 DEF Examine
<1>3. CASE EndPaid
  BY <1>3 DEF EndPaid, Pending
<1>4. CASE Discover
  BY <1>4 DEF Discover
<1>5. CASE ReadPage \/ RegistryEnds
  BY <1>5 DEF ReadPage, RegistryEnds
<1>6. CASE ScanFails \/ Download \/ EndScanOnce
  BY <1>6 DEF ScanFails, Download, EndScanOnce
<1> QED  BY <1>1, <1>2, <1>3, <1>4, <1>5, <1>6 DEF ScanNext

LEMMA SpentStep ==
  ASSUME ScanAssumption, ScanTypes, SpentInv, ScanNext
  PROVE  SpentInv'
<1>1. CASE Examine
  <2>1. Cardinality(NextBatch) \in Nat /\ Cardinality(NextBatch) <= Budget
    BY BatchFits
  <2>2. spent \in Nat /\ MaxChecks \in Nat
    BY DEF ScanTypes, ScanAssumption
  <2> QED  BY <1>1, <2>1, <2>2 DEF Examine, SpentInv, Budget, Positive0
<1>2. CASE ~Examine
  BY <1>2 DEF ScanNext, Discover, Intake, ReadPage, RegistryEnds, EndPaid, ScanFails, Download,
              EndScanOnce, SpentInv
<1> QED  BY <1>1, <1>2

LEMMA OursStep ==
  ASSUME ScanTypes, OursInv, ScanNext
  PROVE  OursInv'
<1> USE DEF OursInv
<1>1. CASE Discover
  BY <1>1 DEF Discover, Capped
<1>2. CASE ReadPage
  BY <1>2 DEF ReadPage
<1>3. CASE Intake \/ Examine
  BY <1>3 DEF Intake, Examine
<1>4. CASE RegistryEnds \/ EndPaid \/ ScanFails
  BY <1>4 DEF RegistryEnds, EndPaid, ScanFails
<1>5. CASE Download \/ EndScanOnce
  BY <1>5 DEF Download, EndScanOnce
<1> QED  BY <1>1, <1>2, <1>3, <1>4, <1>5 DEF ScanNext

(* The stage ends when its batch is empty: for want of budget, of tokens,  *)
(* or of need.                                                             *)
LEMMA FilledStep ==
  ASSUME ScanAssumption, ScanTypes, ScanTypes', FilledInv, ScanNext
  PROVE  FilledInv'
<1> SUFFICES ASSUME at' \in {"candles", "done"}, barred' = {}
             PROVE  (Cardinality(Passed \ Ours) >= Wanted \/ Budget = 0 \/ Pending = {})'
  BY DEF FilledInv
<1>1. CASE EndPaid
  <2>1. NextBatch = {} /\ barred = {}
    BY <1>1 DEF EndPaid
  <2>2. Budget = 0 \/ Pending = {} \/ Shortfall0 = 0
    BY <2>1, BatchFits
  <2>3. Cardinality(PassedStrangers) \in Nat /\ Wanted \in Nat
    <3>1. PassedStrangers \in SUBSET Universe
      BY ScanFinite DEF PassedStrangers
    <3> QED  BY <3>1, ScanFinite DEF ScanAssumption
  <2>4. Shortfall0 = 0 => Cardinality(Passed \ Ours) >= Wanted
    BY <2>3 DEF Shortfall0, Positive0, PassedStrangers
  <2>5. Passed' = Passed /\ Budget' = Budget /\ Pending' = Pending
    BY <1>1 DEF EndPaid, Passed, Judged, Budget, Pending
  <2> QED  BY <2>2, <2>4, <2>5
<1>2. CASE Download \/ EndScanOnce
  <2>1. barred = {} /\ at = "candles"
    BY <1>2 DEF Download, EndScanOnce
  <2>2. Passed' = Passed /\ Budget' = Budget /\ Pending' = Pending
    BY <1>2, <2>1 DEF Download, EndScanOnce, Passed, Judged, Budget, Pending
  <2> QED  BY <2>1, <2>2 DEF FilledInv
<1>3. CASE Discover \/ Intake \/ ReadPage \/ ScanFails
  BY <1>3 DEF Discover, Intake, ReadPage, ScanFails
<1>4. CASE Examine \/ RegistryEnds
  BY <1>4 DEF Examine, RegistryEnds
<1> QED  BY <1>1, <1>2, <1>3, <1>4 DEF ScanNext

LEMMA ScanInvStep == ASSUME ScanAssumption, ScanInv, [ScanNext]_scanVars PROVE ScanInv'
<1>1. CASE ScanNext
  BY <1>1, ScanTypesStep, ApartStep, SpentStep, OursStep, FilledStep DEF ScanInv
<1>2. CASE UNCHANGED scanVars
  BY <1>2 DEF scanVars, ScanInv, ScanTypes, ApartInv, SpentInv, OursInv, FilledInv, Judged, Passed,
              Budget, Pending
<1> QED  BY <1>1, <1>2

LEMMA ScanInvCorrect == ScanSpec => []ScanInv
<1>1. ScanAssumption
  BY ScanAssumption
<1>2. ScanInv /\ [ScanNext]_scanVars => ScanInv'
  BY <1>1, ScanInvStep
<1> QED  BY <1>1, <1>2, ScanInvInit, PTL DEF ScanSpec

-----------------------------------------------------------------------------
(* The scan: what it promises.                                             *)

(* Never more strangers among the candidates than there are slots.         *)
LEMMA CandidatesFit ==
  ASSUME ScanAssumption, ScanTypes
  PROVE  Cardinality(Candidates \ Ours) <= WatchSlots
<1> DEFINE S == Passed \ Ours
           R == {p \in S \X S : ServedBefore(p[1], p[2])}
<1>1. S \in SUBSET Nat /\ IsFiniteSet(S) /\ WatchSlots \in Nat
  BY ScanFinite DEF ScanAssumption
<1>2. \A t, u \in S : <<t, u>> \in R <=> ServedBefore(t, u)
  OBVIOUS
<1> HIDE DEF R
<1>3. \A t, u \in S : t # u => <<t, u>> \in R \/ <<u, t>> \in R
  BY <1>1, <1>2 DEF ServedBefore
<1>4. \A t \in S : <<t, t>> \notin R
  BY <1>1, <1>2 DEF ServedBefore
<1>5. \A t, u, v \in S : <<t, u>> \in R /\ <<u, v>> \in R => <<t, v>> \in R
  BY <1>1, <1>2 DEF ServedBefore
<1>6. \A t \in S : Ahead(S, R, t) = {u \in S : ServedBefore(u, t)}
  BY <1>2 DEF Ahead
<1>7. Candidates \ Ours = Served(S, R, WatchSlots)
  BY <1>6 DEF Candidates, Served
<1> HIDE DEF S
<1> QED  BY <1>1, <1>3, <1>4, <1>5, <1>7, ServedInOrder

(* OnlyVouchedFor: whatever the providers failed to answer, the scan hands *)
(* over what the paid stage judged and whose candles did not fail, and no  *)
(* more of it than there are slots.                                        *)
THEOREM OnlyVouchedForAlways == ScanSpec => []OnlyVouchedFor
<1>1. ASSUME ScanAssumption, ScanInv, at = "done"
      PROVE  OnlyVouchedFor
  <2> USE <1>1 DEF ScanInv
  <2>1. Candidates \subseteq Judged \ barred
    BY DEF Candidates, Passed
  <2>2. Vouched \subseteq Judged \ unexamined
    BY <2>1 DEF Vouched, ApartInv
  <2>3. Vouched \ Ours \subseteq attempted \ barred
    BY <2>1 DEF Vouched
  <2>4. Cardinality(Vouched \ Ours) <= WatchSlots
    <3>1. Candidates \ Ours \in SUBSET Universe /\ Vouched \ Ours \in SUBSET (Candidates \ Ours)
      BY ScanFinite DEF Vouched
    <3>2. /\ IsFiniteSet(Candidates \ Ours) /\ Cardinality(Candidates \ Ours) \in Nat
          /\ Cardinality(Vouched \ Ours) \in Nat
      BY <3>1, ScanFinite
    <3>3. Cardinality(Vouched \ Ours) <= Cardinality(Candidates \ Ours)
      BY <3>1, <3>2, FS_Subset
    <3>4. Cardinality(Candidates \ Ours) <= WatchSlots /\ WatchSlots \in Nat
      BY CandidatesFit DEF ScanAssumption
    <3> QED  BY <3>2, <3>3, <3>4
  <2> QED  BY <2>2, <2>3, <2>4 DEF OnlyVouchedFor
<1>2. ScanAssumption
  BY ScanAssumption
<1>3. ScanInv => OnlyVouchedFor
  BY <1>1, <1>2 DEF OnlyVouchedFor
<1> QED  BY <1>3, ScanInvCorrect, PTL

(* NobodyLeftOut: the paid stage ends with as many as were wanted, with    *)
(* its budget spent or with nobody waiting, and what is held is never      *)
(* capped out of the universe.                                             *)
THEOREM NobodyLeftOutAlways == ScanSpec => []NobodyLeftOut
<1>1. ScanInv => NobodyLeftOut
  BY DEF ScanInv, OursInv, FilledInv, NobodyLeftOut
<1> QED  BY <1>1, ScanInvCorrect, PTL

(* PaidForNeed: a batch is of ours while one of ours waits, never of more  *)
(* strangers than are short, never past the budget; and the rounds of the  *)
(* candles each ask for a new one.                                         *)
THEOREM PaidForNeedAlways == ScanSpec => PaidForNeed
<1> DEFINE Step ==
      /\ examined' \ examined # {} =>
           /\ Pending \cap Ours = {} \/ examined' \ examined \subseteq Ours
           /\ Cardinality((examined' \ examined) \ Ours) <= Shortfall0
           /\ spent' <= MaxChecks
      /\ at = "candles" /\ at' = "candles" => attempted' \ attempted # {}
<1>1. ASSUME ScanAssumption, ScanInv, ScanInv', ScanNext
      PROVE  Step
  <2> USE <1>1 DEF ScanInv
  <2>1. CASE Examine
    <3>1. examined' \ examined = NextBatch /\ at = "paid"
      BY <2>1, BatchFits DEF Examine, Pending
    <3>2. spent' <= MaxChecks
      BY DEF SpentInv
    <3>3. Pending \cap Ours = {} \/ NextBatch \subseteq Ours
      BY BatchFits
    <3>4. Cardinality(NextBatch \ Ours) <= Shortfall0
      <4>1. CASE NextBatch \subseteq Ours
        <5>1. NextBatch \ Ours = {}
          BY <4>1
        <5> QED  BY <5>1, FS_EmptySet, ScanFinite
      <4>2. CASE Pending \cap Ours = {}
        <5>1. NextBatch \ Ours = NextBatch
          BY <4>2, BatchFits
        <5> QED  BY <4>2, <5>1, BatchFits
      <4> QED  BY <3>3, <4>1, <4>2
    <3> QED  BY <3>1, <3>2, <3>3, <3>4
  <2>2. CASE Download
    <3>1. NextCandles \ attempted # {}
      BY <2>2, CandlesAreNew DEF Download
    <3> QED  BY <2>2, <3>1 DEF Download
  <2>3. CASE ~Examine /\ ~Download
    BY <2>3 DEF ScanNext, Discover, Intake, ReadPage, RegistryEnds, EndPaid, ScanFails, EndScanOnce
  <2> QED  BY <2>1, <2>2, <2>3
<1>2. ScanAssumption
  BY ScanAssumption
<1>3. ScanInv /\ ScanInv' /\ [ScanNext]_scanVars => [Step]_scanVars
  BY <1>1, <1>2
<1> QED  BY <1>3, ScanInvCorrect, PTL DEF ScanSpec, PaidForNeed

-----------------------------------------------------------------------------
(* The feeds: their invariant.                                             *)

Askers == {"pools", "hour", "prices", "quote"}
Calls ==
  [who : Askers, of : SUBSET Mints, asked : SUBSET Mints, at : Nat, flying : BOOLEAN, since : Nat,
   again : BOOLEAN, tries : Nat, pause : Nat, waited : Nat]

FeedsTypes ==
  /\ instant \in Nat
  /\ call = NoCall \/ call \in Calls

(* A reading was taken after the instant it is stamped with.               *)
PoolsInv == \A t \in Mints : pools[t].at \in Int /\ pools[t].taken \in Int
                             /\ (pools[t].at >= 0 => pools[t].at <= pools[t].taken)

(* What was told of a token is no older than its request could be when it  *)
(* came.                                                                   *)
InfosInv == \A t \in Mints : infos[t].at \in Int /\ infos[t].taken \in Int
                             /\ (infos[t].taken >= 0 => infos[t].at - infos[t].taken <= Abort)

(* A volatility is kept under the bar it was measured in.                  *)
HoursInv == \A t \in Mints : hours[t].measuredAt \in Int
                             /\ (hours[t].measuredAt >= 0 => BarOf(hours[t].measuredAt) = hours[t].bar)

(* A request is of now: what was not asked for was fresh when it went out, *)
(* nobody but the candles is waited for past the abort, and the door has   *)
(* waited no longer than its patience.                                     *)
CallInv ==
  call # NoCall =>
    /\ call.at <= call.since /\ call.since <= instant
    /\ call.asked \subseteq call.of /\ call.asked # {}
    /\ call.flying /\ call.who # "hour" => instant - call.since <= Abort
    /\ call.who = "pools" => \A t \in call.of \ call.asked : call.at - pools[t].taken <= Minute
    /\ call.waited <= Patience

HandedInv == ReadingsAreCurrent /\ PatientToTheEnd

FeedsInv == FeedsTypes /\ PoolsInv /\ InfosInv /\ HoursInv /\ CallInv /\ HandedInv

LEMMA FeedsNumbers ==
  ASSUME FeedsAssumption
  PROVE  Minute \in Nat /\ Abort \in Nat /\ Backoff \in Nat /\ Patience \in Nat
BY DEF FeedsAssumption

LEMMA FeedsInvInit == ASSUME FeedsAssumption, FeedsInit PROVE FeedsInv
<1> USE DEF FeedsInit, Never, NoHour, NoCall
<1>1. FeedsTypes /\ CallInv
  BY DEF FeedsTypes, CallInv
<1>2. PoolsInv /\ InfosInv /\ HoursInv
  BY DEF PoolsInv, InfosInv, HoursInv
<1>3. HandedInv
  BY DEF HandedInv, ReadingsAreCurrent, PatientToTheEnd
<1> QED  BY <1>1, <1>2, <1>3 DEF FeedsInv

LEMMA CallKnown ==
  ASSUME FeedsTypes, call.who # "nobody"
  PROVE  call \in Calls /\ call # NoCall
BY DEF FeedsTypes, NoCall, Calls, Askers

(* Asking: from memory, or with a request that leaves out what is fresh.   *)
LEMMA AskStep ==
  ASSUME FeedsAssumption, FeedsInv, NEW who \in Askers, NEW of \in SUBSET Mints,
         NEW missing \in SUBSET of, NEW out,
         Ask(who, of, missing, out),
         missing = {} => who # "quote",
         who = "pools" => \A t \in of \ missing : instant - pools[t].taken <= Minute,
         missing = {} =>
           \A t \in DOMAIN out :
             /\ who = "pools"  => instant - out[t] <= Minute
             /\ who = "prices" => instant - out[t] <= Minute + Abort
             /\ who = "hour" /\ out[t] >= 0 => BarOf(out[t]) = BarOf(instant)
  PROVE  FeedsInv'
<1> USE FeedsNumbers DEF FeedsInv
<1>1. UNCHANGED <<instant, pools, hours, infos>>
  BY DEF Ask
<1>2. PoolsInv' /\ InfosInv' /\ HoursInv'
  BY <1>1 DEF PoolsInv, InfosInv, HoursInv, BarOf
<1>3. CASE missing = {}
  <2>1. UNCHANGED call /\ handed' = [who |-> who, at |-> instant, waited |-> 0, out |-> out]
    BY <1>3 DEF Ask, Hand
  <2>2. FeedsTypes' /\ CallInv'
    BY <1>1, <2>1 DEF FeedsTypes, CallInv
  <2>3. HandedInv'
    BY <1>3, <2>1 DEF HandedInv, ReadingsAreCurrent, PatientToTheEnd
  <2> QED  BY <1>2, <2>2, <2>3
<1>4. CASE missing # {}
  <2>1. /\ call' = [who |-> who, of |-> of, asked |-> missing, at |-> instant, flying |-> FALSE,
                    since |-> instant, again |-> FALSE, tries |-> 0, pause |-> Backoff, waited |-> 0]
        /\ UNCHANGED handed
    BY <1>4 DEF Ask
  <2>2. FeedsTypes' /\ call' \in Calls
    BY <1>1, <2>1 DEF FeedsTypes, Calls
  <2>3. CallInv'
    BY <1>1, <1>4, <2>1, <2>2 DEF CallInv, FeedsTypes
  <2>4. HandedInv'
    BY <2>1 DEF HandedInv, ReadingsAreCurrent, PatientToTheEnd, BarOf
  <2> QED  BY <1>2, <2>2, <2>3, <2>4
<1> QED  BY <1>3, <1>4

LEMMA AsksStep ==
  ASSUME FeedsAssumption, FeedsInv, NEW of \in SUBSET Mints,
         AskPools(of) \/ \E refresh \in BOOLEAN : AskPrices(of, refresh)
  PROVE  FeedsInv'
<1> USE FeedsNumbers DEF FeedsInv, FeedsTypes
<1>1. CASE AskPools(of)
  <2> DEFINE fresh == {t \in of : Fresh(pools, t)}
             out   == [t \in fresh |-> pools[t].taken]
  <2>1. Ask("pools", of, of \ fresh, out)
    BY <1>1 DEF AskPools
  <2>2. \A t \in fresh : instant - pools[t].taken <= Minute
    BY DEF PoolsInv, Fresh
  <2>3. \A t \in of \ (of \ fresh) : instant - pools[t].taken <= Minute
    BY <2>2
  <2>4. \A t \in DOMAIN out : instant - out[t] <= Minute
    BY <2>2
  <2>5. of \ fresh \in SUBSET of /\ "pools" \in Askers
    BY DEF Askers
  <2> HIDE DEF fresh, out
  <2> QED  BY <2>1, <2>3, <2>4, <2>5, AskStep
<1>2. ASSUME NEW refresh \in BOOLEAN, AskPrices(of, refresh)
      PROVE  FeedsInv'
  <2> DEFINE missing == {t \in of : refresh \/ ~Fresh(infos, t)}
             out     == Told(infos, of)
  <2>1. Ask("prices", of, missing, out)
    BY <1>2 DEF AskPrices
  <2>2. \A t \in DOMAIN out : instant - out[t] <= Minute + Abort
    BY DEF Told, InfosInv, Fresh
  <2>3. missing \in SUBSET of /\ "prices" \in Askers
    BY DEF Askers
  <2> HIDE DEF missing, out
  <2> QED  BY <2>1, <2>2, <2>3, AskStep
<1> QED  BY <1>1, <1>2

LEMMA AsksOfOneStep ==
  ASSUME FeedsAssumption, FeedsInv, NEW t \in Mints, AskHour(t) \/ AskQuote(t)
  PROVE  FeedsInv'
<1> USE FeedsNumbers DEF FeedsInv
<1>1. CASE AskHour(t)
  <2> DEFINE missing == IF hours[t].bar = BarOf(instant) THEN {} ELSE {t}
             out     == [x \in {t} |-> hours[t].measuredAt]
  <2>1. Ask("hour", {t}, missing, out)
    BY <1>1 DEF AskHour
  <2>2. missing = {} => \A x \in DOMAIN out : out[x] >= 0 => BarOf(out[x]) = BarOf(instant)
    BY DEF HoursInv
  <2>3. missing \in SUBSET {t} /\ {t} \in SUBSET Mints /\ "hour" \in Askers
    BY DEF Askers
  <2> HIDE DEF missing, out
  <2> QED  BY <2>1, <2>2, <2>3, AskStep
<1>2. CASE AskQuote(t)
  <2> DEFINE out == << >>
  <2>1. Ask("quote", {t}, {t}, out)
    BY <1>2 DEF AskQuote
  <2>2. {t} \in SUBSET {t} /\ {t} \in SUBSET Mints /\ {t} # {} /\ "quote" \in Askers
    BY DEF Askers
  <2> HIDE DEF out
  <2> QED  BY <2>1, <2>2, AskStep
<1> QED  BY <1>1, <1>2

(* An answer that is handed within its time keeps the rest.                *)
LEMMA AnswerStep ==
  ASSUME FeedsAssumption, FeedsInv, call # NoCall, NEW out, Answer(out),
         UNCHANGED instant, PoolsInv', InfosInv', HoursInv',
         call.who = "quote" => IF out = << >> THEN call.waited = Patience ELSE call.waited <= Patience,
         \A t \in DOMAIN out :
           /\ call.who = "pools"  => call.at - out[t] <= Minute
           /\ call.who = "prices" => call.at - out[t] <= Minute + Abort
           /\ call.who = "hour" /\ out[t] >= 0 => BarOf(out[t]) = BarOf(call.at)
  PROVE  FeedsInv'
<1>1. call' = NoCall /\ handed' = [who |-> call.who, at |-> call.at, waited |-> call.waited, out |-> out]
  BY DEF Answer, Hand
<1>2. FeedsTypes' /\ CallInv'
  BY <1>1 DEF FeedsInv, FeedsTypes, CallInv
<1>3. HandedInv'
  BY <1>1 DEF HandedInv, ReadingsAreCurrent, PatientToTheEnd, BarOf
<1> QED  BY <1>2, <1>3 DEF FeedsInv

(* What the memories keep of an answer.                                    *)
LEMMA InfosRemembered ==
  ASSUME FeedsAssumption, FeedsInv, call # NoCall, call.flying, call.who # "hour",
         NEW found \in SUBSET call.asked, NEW taken \in Instants, infos' = Remembered(found, taken)
  PROVE  /\ InfosInv'
         /\ \A of \in SUBSET Mints : \A t \in DOMAIN Told(infos', of) :
              call.at - Told(infos', of)[t] <= Minute + Abort
<1> USE FeedsNumbers DEF FeedsInv
<1>1. call \in Calls /\ instant \in Nat
  BY DEF FeedsTypes
<1>2. call.at \in Nat /\ call.since \in Nat
  BY <1>1 DEF Calls
<1>3. taken \in Nat /\ instant - taken <= Abort /\ call.at <= instant
  BY <1>1, <1>2 DEF CallInv, Instants
<1>4. InfosInv'
  BY <1>1, <1>3 DEF InfosInv, Remembered
<1>5. ASSUME NEW of \in SUBSET Mints, NEW t \in DOMAIN Told(infos', of)
      PROVE  call.at - Told(infos', of)[t] <= Minute + Abort
  <2>1. /\ t \in Mints /\ instant - infos'[t].at <= Minute /\ infos'[t].taken >= 0
        /\ Told(infos', of)[t] = infos'[t].taken
    BY <1>5 DEF Told, Fresh
  <2>2. infos'[t].at \in Int /\ infos'[t].taken \in Int /\ infos'[t].at - infos'[t].taken <= Abort
    BY <1>4, <2>1 DEF InfosInv
  <2> QED  BY <1>1, <1>2, <1>3, <2>1, <2>2
<1> QED  BY <1>4, <1>5

LEMMA PoolsKept ==
  ASSUME FeedsInv, call # NoCall,
         NEW found \in SUBSET call.asked, NEW taken \in Instants, pools' = Kept(found, taken)
  PROVE  PoolsInv'
<1> USE DEF FeedsInv
<1>1. call \in Calls /\ instant \in Nat
  BY DEF FeedsTypes
<1>2. call.at \in Nat /\ call.since \in Nat
  BY <1>1 DEF Calls
<1>3. taken \in Nat /\ call.at <= taken
  BY <1>1, <1>2 DEF CallInv, Instants
<1> QED  BY <1>2, <1>3 DEF PoolsInv, Kept, Never

LEMMA PoolsAnsweredStep ==
  ASSUME FeedsAssumption, FeedsInv, PoolsAnswered
  PROVE  FeedsInv'
<1> USE FeedsNumbers DEF FeedsInv
<1>1. call \in Calls /\ call # NoCall /\ call.who = "pools" /\ call.flying
  BY CallKnown DEF PoolsAnswered, Flying
<1>2. PICK found \in SUBSET call.asked, taken \in Instants :
        /\ infos' = Remembered(found, taken) /\ pools' = Kept(found, taken)
        /\ Answer([t \in call.of \ (call.asked \ found) |-> IF t \in found THEN taken ELSE pools[t].taken])
  BY DEF PoolsAnswered
<1>3. PoolsInv' /\ InfosInv'
  BY <1>1, <1>2, PoolsKept, InfosRemembered
<1>4. HoursInv' /\ UNCHANGED instant
  BY DEF PoolsAnswered, HoursInv, BarOf
<1>5. \A t \in found : call.at - taken <= Minute
  <2>1. call.at \in Nat /\ call.since \in Nat /\ instant \in Nat
    BY <1>1 DEF Calls, FeedsTypes
  <2> QED  BY <1>1, <2>1 DEF CallInv, Instants
<1>6. \A t \in call.of \ call.asked : call.at - pools[t].taken <= Minute
  BY <1>1 DEF CallInv
<1> DEFINE out == [t \in call.of \ (call.asked \ found) |-> IF t \in found THEN taken ELSE pools[t].taken]
<1>7. \A t \in DOMAIN out : call.at - out[t] <= Minute
  BY <1>5, <1>6
<1>8. Answer(out)
  BY <1>2
<1> HIDE DEF out
<1> QED  BY <1>1, <1>3, <1>4, <1>7, <1>8, AnswerStep

LEMMA PoolsRefusedStep ==
  ASSUME FeedsAssumption, FeedsInv, PoolsRefused
  PROVE  FeedsInv'
<1> USE FeedsNumbers DEF FeedsInv
<1>1. call \in Calls /\ call # NoCall /\ call.who = "pools" /\ call.flying
  BY CallKnown DEF PoolsRefused, Flying
<1>2. Answer(InHand) /\ UNCHANGED <<instant, infos, hours>>
  BY DEF PoolsRefused
<1>3. PoolsInv'
  <2>1. CASE pools' = pools
    BY <2>1 DEF PoolsInv
  <2>2. CASE pools' = Kept({}, instant)
    BY <2>2 DEF PoolsInv, Kept, Never
  <2> QED  BY <2>1, <2>2 DEF PoolsRefused
<1>4. InfosInv' /\ HoursInv'
  BY <1>2 DEF InfosInv, HoursInv, BarOf
<1>5. \A t \in DOMAIN InHand : call.at - InHand[t] <= Minute
  BY <1>1 DEF CallInv, InHand
<1> QED  BY <1>1, <1>2, <1>3, <1>4, <1>5, AnswerStep

LEMMA PricesAnsweredStep ==
  ASSUME FeedsAssumption, FeedsInv, PricesAnswered
  PROVE  FeedsInv'
<1> USE FeedsNumbers DEF FeedsInv
<1>1. call \in Calls /\ call # NoCall /\ call.who = "prices" /\ call.flying
  BY CallKnown DEF PricesAnswered, Flying
<1>2. PICK found \in SUBSET call.asked, taken \in Instants :
        infos' = Remembered(found, taken) /\ Answer(Told(infos', call.of))
  BY DEF PricesAnswered
<1>3. PoolsInv' /\ HoursInv' /\ UNCHANGED instant
  BY DEF PricesAnswered, PoolsInv, HoursInv, BarOf
<1> DEFINE out == Told(infos', call.of)
<1>4. InfosInv' /\ \A t \in DOMAIN out : call.at - out[t] <= Minute + Abort
  <2>1. call.of \in SUBSET Mints
    BY <1>1 DEF Calls
  <2> QED  BY <1>1, <1>2, <2>1, InfosRemembered
<1>5. Answer(out)
  BY <1>2
<1> HIDE DEF out
<1> QED  BY <1>1, <1>3, <1>4, <1>5, AnswerStep

LEMMA PricesRefusedStep ==
  ASSUME FeedsAssumption, FeedsInv, PricesRefused
  PROVE  FeedsInv'
<1> USE FeedsNumbers DEF FeedsInv
<1>1. call \in Calls /\ call # NoCall /\ call.who = "prices" /\ call.flying
  BY CallKnown DEF PricesRefused, Flying
<1>2. PoolsInv' /\ InfosInv' /\ HoursInv' /\ UNCHANGED instant
  BY DEF PricesRefused, PoolsInv, InfosInv, HoursInv, BarOf
<1>3. \A t \in DOMAIN Told(infos, call.of) : call.at - Told(infos, call.of)[t] <= Minute + Abort
  <2>1. call.at \in Nat /\ call.since \in Nat /\ instant \in Nat /\ call.at <= instant
    BY <1>1 DEF Calls, FeedsTypes, CallInv
  <2> TAKE t \in DOMAIN Told(infos, call.of)
  <2>2. /\ t \in Mints /\ instant - infos[t].at <= Minute /\ infos[t].taken >= 0
        /\ Told(infos, call.of)[t] = infos[t].taken
    BY <1>1 DEF Told, Fresh, Calls
  <2>3. infos[t].at \in Int /\ infos[t].taken \in Int /\ infos[t].at - infos[t].taken <= Abort
    BY <2>2 DEF InfosInv
  <2> QED  BY <2>1, <2>2, <2>3
<1>4. CASE Answer(Told(infos, call.of))
  BY <1>1, <1>2, <1>3, <1>4, AnswerStep
<1>5. CASE Answer(<< >>)
  <2> DEFINE out == << >>
  <2>1. Answer(out) /\ \A t \in DOMAIN out : call.at - out[t] <= Minute + Abort
    BY <1>5
  <2> HIDE DEF out
  <2> QED  BY <1>1, <1>2, <2>1, AnswerStep
<1> QED  BY <1>4, <1>5 DEF PricesRefused

LEMMA HourAnsweredStep ==
  ASSUME FeedsAssumption, FeedsInv, HourAnswered \/ HourRefused
  PROVE  FeedsInv'
<1> USE FeedsNumbers DEF FeedsInv
<1>1. call \in Calls /\ call # NoCall /\ call.who = "hour"
  BY CallKnown DEF HourAnswered, HourRefused, Flying
<1>2. PoolsInv' /\ InfosInv' /\ UNCHANGED instant
  BY DEF HourAnswered, HourRefused, PoolsInv, InfosInv
<1>3. CASE HourAnswered
  <2>1. PICK t \in call.asked, measured \in {call.at, -1} :
          hours' = HourKept(t, measured) /\ Answer([x \in {t} |-> measured])
    BY <1>3 DEF HourAnswered
  <2>2. call.at \in Nat
    BY <1>1 DEF Calls
  <2>3. HoursInv'
    <3> SUFFICES ASSUME NEW x \in Mints
                 PROVE  /\ hours'[x].measuredAt \in Int
                        /\ hours'[x].measuredAt >= 0 => BarOf(hours'[x].measuredAt) = hours'[x].bar
      BY DEF HoursInv, BarOf
    <3>1. hours'[x] = IF x = t THEN [bar |-> BarOf(call.at), measuredAt |-> measured]
                      ELSE IF hours[x].bar = BarOf(call.at) THEN hours[x] ELSE NoHour
      BY <2>1 DEF HourKept
    <3>2. CASE x = t
      BY <2>2, <3>1, <3>2
    <3>3. CASE x # t /\ hours[x].bar = BarOf(call.at)
      BY <3>1, <3>3 DEF HoursInv
    <3>4. CASE x # t /\ hours[x].bar # BarOf(call.at)
      BY <3>1, <3>4 DEF NoHour
    <3> QED  BY <3>2, <3>3, <3>4
  <2> DEFINE out == [x \in {t} |-> measured]
  <2>4. \A x \in DOMAIN out : out[x] >= 0 => BarOf(out[x]) = BarOf(call.at)
    OBVIOUS
  <2>5. Answer(out)
    BY <2>1
  <2> HIDE DEF out
  <2> QED  BY <1>1, <1>2, <2>3, <2>4, <2>5, AnswerStep
<1>4. CASE HourRefused
  <2> DEFINE out == << >>
  <2>1. HoursInv' /\ Answer(out) /\ DOMAIN out = {}
    BY <1>4 DEF HourRefused, HoursInv, BarOf
  <2> HIDE DEF out
  <2> QED  BY <1>1, <1>2, <2>1, AnswerStep
<1> QED  BY <1>3, <1>4

(* The door's pause never takes it beyond its patience.                    *)
LEMMA PauseFits ==
  ASSUME FeedsAssumption, NEW waited \in Nat, NEW pause \in Nat, waited <= Patience
  PROVE  NextWait(waited, pause) \in Nat /\ waited + NextWait(waited, pause) <= Patience
<1>1. pause \in Int /\ Patience - waited \in Int /\ Patience \in Nat
  BY FeedsNumbers
<1>2. /\ NextWait(waited, pause) \in {pause, Patience - waited}
      /\ NextWait(waited, pause) <= Patience - waited
  BY <1>1, MinOfTwo DEF NextWait
<1> QED  BY <1>1, <1>2

LEMMA SilentStep ==
  ASSUME FeedsAssumption, FeedsInv, Flying("quote"), Silent
  PROVE  FeedsInv'
<1> USE FeedsNumbers DEF FeedsInv
<1>1. call \in Calls /\ call # NoCall /\ call.who = "quote"
  BY CallKnown DEF Flying
<1>2. PoolsInv' /\ InfosInv' /\ HoursInv' /\ UNCHANGED instant
  BY DEF Silent, PoolsInv, InfosInv, HoursInv, BarOf
<1>3. call.waited \in Nat /\ call.pause \in Nat /\ call.waited <= Patience
  BY <1>1 DEF Calls, CallInv
<1>4. CASE call.waited >= Patience
  <2> DEFINE out == << >>
  <2>1. Answer(out) /\ DOMAIN out = {} /\ call.waited = Patience
    BY <1>3, <1>4 DEF Silent
  <2> HIDE DEF out
  <2> QED  BY <1>1, <1>2, <2>1, AnswerStep
<1>5. CASE ~(call.waited >= Patience)
  <2> DEFINE wait   == NextWait(call.waited, call.pause)
             waited == call.waited + wait
             pause  == 2 * call.pause
  <2>1. wait \in Nat /\ call.waited + wait <= Patience
    BY <1>3, PauseFits
  <2>2. call' = [call EXCEPT !.flying = FALSE, !.again = FALSE, !.tries = 0, !.pause = pause,
                             !.waited = waited]
        /\ UNCHANGED handed
    BY <1>5 DEF Silent
  <2> HIDE DEF wait
  <2>. waited \in Nat /\ pause \in Nat /\ waited <= Patience
    BY <1>3, <2>1
  <2> HIDE DEF waited, pause
  <2>3. /\ call' \in Calls /\ call'.waited = waited /\ call'.flying = FALSE
        /\ call'.who = "quote" /\ call'.of = call.of /\ call'.asked = call.asked
        /\ call'.at = call.at /\ call'.since = call.since
    BY <1>1, <2>2 DEF Calls
  <2>4. FeedsTypes'
    BY <1>2, <2>3 DEF FeedsTypes
  <2>5. CallInv'
    BY <1>1, <1>2, <2>3 DEF CallInv
  <2>6. HandedInv'
    BY <2>2 DEF HandedInv, ReadingsAreCurrent, PatientToTheEnd, BarOf
  <2> QED  BY <1>2, <2>4, <2>5, <2>6
<1> QED  BY <1>4, <1>5

LEMMA VerdictStep ==
  ASSUME FeedsAssumption, FeedsInv, Flying("quote"), NEW told, Verdict(told)
  PROVE  FeedsInv'
<1> USE FeedsNumbers DEF FeedsInv
<1>1. call \in Calls /\ call # NoCall /\ call.who = "quote"
  BY CallKnown DEF Flying
<1>2. PoolsInv' /\ InfosInv' /\ HoursInv' /\ UNCHANGED instant
  BY DEF Verdict, PoolsInv, InfosInv, HoursInv, BarOf
<1> DEFINE out == [t \in call.asked |-> told]
<1>3. Answer(out)
  BY DEF Verdict
<1>4. out # << >> /\ call.waited <= Patience
  <2>1. DOMAIN out # {}
    BY <1>1 DEF CallInv
  <2>2. DOMAIN << >> = {}
    OBVIOUS
  <2> HIDE DEF out
  <2> QED  BY <1>1, <2>1, <2>2 DEF CallInv
<1> HIDE DEF out
<1> QED  BY <1>1, <1>2, <1>3, <1>4, AnswerStep

(* A request made again: its clock starts anew, and nothing else of what   *)
(* it owes.                                                                *)
LEMMA AgainStep ==
  ASSUME FeedsAssumption, FeedsInv, call # NoCall, UNCHANGED <<instant, pools, hours, infos, handed>>,
         NEW flying \in BOOLEAN, NEW since \in Nat, NEW again \in BOOLEAN, NEW tries \in Nat,
         call' = [call EXCEPT !.flying = flying, !.since = since, !.again = again, !.tries = tries],
         since = call.since \/ since = instant,
         flying /\ call.who # "hour" => instant - since <= Abort
  PROVE  FeedsInv'
<1> USE FeedsNumbers DEF FeedsInv
<1>1. PoolsInv' /\ InfosInv' /\ HoursInv'
  BY DEF PoolsInv, InfosInv, HoursInv, BarOf
<1>2. call \in Calls /\ instant \in Nat
  BY DEF FeedsTypes
<1>3. /\ call' \in Calls /\ call'.flying = flying /\ call'.since = since /\ call'.who = call.who
      /\ call'.of = call.of /\ call'.asked = call.asked /\ call'.at = call.at
      /\ call'.waited = call.waited
  BY <1>2 DEF Calls
<1>4. FeedsTypes'
  BY <1>3, <1>2 DEF FeedsTypes
<1>5. CallInv'
  <2>1. call.at \in Nat /\ call.since \in Nat /\ call.at <= call.since /\ call.since <= instant
    BY <1>2 DEF Calls, CallInv
  <2>2. call'.at <= call'.since /\ call'.since <= instant
    BY <1>2, <1>3, <2>1
  <2> QED  BY <1>3, <2>2 DEF CallInv
<1>6. HandedInv'
  BY DEF HandedInv, ReadingsAreCurrent, PatientToTheEnd, BarOf
<1> QED  BY <1>1, <1>4, <1>5, <1>6

LEMMA WaitingStep ==
  ASSUME FeedsAssumption, FeedsInv, Send \/ TimePasses
  PROVE  FeedsInv'
<1> USE FeedsNumbers DEF FeedsInv
<1>1. CASE Send
  <2>1. call \in Calls /\ call # NoCall /\ instant \in Nat
    BY <1>1, CallKnown DEF Send, FeedsTypes
  <2>2. call.again \in BOOLEAN /\ call.tries \in Nat
    BY <2>1 DEF Calls
  <2>3. call' = [call EXCEPT !.flying = TRUE, !.since = instant, !.again = call.again, !.tries = call.tries]
    BY <1>1, <2>1 DEF Send, Calls
  <2>4. UNCHANGED <<instant, pools, hours, infos, handed>>
    BY <1>1 DEF Send
  <2>5. instant - instant <= Abort
    BY <2>1
  <2> QED  BY <2>1, <2>2, <2>3, <2>4, <2>5, AgainStep
<1>2. CASE TimePasses
  <2>1. instant \in Nat /\ instant' = instant + 1 /\ UNCHANGED <<pools, hours, infos, call, handed>>
    BY <1>2 DEF TimePasses, FeedsTypes
  <2>2. FeedsTypes' /\ PoolsInv' /\ InfosInv' /\ HoursInv'
    BY <2>1 DEF FeedsTypes, PoolsInv, InfosInv, HoursInv, BarOf
  <2>3. HandedInv'
    BY <2>1 DEF HandedInv, ReadingsAreCurrent, PatientToTheEnd, BarOf
  <2>4. CallInv'
    <3> SUFFICES ASSUME call # NoCall PROVE CallInv'
      BY <2>1 DEF CallInv
    <3>1. call \in Calls
      BY DEF FeedsTypes
    <3>2. call.who # "nobody" /\ call.since \in Nat /\ call.at \in Nat
      BY <3>1 DEF Calls, Askers
    <3>3. call.flying /\ call.who # "hour" => instant - call.since < Abort
      BY <1>2, <3>2 DEF TimePasses
    <3> QED  BY <2>1, <3>2, <3>3 DEF CallInv
  <2> QED  BY <2>2, <2>3, <2>4
<1> QED  BY <1>1, <1>2

LEMMA QuoteStep ==
  ASSUME FeedsAssumption, FeedsInv,
         QuoteAnswered \/ QuoteFailed \/ QuotePushedBack \/ QuoteTooSlow \/ QuoteLost
  PROVE  FeedsInv'
<1> USE FeedsNumbers DEF FeedsInv
<1>1. Flying("quote")
  BY DEF QuoteAnswered, QuoteFailed, QuotePushedBack, QuoteTooSlow, QuoteLost
<1>2. call \in Calls /\ call # NoCall /\ instant \in Nat
  BY <1>1, CallKnown DEF Flying, FeedsTypes
<1>3. call.since \in Nat /\ call.flying \in BOOLEAN /\ call.tries \in Nat
  BY <1>2 DEF Calls
<1>4. CASE Silent
  BY <1>1, <1>4, SilentStep
<1>5. CASE \E told : Verdict(told)
  BY <1>1, <1>5, VerdictStep
<1>6. CASE QuotePushedBack /\ call.tries < MaxTries - 1
  <2>1. call' = [call EXCEPT !.flying = FALSE, !.since = call.since, !.again = FALSE, !.tries = call.tries + 1]
    BY <1>2, <1>6 DEF QuotePushedBack, Calls
  <2>2. UNCHANGED <<instant, pools, hours, infos, handed>>
    BY <1>6 DEF QuotePushedBack
  <2>3. call.tries + 1 \in Nat
    BY <1>3
  <2> QED  BY <1>2, <1>3, <2>1, <2>2, <2>3, AgainStep
<1>7. CASE QuoteTooSlow
  <2>1. call' = [call EXCEPT !.flying = call.flying, !.since = instant, !.again = TRUE, !.tries = call.tries]
    BY <1>2, <1>7 DEF QuoteTooSlow, Calls
  <2>2. UNCHANGED <<instant, pools, hours, infos, handed>>
    BY <1>7 DEF QuoteTooSlow
  <2>3. instant - instant <= Abort
    BY <1>2
  <2> QED  BY <1>2, <1>3, <2>1, <2>2, <2>3, AgainStep
<1>8. \/ Silent \/ (\E told : Verdict(told)) \/ QuoteTooSlow
      \/ QuotePushedBack /\ call.tries < MaxTries - 1
  BY DEF QuoteAnswered, QuoteFailed, QuotePushedBack, QuoteLost
<1> QED  BY <1>4, <1>5, <1>6, <1>7, <1>8

LEMMA FeedsInvStep == ASSUME FeedsAssumption, FeedsInv, [FeedsNext]_feedsVars PROVE FeedsInv'
<1>1. ASSUME NEW of \in SUBSET Mints, AskPools(of) \/ \E refresh \in BOOLEAN : AskPrices(of, refresh)
      PROVE  FeedsInv'
  BY <1>1, AsksStep
<1>2. ASSUME NEW t \in Mints, AskHour(t) \/ AskQuote(t)
      PROVE  FeedsInv'
  BY <1>2, AsksOfOneStep
<1>3. CASE Send \/ TimePasses
  BY <1>3, WaitingStep
<1>4. CASE PoolsAnswered \/ PoolsRefused
  BY <1>4, PoolsAnsweredStep, PoolsRefusedStep
<1>5. CASE PricesAnswered \/ PricesRefused
  BY <1>5, PricesAnsweredStep, PricesRefusedStep
<1>6. CASE HourAnswered \/ HourRefused
  BY <1>6, HourAnsweredStep
<1>7. CASE QuoteAnswered \/ QuoteFailed \/ QuotePushedBack \/ QuoteTooSlow \/ QuoteLost
  BY <1>7, QuoteStep
<1>8. CASE UNCHANGED feedsVars
  BY <1>8 DEF feedsVars, FeedsInv, FeedsTypes, PoolsInv, InfosInv, HoursInv, CallInv, HandedInv,
              ReadingsAreCurrent, PatientToTheEnd, BarOf
<1> QED  BY <1>1, <1>2, <1>3, <1>4, <1>5, <1>6, <1>7, <1>8 DEF FeedsNext

LEMMA FeedsInvCorrect == FeedsSpec => []FeedsInv
<1>1. FeedsAssumption
  BY FeedsAssumption
<1>2. FeedsInv /\ [FeedsNext]_feedsVars => FeedsInv'
  BY <1>1, FeedsInvStep
<1> QED  BY <1>1, <1>2, FeedsInvInit, PTL DEF FeedsSpec

(* ReadingsAreCurrent: whatever a caller is handed was true within what it *)
(* stands for, counted from its asking: for any windows, time limit and    *)
(* bars, and however long the providers take within the limit.             *)
THEOREM ReadingsAreAlwaysCurrent == FeedsSpec => []ReadingsAreCurrent
<1>1. FeedsInv => ReadingsAreCurrent
  BY DEF FeedsInv, HandedInv
<1> QED  BY <1>1, FeedsInvCorrect, PTL

(* PatientToTheEnd: the door hears silence only after its whole budget,    *)
(* and never waits beyond it, for any budget and any first pause.          *)
THEOREM AlwaysPatientToTheEnd == FeedsSpec => []PatientToTheEnd
<1>1. FeedsInv => PatientToTheEnd
  BY DEF FeedsInv, HandedInv
<1> QED  BY <1>1, FeedsInvCorrect, PTL
=============================================================================
