---------------------------- MODULE Cycle_proofs ----------------------------
(***************************************************************************)
(* The book over any number of passes, positions and tokens, for every     *)
(* configuration and every failure and crash the model has.                *)
(*                                                                         *)
(* SoldInv: a copy of a deleted row is of a row the pass knows to be gone, *)
(* or that the sweep in progress will tell it of. SlotInv: a row of the    *)
(* store is one the pass recovered, opened or keeps away from.             *)
(* BlacklistInv and WatchInv: what is condemned is banned or of a row of   *)
(* the pass, and that row is not healthy in any copy that may be saved.    *)
(* MoneyInv: the pass's copies carry the store's capital, and the slots    *)
(* still to be opened fit in what is free.                                 *)
(*                                                                         *)
(* The capital of a book is a fold over its ids. It is read through the    *)
(* function of its partial sums, which the first lemmas show to exist.     *)
(***************************************************************************)
EXTENDS Cycle, FiniteSetTheorems, WellFoundedInduction, TLAPS

-----------------------------------------------------------------------------
(* A set of naturals that has a member has a least one: it stands for      *)
(* induction in what follows.                                              *)
LEMMA LeastNatural ==
  ASSUME NEW T \in SUBSET Nat, T # {}
  PROVE  \E x \in T : \A y \in T : x <= y
<1> DEFINE R == OpToRel(<, Nat)
<1>1. IsWellFoundedOn(R, Nat)
  BY NatLessThanWellFounded
<1>2. \A x, y \in Nat : y < x => <<y, x>> \in R
  BY DEF OpToRel
<1> HIDE DEF R
<1>3. PICK x \in T : \A y \in T : ~ (<<y, x>> \in R)
  BY <1>1, WFMin
<1>4. \A y \in T : x <= y
  <2> TAKE y \in T
  <2>1. ~(y < x)
    BY <1>2, <1>3
  <2> QED  BY <2>1
<1> QED  BY <1>4

(* The sum of the rows' capital over a set of their ids, and the function  *)
(* that the sum's recursion defines.                                       *)
Total(rows, S) == MapThenSumSet(LAMBDA i : rows[i].cap, S)

One(s) == CHOOSE x \in s : TRUE
Partial(h, rows, s) == IF s = {} THEN 0 ELSE rows[One(s)].cap + h[s \ {One(s)}]
Sums(h, rows, S) == h = [s \in SUBSET S |-> Partial(h, rows, s)]

LEMMA SumsExist ==
  ASSUME NEW rows, NEW S, IsFiniteSet(S)
  PROVE  \E h : Sums(h, rows, S)
<1> DEFINE Upto(h, n) == /\ h = [s \in SUBSET S |-> h[s]]
                         /\ \A s \in SUBSET S : Cardinality(s) <= n => h[s] = Partial(h, rows, s)
           Bad == {n \in Nat : ~ \E h : Upto(h, n)}
<1>1. \A s \in SUBSET S : IsFiniteSet(s) /\ Cardinality(s) \in Nat /\ Cardinality(s) <= Cardinality(S)
  BY FS_Subset, FS_CardinalityType
<1>2. Bad = {}
  <2> SUFFICES ASSUME Bad # {} PROVE FALSE
    OBVIOUS
  <2>1. PICK n \in Bad : \A m \in Bad : n <= m
    <3> HIDE DEF Bad
    <3>1. Bad \in SUBSET Nat
      BY DEF Bad
    <3> QED  BY <3>1, LeastNatural
  <2>2. n # 0
    <3> SUFFICES ASSUME n = 0 PROVE FALSE
      OBVIOUS
    <3> DEFINE h == [s \in SUBSET S |-> 0]
    <3>1. \A s \in SUBSET S : Cardinality(s) <= 0 => s = {}
      BY <1>1, FS_EmptySet
    <3>2. Upto(h, 0)
      BY <3>1 DEF Partial
    <3> QED  BY <2>1, <3>2
  <2>3. n - 1 \in Nat /\ n \in Nat
    BY <2>1, <2>2
  <2>4. PICK h : Upto(h, n - 1)
    <3>1. n - 1 \notin Bad
      <4> HIDE DEF Bad
      <4> QED  BY <2>1, <2>3
    <3> HIDE DEF Upto
    <3> QED  BY <2>3, <3>1
  <2> DEFINE g == [s \in SUBSET S |-> IF Cardinality(s) <= n - 1 THEN h[s] ELSE Partial(h, rows, s)]
  <2>5. ASSUME NEW s \in SUBSET S, Cardinality(s) <= n
        PROVE  g[s] = Partial(g, rows, s)
    <3>1. Partial(g, rows, s) = Partial(h, rows, s)
      <4>1. CASE s = {}
        BY <4>1 DEF Partial
      <4>2. CASE s # {}
        <5> DEFINE t == s \ {One(s)}
        <5>1. One(s) \in s
          BY <4>2 DEF One
        <5>2. t \in SUBSET S /\ Cardinality(t) = Cardinality(s) - 1
          BY <1>1, <5>1, FS_RemoveElement
        <5>3. Cardinality(t) <= n - 1
          BY <1>1, <2>3, <2>5, <5>2
        <5>4. g[t] = h[t]
          BY <5>2, <5>3
        <5> HIDE DEF g
        <5> QED  BY <4>2, <5>4 DEF Partial
      <4> QED  BY <4>1, <4>2
    <3> QED  BY <2>4, <3>1
  <2>6. Upto(g, n)
    <3>1. g = [s \in SUBSET S |-> g[s]]
      OBVIOUS
    <3> HIDE DEF g
    <3> QED  BY <2>5, <3>1
  <2> QED  BY <2>1, <2>6
<1>3. PICK h : Upto(h, Cardinality(S))
  <2>1. Cardinality(S) \in Nat
    BY FS_CardinalityType
  <2> QED  BY <1>2, <2>1
<1>4. Sums(h, rows, S)
  <2>1. \A s \in SUBSET S : h[s] = Partial(h, rows, s)
    BY <1>1, <1>3
  <2> QED  BY <1>3, <2>1 DEF Sums
<1> QED  BY <1>4

LEMMA TotalSums ==
  ASSUME NEW rows, NEW S, IsFiniteSet(S)
  PROVE  \E h : Sums(h, rows, S) /\ Total(rows, S) = h[S]
<1>1. Total(rows, S) = (CHOOSE h : Sums(h, rows, S))[S]
  BY DEF Total, MapThenSumSet, MapThenFoldSet, Sums, Partial, One
<1>2. Sums(CHOOSE h : Sums(h, rows, S), rows, S)
  BY SumsExist
<1> QED  BY <1>1, <1>2

(* Two such functions agree on the sets they share.                        *)
LEMMA SumsAgree ==
  ASSUME NEW rows, NEW S, NEW T, IsFiniteSet(S), IsFiniteSet(T),
         NEW h, Sums(h, rows, S), NEW g, Sums(g, rows, T)
  PROVE  \A s \in (SUBSET S) \cap (SUBSET T) : h[s] = g[s]
<1> DEFINE Bad == {Cardinality(s) : s \in {s \in (SUBSET S) \cap (SUBSET T) : h[s] # g[s]}}
<1>1. \A s \in SUBSET S : IsFiniteSet(s) /\ Cardinality(s) \in Nat
  BY FS_Subset, FS_CardinalityType
<1> SUFFICES ASSUME Bad # {} PROVE FALSE
  OBVIOUS
<1>2. PICK n \in Bad : \A m \in Bad : n <= m
  <2>1. Bad \in SUBSET Nat
    BY <1>1
  <2> HIDE DEF Bad
  <2> QED  BY <2>1, LeastNatural
<1>3. PICK s \in (SUBSET S) \cap (SUBSET T) : h[s] # g[s] /\ n = Cardinality(s)
  BY <1>2
<1>4. h[s] = Partial(h, rows, s) /\ g[s] = Partial(g, rows, s)
  BY <1>3 DEF Sums
<1>5. s # {}
  BY <1>3, <1>4 DEF Partial
<1> DEFINE t == s \ {One(s)}
<1>6. One(s) \in s
  BY <1>5 DEF One
<1>7. t \in (SUBSET S) \cap (SUBSET T) /\ Cardinality(t) = Cardinality(s) - 1
  BY <1>1, <1>3, <1>6, FS_RemoveElement
<1>8. h[t] = g[t]
  <2>1. Cardinality(s) \in Nat /\ Cardinality(t) \in Nat
    BY <1>1, <1>3, <1>7
  <2>2. Cardinality(t) \notin Bad
    <3> HIDE DEF Bad, t
    <3> QED  BY <1>2, <1>3, <1>7, <2>1
  <2> HIDE DEF t
  <2> QED  BY <1>7, <2>2
<1> QED  BY <1>3, <1>4, <1>5, <1>8 DEF Partial

LEMMA TotalStep ==
  ASSUME NEW rows, NEW S, IsFiniteSet(S)
  PROVE  Total(rows, S) = IF S = {} THEN 0 ELSE rows[One(S)].cap + Total(rows, S \ {One(S)})
<1>1. PICK h : Sums(h, rows, S) /\ Total(rows, S) = h[S]
  BY TotalSums
<1>2. Total(rows, S) = Partial(h, rows, S)
  BY <1>1 DEF Sums
<1>3. CASE S = {}
  BY <1>2, <1>3 DEF Partial
<1>4. CASE S # {}
  <2> DEFINE T == S \ {One(S)}
  <2>1. IsFiniteSet(T) /\ T \in (SUBSET S) \cap (SUBSET T)
    BY FS_RemoveElement
  <2> HIDE DEF T
  <2>2. PICK g : Sums(g, rows, T) /\ Total(rows, T) = g[T]
    BY <2>1, TotalSums
  <2>3. h[T] = g[T]
    BY <1>1, <2>1, <2>2, SumsAgree
  <2> QED  BY <1>2, <1>4, <2>2, <2>3 DEF Partial, T
<1> QED  BY <1>3, <1>4

Capped(rows, S) == \A i \in S : rows[i].cap \in Nat

(* The sum is a natural, and the order of the summands does not matter.    *)
LEMMA TotalRemove ==
  ASSUME NEW rows, NEW S, IsFiniteSet(S), Capped(rows, S)
  PROVE  /\ Total(rows, S) \in Nat
         /\ \A x \in S : Total(rows, S) = rows[x].cap + Total(rows, S \ {x})
<1> DEFINE Good(s) == /\ Total(rows, s) \in Nat
                      /\ \A x \in s : Total(rows, s) = rows[x].cap + Total(rows, s \ {x})
           Bad == {Cardinality(s) : s \in {s \in SUBSET S : ~Good(s)}}
<1>1. \A s \in SUBSET S : IsFiniteSet(s) /\ Cardinality(s) \in Nat
  BY FS_Subset, FS_CardinalityType
<1> SUFFICES ASSUME Bad # {} PROVE FALSE
  OBVIOUS
<1>2. PICK n \in Bad : \A m \in Bad : n <= m
  <2>1. Bad \in SUBSET Nat
    BY <1>1
  <2> HIDE DEF Bad
  <2> QED  BY <2>1, LeastNatural
<1>3. PICK s \in SUBSET S : ~Good(s) /\ n = Cardinality(s)
  <2> HIDE DEF Good
  <2> QED  BY <1>2
<1>4. ASSUME NEW x \in s PROVE Good(s \ {x})
  <2>1. s \ {x} \in SUBSET S /\ Cardinality(s \ {x}) = Cardinality(s) - 1
    BY <1>1, FS_RemoveElement
  <2>2. Cardinality(s) \in Nat /\ Cardinality(s \ {x}) \in Nat
    BY <1>1, <2>1
  <2>3. Cardinality(s \ {x}) \notin Bad
    <3> HIDE DEF Bad
    <3> QED  BY <1>2, <1>3, <2>1, <2>2
  <2> HIDE DEF Good
  <2> QED  BY <2>1, <2>3
<1>5. Total(rows, s) = IF s = {} THEN 0 ELSE rows[One(s)].cap + Total(rows, s \ {One(s)})
  BY <1>1, TotalStep
<1>6. CASE s = {}
  BY <1>3, <1>5, <1>6
<1>7. CASE s # {}
  <2> DEFINE o == One(s)
  <2>1. o \in s
    BY <1>7 DEF One
  <2> HIDE DEF o
  <2>2. /\ Total(rows, s) = rows[o].cap + Total(rows, s \ {o})
        /\ Total(rows, s \ {o}) \in Nat /\ rows[o].cap \in Nat
    BY <1>4, <1>5, <1>7, <2>1 DEF o, Capped
  <2>3. ASSUME NEW x \in s PROVE Total(rows, s) = rows[x].cap + Total(rows, s \ {x})
    <3>1. CASE x = o
      BY <2>2, <3>1
    <3>2. CASE x # o
      <4>1. /\ Total(rows, s \ {o}) = rows[x].cap + Total(rows, (s \ {o}) \ {x})
            /\ Total(rows, s \ {x}) = rows[o].cap + Total(rows, (s \ {x}) \ {o})
        BY <1>4, <2>1, <3>2
      <4>2. (s \ {o}) \ {x} = (s \ {x}) \ {o}
        OBVIOUS
      <4>3. Total(rows, (s \ {x}) \ {o}) \in Nat /\ rows[x].cap \in Nat
        <5>1. Total(rows, s \ {x}) \in Nat /\ rows[x].cap \in Nat
          BY <1>4 DEF Capped
        <5>2. Good(s \ {x}) /\ o \in s \ {x}
          BY <1>4, <2>1, <3>2
        <5>3. Total(rows, (s \ {x}) \ {o}) \in Nat
          <6>1. Cardinality((s \ {x}) \ {o}) < Cardinality(s)
            <7>1. IsFiniteSet(s) /\ IsFiniteSet(s \ {x})
              BY <1>1
            <7>2. /\ Cardinality(s \ {x}) = Cardinality(s) - 1
                  /\ Cardinality((s \ {x}) \ {o}) = Cardinality(s \ {x}) - 1
              BY <5>2, <7>1, FS_RemoveElement
            <7>3. Cardinality(s) \in Nat
              BY <1>1
            <7> QED  BY <7>2, <7>3
          <6>2. (s \ {x}) \ {o} \in SUBSET S
            OBVIOUS
          <6>3. Cardinality(s) \in Nat /\ Cardinality((s \ {x}) \ {o}) \in Nat
            BY <1>1, <6>2
          <6>4. Cardinality((s \ {x}) \ {o}) \notin Bad
            <7> HIDE DEF Bad
            <7> QED  BY <1>2, <1>3, <6>1, <6>3
          <6> QED  BY <6>2, <6>4
        <5> QED  BY <5>1, <5>3
      <4> DEFINE T == (s \ {x}) \ {o}
      <4>4. Total(rows, s \ {o}) = rows[x].cap + Total(rows, T)
        BY <4>1, <4>2
      <4> HIDE DEF T
      <4>5. Total(rows, s \ {x}) = rows[o].cap + Total(rows, T)
        BY <4>1 DEF T
      <4>6. Total(rows, T) \in Nat /\ rows[x].cap \in Nat /\ rows[o].cap \in Nat
        BY <2>2, <4>3 DEF T
      <4>7. \A a, b, c \in Nat : a + (b + c) = b + (a + c)
        OBVIOUS
      <4>8. rows[o].cap + (rows[x].cap + Total(rows, T)) = rows[x].cap + (rows[o].cap + Total(rows, T))
        BY <4>6, <4>7
      <4> QED  BY <2>2, <4>4, <4>5, <4>8
    <3> QED  BY <3>1, <3>2
  <2>4. Total(rows, s) \in Nat
    BY <2>2
  <2> QED  BY <1>3, <2>3, <2>4
<1> QED  BY <1>6, <1>7

(* A larger set of larger summands has a larger sum.                       *)
LEMMA TotalMono ==
  ASSUME NEW rows, NEW S, IsFiniteSet(S), Capped(rows, S),
         NEW other, NEW T \in SUBSET S, Capped(other, T),
         \A i \in T : other[i].cap <= rows[i].cap
  PROVE  Total(other, T) <= Total(rows, S)
<1> DEFINE Good(s) == Total(other, s \cap T) <= Total(rows, s)
           Bad == {Cardinality(s) : s \in {s \in SUBSET S : ~Good(s)}}
<1>1. \A s \in SUBSET S : /\ IsFiniteSet(s) /\ Cardinality(s) \in Nat /\ Capped(rows, s)
                          /\ IsFiniteSet(s \cap T) /\ Capped(other, s \cap T)
  BY FS_Subset, FS_CardinalityType DEF Capped
<1>2. \A s \in SUBSET S : Total(rows, s) \in Nat /\ Total(other, s \cap T) \in Nat
  BY <1>1, TotalRemove
<1>3. Bad = {}
  <2> SUFFICES ASSUME Bad # {} PROVE FALSE
    OBVIOUS
  <2>1. PICK n \in Bad : \A m \in Bad : n <= m
    <3>1. Bad \in SUBSET Nat
      BY <1>1
    <3> HIDE DEF Bad
    <3> QED  BY <3>1, LeastNatural
  <2>2. PICK s \in SUBSET S : ~Good(s) /\ n = Cardinality(s)
    <3> HIDE DEF Good
    <3> QED  BY <2>1
  <2>3. CASE s = {}
    <3>1. Total(rows, {}) = 0 /\ Total(other, {}) = 0
      BY TotalStep, FS_EmptySet
    <3> QED  BY <2>2, <2>3, <3>1
  <2>4. CASE s # {}
    <3>1. PICK x \in s : TRUE
      BY <2>4
    <3> DEFINE t == s \ {x}
    <3>2. t \in SUBSET S /\ Cardinality(t) = Cardinality(s) - 1
      BY <1>1, FS_RemoveElement
    <3>3. Good(t)
      <4>1. Cardinality(t) \in Nat /\ Cardinality(s) \in Nat
        BY <1>1, <3>2
      <4>2. Cardinality(t) \notin Bad
        <5> HIDE DEF Bad, t
        <5> QED  BY <2>1, <2>2, <3>2, <4>1
      <4> HIDE DEF Good, t
      <4> QED  BY <3>2, <4>2
    <3>4. Total(rows, s) = rows[x].cap + Total(rows, t) /\ rows[x].cap \in Nat
      <4>1. IsFiniteSet(s) /\ Capped(rows, s)
        BY <1>1
      <4>2. Total(rows, s) = rows[x].cap + Total(rows, s \ {x})
        BY <4>1, TotalRemove
      <4> QED  BY <4>1, <4>2 DEF Capped
    <3>5. CASE x \in T
      <4>1. Total(other, s \cap T) = other[x].cap + Total(other, (s \cap T) \ {x})
        BY <1>1, <3>5, TotalRemove
      <4>2. (s \cap T) \ {x} = t \cap T
        OBVIOUS
      <4>3. other[x].cap <= rows[x].cap /\ other[x].cap \in Nat
        BY <3>5 DEF Capped
      <4>4. Total(rows, t) \in Nat /\ Total(other, t \cap T) \in Nat
        BY <1>2, <3>2
      <4>5. Total(other, s \cap T) = other[x].cap + Total(other, t \cap T)
        BY <4>1, <4>2
      <4>6. Total(other, t \cap T) <= Total(rows, t)
        BY <3>3
      <4> HIDE DEF t
      <4>7. Total(other, s \cap T) <= Total(rows, s)
        <5>1. \A a, b, c, d \in Nat : a <= b /\ c <= d => a + c <= b + d
          OBVIOUS
        <5>2. other[x].cap + Total(other, t \cap T) <= rows[x].cap + Total(rows, t)
          BY <3>4, <4>3, <4>4, <4>6, <5>1
        <5>3. other[x].cap + Total(other, t \cap T) <= Total(rows, s)
          BY <3>4, <5>2
        <5> QED  BY <4>5, <5>3
      <4> QED  BY <2>2, <4>7
    <3>6. CASE x \notin T
      <4>1. s \cap T = t \cap T
        BY <3>6
      <4>2. Total(rows, t) \in Nat /\ Total(other, t \cap T) \in Nat
        BY <1>2, <3>2
      <4>3. Total(other, t \cap T) <= Total(rows, t)
        BY <3>3
      <4> HIDE DEF t
      <4>4. Total(other, s \cap T) <= Total(rows, s)
        <5>1. \A a, b, c \in Nat : a <= b => a <= c + b
          OBVIOUS
        <5>2. Total(other, t \cap T) <= rows[x].cap + Total(rows, t)
          BY <3>4, <4>2, <4>3, <5>1
        <5>3. Total(other, t \cap T) <= Total(rows, s)
          BY <3>4, <5>2
        <5> QED  BY <4>1, <5>3
      <4> QED  BY <2>2, <4>4
    <3> QED  BY <3>5, <3>6
  <2> QED  BY <2>3, <2>4
<1>4. Good(S)
  <2> HIDE DEF Good
  <2> QED  BY <1>3
<1> QED  BY <1>4

LEMMA TotalSame ==
  ASSUME NEW rows, NEW S, IsFiniteSet(S), Capped(rows, S),
         NEW other, \A i \in S : other[i].cap = rows[i].cap
  PROVE  Total(other, S) = Total(rows, S)
<1>1. Capped(other, S)
  BY DEF Capped
<1>2. \A i \in S : other[i].cap <= rows[i].cap /\ rows[i].cap <= other[i].cap
  BY DEF Capped
<1>3. Total(other, S) <= Total(rows, S) /\ Total(rows, S) <= Total(other, S)
  BY <1>1, <1>2, TotalMono
<1>4. Total(other, S) \in Nat /\ Total(rows, S) \in Nat
  BY <1>1, TotalRemove
<1> QED  BY <1>3, <1>4

-----------------------------------------------------------------------------
(* What one look does to a watch.                                          *)
LEMMA WatchType ==
  ASSUME NEW watch \in Watches, NEW look
  PROVE  AssessAssetHealth(watch, look) \in Watches
<1>1. StartDeathWatch \in Watches
  BY DEF StartDeathWatch, Watches, Stages
<1>2. Clean(watch) \in Watches
  <2>1. watch.clean + 1 \in Nat
    BY DEF Watches
  <2>2. \A n \in Nat : [watch EXCEPT !.exit = 0, !.clean = n] \in Watches
    BY DEF Watches
  <2>3. [watch EXCEPT !.exit = 0, !.clean = @ + 1] = [watch EXCEPT !.exit = 0, !.clean = watch.clean + 1]
    BY DEF Watches
  <2> QED  BY <1>1, <2>1, <2>2, <2>3 DEF Clean
<1>3. \A signals : Suspect(watch, signals) \in Watches
  BY DEF Suspect, Watches, Stages
<1> QED  BY <1>1, <1>2, <1>3 DEF AssessAssetHealth

(* What savePosition and deletePosition do to the book.                    *)
LEMMA SaveFacts ==
  ASSUME RowsOf(book), NEW id \in Ids, NEW row \in Rows
  PROVE  /\ RowsOf(Save(id, row))
         /\ DOMAIN Save(id, row) = DOMAIN book \cup {id}
         /\ \A i \in DOMAIN book : i # id => Save(id, row)[i] = book[i]
         /\ Save(id, row)[id].cap = row.cap /\ Save(id, row)[id].watch = row.watch
<1> DEFINE kept == [row EXCEPT !.scored = @ \/ (id \in DOMAIN book /\ book[id].scored)]
<1>1. kept \in Rows /\ kept.cap = row.cap /\ kept.watch = row.watch
  <2>1. (id \in DOMAIN book /\ book[id].scored) \in BOOLEAN
    OBVIOUS
  <2>2. (row.scored \/ (id \in DOMAIN book /\ book[id].scored)) \in BOOLEAN
    OBVIOUS
  <2>3. \A b \in BOOLEAN : /\ [row EXCEPT !.scored = b] \in Rows
                           /\ [row EXCEPT !.scored = b].cap = row.cap
                           /\ [row EXCEPT !.scored = b].watch = row.watch
    BY DEF Rows
  <2>4. kept = [row EXCEPT !.scored = row.scored \/ (id \in DOMAIN book /\ book[id].scored)]
    BY DEF Rows
  <2> HIDE DEF kept
  <2> QED  BY <2>2, <2>3, <2>4
<1>2. Save(id, row) = [i \in DOMAIN book \cup {id} |-> IF i # id THEN book[i] ELSE kept]
  BY DEF Save
<1> HIDE DEF kept
<1>3. \A i \in DOMAIN book : book[i] \in Rows
  BY DEF RowsOf
<1>4. DOMAIN book \subseteq Ids
  BY DEF RowsOf
<1>5. Save(id, row) \in [DOMAIN book \cup {id} -> Rows]
  BY <1>1, <1>2, <1>3
<1> QED  BY <1>1, <1>2, <1>4, <1>5 DEF RowsOf

LEMMA DropFacts ==
  ASSUME RowsOf(book), NEW id
  PROVE  /\ RowsOf(Drop(id))
         /\ DOMAIN Drop(id) = DOMAIN book \ {id}
         /\ \A i \in DOMAIN Drop(id) : Drop(id)[i] = book[i]
<1>1. Drop(id) = [i \in DOMAIN book \ {id} |-> book[i]]
  BY DEF Drop, Restrict
<1>2. Drop(id) \in [DOMAIN book \ {id} -> Rows]
  BY <1>1 DEF RowsOf
<1> QED  BY <1>1, <1>2 DEF RowsOf

LEMMA RefreshedFacts ==
  ASSUME RowsOf(book), NEW rows, RowsOf(rows)
  PROVE  /\ RowsOf(Refreshed(rows)) /\ DOMAIN Refreshed(rows) = DOMAIN rows
         /\ \A i \in DOMAIN rows : Refreshed(rows)[i] = IF i \in DOMAIN book THEN book[i] ELSE rows[i]
<1>1. Refreshed(rows) \in [DOMAIN rows -> Rows]
  BY DEF Refreshed, RowsOf
<1> QED  BY <1>1 DEF Refreshed, RowsOf

(* The rule at work in the trim.                                           *)
LEMMA NeedsType ==
  ASSUME TypeOK, NEW id \in DOMAIN current
  PROVE  /\ Needs(id) \in Nat
         /\ Trimmed(id) \in Rows /\ Trimmed(id).watch = current[id].watch
         /\ Trimmed(id).cap = IF current[id].cap > Needs(id) THEN Needs(id) ELSE current[id].cap
<1>1. current[id] \in Rows /\ id \in Ids
  BY DEF TypeOK, RowsOf
<1>2. \A m, n \in Nat : Max({m, n}) \in {m, n} /\ (Min({m, n}) = IF m > n THEN n ELSE m)
  <2> SUFFICES ASSUME NEW m \in Nat, NEW n \in Nat
               PROVE  Max({m, n}) \in {m, n} /\ (Min({m, n}) = IF m > n THEN n ELSE m)
    OBVIOUS
  <2>1. \E x \in {m, n} : \A y \in {m, n} : x >= y
    OBVIOUS
  <2>2. \E x \in {m, n} : \A y \in {m, n} : x <= y
    OBVIOUS
  <2>3. Max({m, n}) \in {m, n}
    BY <2>1 DEF Max
  <2>4. Min({m, n}) \in {m, n} /\ \A y \in {m, n} : Min({m, n}) <= y
    BY <2>2 DEF Min
  <2> QED  BY <2>3, <2>4
<1>3. Deployed(id) \in Nat
  <2>1. \A m, n \in Nat : m * n \in Nat
    OBVIOUS
  <2>2. held[id] \in Nat /\ Step \in Nat
    BY <1>1, CycleAssumption DEF TypeOK
  <2> QED  BY <2>1, <2>2 DEF Deployed
<1>4. Needs(id) \in Nat
  <2>1. Slot \in Nat
    BY CycleAssumption
  <2>2. Max({Slot, Deployed(id)}) \in Nat
    BY <1>2, <1>3, <2>1
  <2> QED  BY <1>3, <2>2 DEF Needs
<1>5. current[id].cap \in Nat
  BY <1>1 DEF Rows
<1>6. Trimmed(id) = [current[id] EXCEPT !.cap = Min({current[id].cap, Needs(id)})]
  BY <1>1 DEF Trimmed, Rows
<1>7. Min({current[id].cap, Needs(id)}) = IF current[id].cap > Needs(id) THEN Needs(id) ELSE current[id].cap
  BY <1>2, <1>4, <1>5
<1>8. \A n \in Nat : /\ [current[id] EXCEPT !.cap = n] \in Rows
                     /\ [current[id] EXCEPT !.cap = n].watch = current[id].watch
                     /\ [current[id] EXCEPT !.cap = n].cap = n
  BY <1>1 DEF Rows
<1>9. Min({current[id].cap, Needs(id)}) \in Nat
  BY <1>4, <1>5, <1>7
<1> QED  BY <1>4, <1>6, <1>7, <1>8, <1>9

-----------------------------------------------------------------------------
(* Types: every action, one step.                                          *)
LEMMA InitType == Init => TypeOK
<1> SUFFICES ASSUME Init PROVE TypeOK
  OBVIOUS
<1>1. RowsOf(book)
  <2>1. PICK ids \in {{}} \cup {{<<t, 1>>} : t \in Tokens} :
          book = [i \in ids |-> [cap |-> Slot, watch |-> StartDeathWatch, scored |-> FALSE]]
    BY DEF Init, LegacyBooks
  <2>2. [cap |-> Slot, watch |-> StartDeathWatch, scored |-> FALSE] \in Rows
    BY CycleAssumption DEF Rows, Watches, Stages, StartDeathWatch
  <2>3. book \in [ids -> Rows]
    BY <2>1, <2>2
  <2>4. ids \subseteq Ids
    BY <2>1, CycleAssumption DEF Ids
  <2> QED  BY <2>3, <2>4 DEF RowsOf
<1>2. RowsOf(current)
  BY DEF Init, RowsOf
<1>3. pass \in [kill : BOOLEAN, banned : SUBSET Tokens, stopped : SUBSET Ids, rotated : SUBSET Ids,
                released : SUBSET Ids, todo : SUBSET Ids, room : Nat]
  BY DEF Init, NoPass
<1>4. sweep \in [from : {"pass", "scan", "asleep"}, todo : SUBSET Ids, done : SUBSET Ids]
  BY DEF Init, NoSweep
<1>5. count \in [passes : Nat, buys : Nat, throws : Nat, crashes : Nat, kills : Nat]
  BY DEF Init
<1>6. held \in [Ids -> Nat]
  BY DEF Init
<1>8. blacklist \subseteq Tokens /\ fund \in Int
  BY DEF Init
<1>9. kill \in BOOLEAN
  BY Zenon DEF Init
<1>7. pc \in Places /\ {closed, lost} \subseteq SUBSET Ids
  BY DEF Init, Places
<1> QED  BY <1>1, <1>2, <1>3, <1>4, <1>5, <1>6, <1>7, <1>8, <1>9 DEF TypeOK

Counts == [passes : Nat, buys : Nat, throws : Nat, crashes : Nat, kills : Nat]
FiniteInv == IsFiniteSet(DOMAIN book) /\ IsFiniteSet(DOMAIN current)
TypeInv == TypeOK /\ FiniteInv

LEMMA BumpType ==
  ASSUME count \in Counts, NEW what \in {"passes", "buys", "throws", "crashes", "kills"}
  PROVE  Bump(what) \in Counts
BY DEF Bump, Counts

(* What is free is a natural, and at most what is left of the capital.     *)
LEMMA CommittedType ==
  ASSUME NEW rows, RowsOf(rows), IsFiniteSet(DOMAIN rows)
  PROVE  Committed(rows) \in Nat /\ Committed(rows) = Total(rows, DOMAIN rows)
<1>1. Committed(rows) = Total(rows, DOMAIN rows)
  BY DEF Committed, Total
<1>2. Capped(rows, DOMAIN rows)
  BY DEF Capped, RowsOf, Rows
<1> QED  BY <1>1, <1>2, TotalRemove

LEMMA FreeFacts ==
  ASSUME TypeOK, NEW rows, RowsOf(rows), IsFiniteSet(DOMAIN rows)
  PROVE  /\ FreeUsd(rows) \in Nat
         /\ FreeUsd(rows) > 0 => FreeUsd(rows) + Committed(rows) = TotalCapital + fund
         /\ FreeSlots(FreeUsd(rows)) \in Nat
         /\ FreeSlots(FreeUsd(rows)) > 0 =>
              FreeSlots(FreeUsd(rows)) * Slot + Committed(rows) <= TotalCapital + fund
<1>1. TotalCapital \in Nat /\ fund \in Int /\ Committed(rows) \in Nat /\ Slot \in Nat
  BY CycleAssumption, CommittedType DEF TypeOK
<1>2. FreeUsd(rows) \in Nat /\ (FreeUsd(rows) > 0 => FreeUsd(rows) + Committed(rows) = TotalCapital + fund)
  BY <1>1 DEF FreeUsd, Positive
<1>3. \A m \in Nat, n \in Nat \ {0} : m \div n \in Nat /\ (m \div n) * n <= m
  OBVIOUS
<1>4. CASE Slot > 0
  <2>1. FreeSlots(FreeUsd(rows)) = FreeUsd(rows) \div Slot
    BY <1>4 DEF FreeSlots
  <2> DEFINE k == FreeUsd(rows) \div Slot
  <2>2. k \in Nat /\ k * Slot <= FreeUsd(rows)
    BY <1>1, <1>2, <1>3, <1>4
  <2>3. \A m, n \in Nat : m * n \in Nat
    OBVIOUS
  <2>4. k * Slot \in Nat
    BY <1>1, <2>2, <2>3
  <2>5. ASSUME k > 0 PROVE FreeUsd(rows) > 0
    <3>1. \A m, n \in Nat \ {0} : m * n > 0
      OBVIOUS
    <3>2. k * Slot > 0
      BY <1>1, <1>4, <2>2, <2>5, <3>1
    <3> QED  BY <1>2, <2>2, <2>4, <3>2
  <2> HIDE DEF k
  <2>6. ASSUME k > 0 PROVE k * Slot + Committed(rows) <= TotalCapital + fund
    BY <1>1, <1>2, <2>2, <2>4, <2>5, <2>6
  <2> QED  BY <1>2, <2>1, <2>2, <2>6 DEF k
<1>5. CASE Slot = 0
  BY <1>2, <1>5 DEF FreeSlots
<1> QED  BY <1>1, <1>4, <1>5

(* A step bought: the row's capital grows by the shortfall and nothing     *)
(* else of the book changes; and a holding sold.                           *)
LEMMA BuyFacts ==
  ASSUME TypeInv, NEW id \in Ids, BuyStep(id)
  PROVE  /\ id \in DOMAIN book /\ book[id].watch.stage = "healthy" /\ Shortfall(id) \in Nat
         /\ RowsOf(book') /\ DOMAIN book' = DOMAIN book
         /\ \A i \in DOMAIN book : book'[i].watch = book[i].watch
         /\ \A i \in DOMAIN book : i # id => book'[i].cap = book[i].cap
         /\ book'[id].cap = book[id].cap + Shortfall(id)
         /\ held' \in [Ids -> Nat] /\ \A i \in Ids : i # id => held'[i] = held[i]
         /\ fund' \in Int /\ count' \in Counts
         /\ Shortfall(id) = 0 \/ FreeUsd(book) >= Shortfall(id)
<1>1. /\ id \in DOMAIN book /\ book[id].watch.stage = "healthy"
      /\ Shortfall(id) = 0 \/ FreeUsd(book) >= Shortfall(id)
      /\ held' = [held EXCEPT ![id] = @ + 1] /\ fund' = CommonFund(-Fee) /\ count' = Bump("buys")
      /\ book' = Save(id, [book[id] EXCEPT !.cap = @ + Shortfall(id)])
  BY DEF BuyStep
<1>2. RowsOf(book) /\ book[id] \in Rows /\ book[id].cap \in Nat /\ held[id] \in Nat
  BY <1>1 DEF TypeInv, TypeOK, RowsOf, Rows
<1>3. Shortfall(id) \in Nat
  <2>1. \A m, n \in Nat : m * n \in Nat
    OBVIOUS
  <2>2. Cost \in Nat
    BY CycleAssumption DEF Cost
  <2>3. held[id] * Cost \in Nat
    BY <1>2, <2>1, <2>2
  <2> QED  BY <1>2, <2>2, <2>3 DEF Shortfall, Cash, Positive
<1> DEFINE row == [book[id] EXCEPT !.cap = book[id].cap + Shortfall(id)]
<1>4. row \in Rows /\ row.cap = book[id].cap + Shortfall(id) /\ row.watch = book[id].watch
  BY <1>2, <1>3 DEF Rows
<1>5. book' = Save(id, row)
  BY <1>1, <1>2 DEF Rows
<1> HIDE DEF row
<1>6. /\ RowsOf(book') /\ DOMAIN book' = DOMAIN book
      /\ \A i \in DOMAIN book : i # id => book'[i] = book[i]
      /\ book'[id].cap = row.cap /\ book'[id].watch = row.watch
  <2>1. RowsOf(book)
    BY <1>2
  <2>2. /\ RowsOf(Save(id, row))
        /\ DOMAIN Save(id, row) = DOMAIN book \cup {id}
        /\ \A i \in DOMAIN book : i # id => Save(id, row)[i] = book[i]
        /\ Save(id, row)[id].cap = row.cap /\ Save(id, row)[id].watch = row.watch
    BY <1>4, <2>1, SaveFacts
  <2>3. DOMAIN book \cup {id} = DOMAIN book
    BY <1>1
  <2> QED  BY <1>5, <2>2, <2>3
<1>7. held' \in [Ids -> Nat] /\ \A i \in Ids : i # id => held'[i] = held[i]
  BY <1>1, <1>2 DEF TypeInv, TypeOK
<1>8. fund' \in Int
  BY <1>1, CycleAssumption DEF CommonFund, TypeInv, TypeOK
<1>9. count' \in Counts
  <2>1. count \in Counts
    BY DEF TypeInv, TypeOK, Counts
  <2> QED  BY <1>1, <2>1, BumpType
<1> QED  BY <1>1, <1>3, <1>4, <1>6, <1>7, <1>8, <1>9

LEMMA SellFacts ==
  ASSUME TypeOK, NEW id \in Ids, SellAll(id)
  PROVE  /\ held' \in [Ids -> Nat] /\ fund' \in Int
         /\ \A i \in Ids : ~ (held'[i] > held[i])
<1>1. held' = [held EXCEPT ![id] = 0] /\ held \in [Ids -> Nat]
  BY DEF SellAll, TypeOK
<1>2. fund' \in Int
  BY CycleAssumption DEF SellAll, CommonFund, TypeOK
<1>3. held' \in [Ids -> Nat]
  BY <1>1
<1>4. \A i \in Ids : held[i] \in Nat /\ held'[i] \in {0, held[i]}
  BY <1>1
<1> QED  BY <1>2, <1>3, <1>4

-----------------------------------------------------------------------------
(* Where a pass is, and what it then still keeps.                          *)
Allocates == {"open", "first", "buy", "end"}
InPass == pc \notin {"boot", "asleep"} /\ ~(pc = "sweep" /\ sweep.from = "asleep")

PhaseInv ==
  /\ pc # "sweep" => sweep = NoSweep
  /\ ~InPass => DOMAIN current = {} /\ pass = [NoPass EXCEPT !.kill = pass.kill]
  /\ pc \notin {"tick"} \cup Allocates => pass.todo = {}
  /\ pc = "tick" => pass.todo \subseteq DOMAIN current
  /\ pc \in Allocates => pass.todo \subseteq DOMAIN book
  /\ pc \notin {"rotate", "release", "trim"} \cup Allocates => pass.rotated = {} /\ pass.released = {}

Passes == [kill : BOOLEAN, banned : SUBSET Tokens, stopped : SUBSET Ids, rotated : SUBSET Ids,
           released : SUBSET Ids, todo : SUBSET Ids, room : Nat]
Sweeps == [from : {"pass", "scan", "asleep"}, todo : SUBSET Ids, done : SUBSET Ids]

RestOK ==
  /\ held \in [Ids -> Nat] /\ blacklist \subseteq Tokens /\ fund \in Int /\ kill \in BOOLEAN
  /\ pc \in Places /\ pass \in Passes /\ sweep \in Sweeps /\ count \in Counts
  /\ closed \subseteq Ids /\ lost \subseteq Ids

LEMMA TypeParts == TypeOK <=> RowsOf(book) /\ RowsOf(current) /\ RestOK
BY DEF TypeOK, RestOK, Passes, Sweeps, Counts

LEMMA TypePartsPrime == TypeOK' <=> RowsOf(book)' /\ RowsOf(current)' /\ RestOK'
BY DEF TypeOK, RestOK, Passes, Sweeps, Counts

LEMMA Constants == NoPass \in Passes /\ NoSweep \in Sweeps /\ RowsOf(<< >>) /\ DOMAIN << >> = {}
<1>1. NoPass \in Passes
  BY DEF NoPass, Passes
<1>2. NoSweep \in Sweeps
  BY DEF NoSweep, Sweeps
<1>3. RowsOf(<< >>) /\ DOMAIN << >> = {}
  BY DEF RowsOf
<1> QED  BY <1>1, <1>2, <1>3

(* The rows, at every step.                                                *)
LEMMA RowsKept ==
  ASSUME TypeInv, PhaseInv, Next
  PROVE  /\ RowsOf(book)' /\ IsFiniteSet(DOMAIN book)'
         /\ RowsOf(current)' /\ IsFiniteSet(DOMAIN current)'
<1>1. /\ RowsOf(book) /\ IsFiniteSet(DOMAIN book) /\ RowsOf(current) /\ IsFiniteSet(DOMAIN current)
      /\ held \in [Ids -> Nat] /\ pass \in Passes /\ count \in Counts
  BY TypeParts DEF TypeInv, FiniteInv, RestOK
<1>2. /\ \A i \in DOMAIN current : i \in Ids /\ current[i] \in Rows
      /\ \A i \in DOMAIN book : i \in Ids /\ book[i] \in Rows
  BY <1>1 DEF RowsOf
<1> DEFINE Goal == /\ RowsOf(book') /\ IsFiniteSet(DOMAIN book')
                   /\ RowsOf(current') /\ IsFiniteSet(DOMAIN current')
<1> HIDE DEF Goal
<1>3. ASSUME NEW id \in Ids, NEW row \in Rows, book' \in {book, Save(id, row)}
      PROVE  RowsOf(book') /\ IsFiniteSet(DOMAIN book')
  <2>1. RowsOf(Save(id, row)) /\ DOMAIN Save(id, row) = DOMAIN book \cup {id}
    BY <1>1, SaveFacts
  <2>2. IsFiniteSet(DOMAIN book \cup {id})
    BY <1>1, FS_AddElement
  <2> QED  BY <1>1, <1>3, <2>1, <2>2
<1>4. ASSUME NEW id \in Ids, ClosePosition(id)
      PROVE  RowsOf(book') /\ IsFiniteSet(DOMAIN book')
  <2>1. RowsOf(Drop(id)) /\ DOMAIN Drop(id) = DOMAIN book \ {id}
    BY <1>1, DropFacts
  <2>2. IsFiniteSet(DOMAIN book \ {id})
    BY <1>1, FS_RemoveElement, FS_Subset
  <2> QED  BY <1>4, <2>1, <2>2 DEF ClosePosition
<1>5. ASSUME NEW id \in Ids, BuyStep(id)
      PROVE  RowsOf(book') /\ IsFiniteSet(DOMAIN book')
  BY <1>1, <1>5, BuyFacts
<1>6. ASSUME NEW id \in Ids, NEW row \in Rows,
             current' = [i \in DOMAIN current \cup {id} |-> IF i = id THEN row ELSE current[i]]
      PROVE  RowsOf(current') /\ IsFiniteSet(DOMAIN current')
  <2>1. DOMAIN current' = DOMAIN current \cup {id} /\ current' \in [DOMAIN current \cup {id} -> Rows]
    BY <1>2, <1>6
  <2>2. IsFiniteSet(DOMAIN current \cup {id})
    BY <1>1, FS_AddElement
  <2> QED  BY <1>2, <2>1, <2>2 DEF RowsOf
<1>7. ASSUME current' \in {current, Refreshed(current), << >>}
      PROVE  RowsOf(current') /\ IsFiniteSet(DOMAIN current')
  <2>1. RowsOf(Refreshed(current)) /\ DOMAIN Refreshed(current) = DOMAIN current
    BY <1>1, RefreshedFacts
  <2>2. RowsOf(<< >>) /\ IsFiniteSet(DOMAIN << >>)
    BY Constants, FS_EmptySet
  <2> QED  BY <1>1, <1>7, <2>1, <2>2
<1>8. ASSUME NEW id \in DOMAIN current, NEW look
      PROVE  Watched(id, look) \in Rows /\ id \in Ids
  <2>1. AssessAssetHealth(current[id].watch, look) \in Watches
    BY <1>2, WatchType DEF Rows
  <2>2. Watched(id, look) = [current[id] EXCEPT !.watch = AssessAssetHealth(current[id].watch, look)]
    BY <1>2 DEF Watched, Rows
  <2> QED  BY <1>2, <2>1, <2>2 DEF Rows
<1>9. CASE EndSweep
  BY <1>1, <1>7, <1>9 DEF EndSweep
<1>10. CASE SweepThrows
  BY <1>1, <1>7, <1>10 DEF SweepThrows
<1>11. ASSUME NEW id \in Ids, SweepSale(id) \/ ScoreStop(id) \/ Rotate(id) \/ Release(id)
       PROVE  Goal
  <2>1. ClosePosition(id) /\ current' = current
    BY <1>11 DEF SweepSale, ScoreStop, Rotate, Release
  <2> QED  BY <1>1, <1>4, <2>1 DEF Goal
<1>12. ASSUME NEW id \in Ids, SweepBuy(id) \/ FirstBuy(id)
       PROVE  Goal
  <2>1. BuyStep(id) /\ current' = current
    BY <1>12 DEF SweepBuy, FirstBuy
  <2> QED  BY <1>1, <1>5, <2>1 DEF Goal
<1>13. ASSUME NEW id \in DOMAIN current, Tick(id)
       PROVE  Goal
  <2>1. PICK look : /\ book' = Save(id, Watched(id, look))
                    /\ current' = [current EXCEPT ![id] = Watched(id, look)]
    BY <1>13 DEF Tick, TickWithoutBar, TickOnBar
  <2>2. Watched(id, look) \in Rows /\ id \in Ids
    BY <1>8
  <2>3. DOMAIN current \cup {id} = DOMAIN current
    OBVIOUS
  <2>4. current' = [i \in DOMAIN current \cup {id} |-> IF i = id THEN Watched(id, look) ELSE current[i]]
    BY <2>1, <2>3
  <2> QED  BY <1>3, <1>6, <2>1, <2>2, <2>4 DEF Goal
<1>14. ASSUME NEW id \in DOMAIN current, TickThrows(id)
       PROVE  Goal
  <2>1. PICK look : book' \in {book, Save(id, Watched(id, look))}
    BY <1>14 DEF TickThrows
  <2>2. current' = << >>
    BY <1>14 DEF TickThrows
  <2>3. Watched(id, look) \in Rows /\ id \in Ids
    BY <1>8
  <2> QED  BY <1>3, <1>7, <2>1, <2>2, <2>3 DEF Goal
<1>15. CASE EndTicks \/ SweepDuringScan \/ NextPhase \/ EndOpen \/ EndFirstTicks \/ EndFirstBuys \/ GuardStops \/ SetKill
  BY <1>1, <1>15 DEF Goal, EndTicks, SweepDuringScan, NextPhase, EndOpen, EndFirstTicks, EndFirstBuys,
       GuardStops, SetKill
<1>16. CASE EndScan \/ EndPass \/ PassFails \/ Crash
  <2>1. book' = book /\ current' \in {current, Refreshed(current), << >>}
    BY <1>16 DEF EndScan, EndPass, PassFails, Crash, Forget, AfterTheScan
  <2> QED  BY <1>1, <1>7, <2>1 DEF Goal
<1>17. ASSUME NEW id \in Ids, ScoreBaseline(id) PROVE Goal
  <2>1. /\ id \in DOMAIN current /\ current' = current
        /\ book' = Save(id, [current[id] EXCEPT !.scored = TRUE])
    BY <1>17 DEF ScoreBaseline, Unstopped
  <2>2. [current[id] EXCEPT !.scored = TRUE] \in Rows
    BY <1>2, <2>1 DEF Rows
  <2> QED  BY <1>1, <1>3, <2>1, <2>2 DEF Goal
<1>18. CASE Trim
  <2> DEFINE cut == {i \in Keeping : current[i].cap > Needs(i)}
             cutRow(i) == [Trimmed(i) EXCEPT !.scored = @ \/ (i \in DOMAIN book /\ book[i].scored)]
  <2>1. cut \subseteq DOMAIN current
    BY DEF Keeping
  <2>2. /\ current' = current
        /\ book' = [i \in DOMAIN book \cup cut |-> IF i \in cut THEN cutRow(i) ELSE book[i]]
    BY <1>18 DEF Trim
  <2>3. ASSUME NEW i \in cut PROVE cutRow(i) \in Rows
    <3>1. Trimmed(i) \in Rows
      BY <2>1, NeedsType DEF TypeInv
    <3>2. (Trimmed(i).scored \/ (i \in DOMAIN book /\ book[i].scored)) \in BOOLEAN
      OBVIOUS
    <3>3. cutRow(i) = [Trimmed(i) EXCEPT !.scored = Trimmed(i).scored \/ (i \in DOMAIN book /\ book[i].scored)]
      BY <3>1 DEF Rows
    <3>4. \A b \in BOOLEAN : [Trimmed(i) EXCEPT !.scored = b] \in Rows
      BY <3>1 DEF Rows
    <3> HIDE DEF cutRow
    <3> QED  BY <3>2, <3>3, <3>4
  <2> HIDE DEF cutRow, cut
  <2>4. book' \in [DOMAIN book \cup cut -> Rows]
    BY <1>2, <2>2, <2>3
  <2>5. IsFiniteSet(DOMAIN book \cup cut)
    BY <1>1, <2>1, FS_Subset, FS_Union
  <2>6. DOMAIN book' = DOMAIN book \cup cut /\ DOMAIN book' \subseteq Ids
    BY <1>2, <2>1, <2>2
  <2> QED  BY <1>1, <2>2, <2>4, <2>5, <2>6 DEF Goal, RowsOf
<1>19. ASSUME NEW id \in Ids, Open(id) PROVE Goal
  <2>1. book' = Save(id, [cap |-> Slot, watch |-> StartDeathWatch, scored |-> TRUE]) /\ current' = current
    BY <1>19 DEF Open
  <2>2. [cap |-> Slot, watch |-> StartDeathWatch, scored |-> TRUE] \in Rows
    BY CycleAssumption DEF Rows, Watches, Stages, StartDeathWatch
  <2> QED  BY <1>1, <1>3, <2>1, <2>2 DEF Goal
<1>20. ASSUME NEW id \in Ids, FirstTick(id) PROVE Goal
  <2>1. PICK look : /\ book' = Save(id, [book[id] EXCEPT !.watch = AssessAssetHealth(@, look)])
                    /\ current' = [i \in DOMAIN current \cup {id} |->
                         IF i = id THEN [book[id] EXCEPT !.watch = AssessAssetHealth(@, look)] ELSE current[i]]
    BY <1>20 DEF FirstTick
  <2>2. book[id] \in Rows
    BY <1>2, <1>20 DEF FirstTick, PhaseInv, Allocates
  <2>3. AssessAssetHealth(book[id].watch, look) \in Watches
    BY <2>2, WatchType DEF Rows
  <2>4. [book[id] EXCEPT !.watch = AssessAssetHealth(@, look)] \in Rows
    BY <2>2, <2>3 DEF Rows
  <2> QED  BY <1>3, <1>6, <2>1, <2>4 DEF Goal
<1>21. CASE StartPass
  <2>1. book' = book /\ current' = [i \in Recovered |-> book[i]] /\ Recovered \subseteq DOMAIN book
    BY <1>21 DEF StartPass, Recovered
  <2>2. current' \in [Recovered -> Rows] /\ DOMAIN current' = Recovered
    BY <1>2, <2>1
  <2>3. IsFiniteSet(Recovered)
    BY <1>1, <2>1, FS_Subset
  <2> QED  BY <1>1, <1>2, <2>1, <2>2, <2>3 DEF Goal, RowsOf
<1> QED  BY <1>1, <1>7, <1>9, <1>10, <1>11, <1>12, <1>13, <1>14, <1>15, <1>16, <1>17, <1>18, <1>19, <1>20, <1>21
         DEF Next, Sweeping, Ticking, Allocating, Goal

(* Everything but the rows, at every step.                                 *)
LEMMA RestKept ==
  ASSUME TypeInv, PhaseInv, Next
  PROVE  RestOK'
<1>1. RestOK /\ TypeOK /\ RowsOf(book) /\ RowsOf(current) /\ IsFiniteSet(DOMAIN current)
  BY TypeParts DEF TypeInv, FiniteInv
<1>2. DOMAIN book \subseteq Ids /\ DOMAIN current \subseteq Ids
  BY <1>1 DEF RowsOf
<1>3. /\ held \in [Ids -> Nat] /\ fund \in Int /\ pass \in Passes /\ sweep \in Sweeps /\ count \in Counts
      /\ kill \in BOOLEAN /\ blacklist \in SUBSET Tokens /\ pc \in Places
      /\ closed \in SUBSET Ids /\ lost \in SUBSET Ids
  BY <1>1 DEF RestOK
<1>4. \A what \in {"passes", "buys", "throws", "crashes", "kills"} : Bump(what) \in Counts
  BY <1>3, BumpType
<1>5. \A id \in Ids : SellAll(id) => held' \in [Ids -> Nat] /\ fund' \in Int
  BY <1>1, SellFacts
<1>6. \A id \in Ids : BuyStep(id) => held' \in [Ids -> Nat] /\ fund' \in Int /\ count' \in Counts
  BY BuyFacts
<1>7. \A id \in Ids : TokenOf(id) \in Tokens
  BY DEF Ids, TokenOf
<1>8. NoPass \in Passes /\ NoSweep \in Sweeps
  BY Constants
<1>9. /\ \A S \in SUBSET Ids : /\ [pass EXCEPT !.todo = S] \in Passes /\ [pass EXCEPT !.stopped = S] \in Passes
                               /\ [pass EXCEPT !.rotated = S] \in Passes /\ [pass EXCEPT !.released = S] \in Passes
      /\ \A S \in SUBSET Ids, n \in Nat :
           [pass EXCEPT !.room = n, !.todo = S] \in Passes /\ [pass EXCEPT !.room = n] \in Passes
      /\ \A S, T \in SUBSET Ids : [pass EXCEPT !.stopped = S, !.todo = T] \in Passes
      /\ pass.stopped \in SUBSET Ids /\ pass.rotated \in SUBSET Ids /\ pass.released \in SUBSET Ids
      /\ pass.todo \in SUBSET Ids /\ pass.room \in Nat /\ pass.kill \in BOOLEAN
  BY <1>3 DEF Passes
<1>10. /\ \A S, T \in SUBSET Ids : [sweep EXCEPT !.todo = S, !.done = T] \in Sweeps
       /\ \A S \in SUBSET Ids : [sweep EXCEPT !.todo = S] \in Sweeps
       /\ sweep.todo \in SUBSET Ids /\ sweep.done \in SUBSET Ids /\ sweep.from \in {"pass", "scan", "asleep"}
  BY <1>3 DEF Sweeps
<1>11. \A from \in {"pass", "scan", "asleep"}, S \in SUBSET Ids : [from |-> from, todo |-> S, done |-> {}] \in Sweeps
  BY DEF Sweeps
<1> DEFINE P == held' \in [Ids -> Nat] /\ fund' \in Int
           Q == blacklist' \in SUBSET Tokens /\ kill' \in BOOLEAN /\ pc' \in Places
           R == pass' \in Passes /\ sweep' \in Sweeps
           T == count' \in Counts /\ closed' \in SUBSET Ids /\ lost' \in SUBSET Ids
<1>12. ASSUME P, Q, R, T PROVE RestOK'
  BY <1>12 DEF RestOK
<1>13. CASE EndSweep
  <2>1. P /\ Q /\ T
    BY <1>3, <1>10, <1>13 DEF EndSweep, history, Places
  <2>2. sweep' \in Sweeps
    BY <1>8, <1>13 DEF EndSweep
  <2>3. pass' \in Passes
    <3> DEFINE p == [pass EXCEPT !.stopped = pass.stopped \cup sweep.done]
    <3>1. p \in Passes
      BY <1>3, <1>9, <1>10
    <3>2. [pass EXCEPT !.stopped = @ \cup sweep.done] = p
      BY <1>3 DEF Passes
    <3>3. pass' \in {pass, p, [p EXCEPT !.todo = Unstopped(DOMAIN current, p)]}
      BY <1>13, <3>2 DEF EndSweep
    <3> HIDE DEF p
    <3>4. Unstopped(DOMAIN current, p) \in SUBSET Ids
      BY <1>2 DEF Unstopped
    <3>5. \A S \in SUBSET Ids : [p EXCEPT !.todo = S] \in Passes
      BY <3>1 DEF Passes
    <3> QED  BY <1>3, <3>1, <3>3, <3>4, <3>5
  <2> QED  BY <1>12, <2>1, <2>2, <2>3
<1>14. CASE SweepThrows
  <2>1. P
    BY <1>3, <1>5, <1>10, <1>14 DEF SweepThrows
  <2>2. Q
    BY <1>3, <1>10, <1>14 DEF SweepThrows, Places
  <2>3. R
    BY <1>3, <1>8, <1>14 DEF SweepThrows
  <2>4. T
    BY <1>3, <1>4, <1>10, <1>14 DEF SweepThrows
  <2> QED  BY <1>12, <2>1, <2>2, <2>3, <2>4
<1>15. ASSUME NEW id \in Ids, SweepSale(id) PROVE RestOK'
  <2>1. P
    BY <1>5, <1>15 DEF SweepSale
  <2>2. Q
    BY <1>3, <1>15 DEF SweepSale
  <2>3. R
    <3>1. sweep' = [sweep EXCEPT !.todo = sweep.todo \ {id}, !.done = sweep.done \cup {id}]
      BY <1>3, <1>15 DEF SweepSale, Sweeps
    <3>2. sweep.todo \ {id} \in SUBSET Ids /\ sweep.done \cup {id} \in SUBSET Ids
      BY <1>10
    <3>3. sweep' \in Sweeps
      BY <1>10, <3>1, <3>2
    <3> QED  BY <1>3, <1>15, <3>3 DEF SweepSale
  <2>4. T
    BY <1>3, <1>15 DEF SweepSale, ClosePosition
  <2> QED  BY <1>12, <2>1, <2>2, <2>3, <2>4
<1>16. ASSUME NEW id \in Ids, SweepBuy(id) PROVE RestOK'
  <2>1. P /\ count' \in Counts
    BY <1>6, <1>16 DEF SweepBuy
  <2>2. Q
    BY <1>3, <1>16 DEF SweepBuy
  <2>3. sweep' = [sweep EXCEPT !.todo = sweep.todo \ {id}]
    BY <1>3, <1>16 DEF SweepBuy, Sweeps
  <2>4. R
    BY <1>3, <1>10, <1>16, <2>3 DEF SweepBuy
  <2>5. T
    BY <1>3, <1>16, <2>1 DEF SweepBuy
  <2> QED  BY <1>12, <2>1, <2>2, <2>4, <2>5
<1>17. ASSUME NEW id \in DOMAIN current, Tick(id) \/ TickThrows(id) PROVE RestOK'
  <2>1. id \in Ids
    BY <1>2
  <2>2. \A look : Condemned(id, look) \subseteq Tokens
    BY <1>7, <2>1 DEF Condemned
  <2>3. P
    BY <1>3, <1>5, <1>17, <2>1 DEF Tick, TickThrows, TickWithoutBar, TickOnBar
  <2>4. blacklist' \in SUBSET Tokens
    BY <1>3, <1>17, <2>2 DEF Tick, TickThrows, TickWithoutBar, TickOnBar
  <2>5. Q
    BY <1>3, <1>17, <2>4 DEF Tick, TickThrows, Places
  <2>6. pass' \in Passes
    <3>1. pass' \in {NoPass, [pass EXCEPT !.todo = pass.todo \ {id}]}
      BY <1>3, <1>17 DEF Tick, TickThrows, Passes
    <3> QED  BY <1>8, <1>9, <3>1
  <2>7. T
    BY <1>3, <1>4, <1>17 DEF Tick, TickThrows, history
  <2>8. R
    BY <1>3, <1>17, <2>6 DEF Tick, TickThrows
  <2> QED  BY <1>12, <2>3, <2>5, <2>7, <2>8
<1>18. CASE EndTicks \/ NextPhase \/ EndOpen \/ EndFirstTicks \/ EndFirstBuys \/ EndScan
  <2>1. P /\ T /\ sweep' \in Sweeps
    BY <1>3, <1>18 DEF EndTicks, NextPhase, EndOpen, EndFirstTicks, EndFirstBuys, EndScan, history
  <2>2. Q
    BY <1>3, <1>18 DEF EndTicks, NextPhase, EndOpen, EndFirstTicks, EndFirstBuys, EndScan, Places
  <2>3. pass' \in Passes
    BY <1>3, <1>9, <1>18 DEF EndTicks, NextPhase, EndOpen, EndFirstTicks, EndFirstBuys, EndScan
  <2> QED  BY <1>12, <2>1, <2>2, <2>3
<1>19. CASE SweepDuringScan \/ GuardStops
  <2>1. P /\ T /\ Q
    BY <1>3, <1>19 DEF SweepDuringScan, GuardStops, BeginSweep, history, Places
  <2>2. R
    BY <1>2, <1>3, <1>11, <1>19 DEF SweepDuringScan, GuardStops, BeginSweep, Unstopped
  <2> QED  BY <1>12, <2>1, <2>2
<1>20. ASSUME NEW id \in Ids, ScoreBaseline(id) \/ Open(id) \/ FirstTick(id) \/ FirstBuy(id) PROVE RestOK'
  <2>1. P
    BY <1>3, <1>6, <1>20 DEF ScoreBaseline, Open, FirstTick, FirstBuy
  <2>2. blacklist' \in SUBSET Tokens
    BY <1>3, <1>7, <1>20 DEF ScoreBaseline, Open, FirstTick, FirstBuy
  <2>3. Q
    BY <1>3, <1>20, <2>2 DEF ScoreBaseline, Open, FirstTick, FirstBuy
  <2>4. pass' \in Passes
    <3>1. CASE Open(id)
      <4>1. pass' = [pass EXCEPT !.room = pass.room - 1, !.todo = pass.todo \cup {id}] /\ pass.room - 1 \in Nat
        BY <1>3, <3>1 DEF Open, Passes
      <4>2. pass.todo \cup {id} \in SUBSET Ids
        BY <1>9
      <4> QED  BY <1>9, <4>1, <4>2
    <3>2. CASE ~Open(id)
      BY <1>3, <1>20, <3>2 DEF ScoreBaseline, FirstTick, FirstBuy
    <3> QED  BY <3>1, <3>2
  <2>5. sweep' \in Sweeps /\ T
    BY <1>3, <1>6, <1>20 DEF ScoreBaseline, Open, FirstTick, FirstBuy, history
  <2> QED  BY <1>12, <2>1, <2>3, <2>4, <2>5
<1>21. ASSUME NEW id \in Ids, ScoreStop(id) \/ Rotate(id) \/ Release(id) PROVE RestOK'
  <2>1. P
    BY <1>3, <1>5, <1>21 DEF ScoreStop, Rotate, Release
  <2>2. blacklist' \in SUBSET Tokens
    BY <1>3, <1>7, <1>21 DEF ScoreStop, Rotate, Release
  <2>3. Q
    BY <1>3, <1>21, <2>2 DEF ScoreStop, Rotate, Release
  <2>4. pass' \in Passes
    <3>1. pass' \in {[pass EXCEPT !.stopped = pass.stopped \cup {id}], [pass EXCEPT !.rotated = pass.rotated \cup {id}],
                     [pass EXCEPT !.released = pass.released \cup {id}]}
      BY <1>3, <1>21 DEF ScoreStop, Rotate, Release, Passes
    <3> QED  BY <1>9, <3>1
  <2>5. sweep' \in Sweeps /\ T
    BY <1>3, <1>21 DEF ScoreStop, Rotate, Release, ClosePosition
  <2> QED  BY <1>12, <2>1, <2>3, <2>4, <2>5
<1>22. CASE Trim
  <2>1. P /\ T /\ Q
    BY <1>3, <1>22 DEF Trim, history, Places
  <2>2. FreeSlots(FreeUsd(Kept)) \in Nat
    <3>1. \A i \in Keeping : Trimmed(i) \in Rows
      BY <1>1, NeedsType DEF Keeping
    <3>2. Kept \in [Keeping -> Rows] /\ DOMAIN Kept = Keeping
      BY <3>1 DEF Kept
    <3>3. IsFiniteSet(Keeping) /\ Keeping \subseteq Ids
      BY <1>1, <1>2, FS_Subset DEF Keeping
    <3> QED  BY <1>1, <3>2, <3>3, FreeFacts DEF RowsOf
  <2>3. R
    BY <1>3, <1>9, <1>22, <2>2 DEF Trim
  <2> QED  BY <1>12, <2>1, <2>3
<1>23. CASE StartPass
  <2>1. P /\ Q
    BY <1>3, <1>23 DEF StartPass, BeginSweep, Places
  <2>2. pass' \in Passes
    BY <1>3, <1>23 DEF StartPass, NoPass, Passes
  <2>3. sweep' \in Sweeps
    BY <1>2, <1>11, <1>23 DEF StartPass, BeginSweep
  <2>4. T
    BY <1>3, <1>4, <1>23 DEF StartPass
  <2> QED  BY <1>12, <2>1, <2>2, <2>3, <2>4
<1>24. CASE EndPass
  <2>1. P /\ Q /\ T /\ sweep' \in Sweeps
    BY <1>3, <1>24 DEF EndPass, history, Places
  <2>2. pass' \in Passes
    BY <1>8, <1>9, <1>24 DEF EndPass, Passes
  <2> QED  BY <1>12, <2>1, <2>2
<1>25. CASE PassFails \/ Crash
  <2>1. P
    BY <1>2, <1>3, <1>5, <1>25 DEF PassFails, Crash
  <2>2. Q
    BY <1>3, <1>25 DEF PassFails, Crash, Forget, Places
  <2>3. R
    BY <1>8, <1>25 DEF PassFails, Crash, Forget
  <2>4. T
    BY <1>3, <1>4, <1>25 DEF PassFails, Crash
  <2> QED  BY <1>12, <2>1, <2>2, <2>3, <2>4
<1>26. CASE SetKill
  <2>1. P /\ R /\ T
    BY <1>3, <1>4, <1>26 DEF SetKill
  <2>2. kill' \in BOOLEAN
    BY <1>26 DEF SetKill
  <2>3. Q
    BY <1>3, <1>26, <2>2 DEF SetKill
  <2> QED  BY <1>12, <2>1, <2>3
<1> QED  BY <1>13, <1>14, <1>15, <1>16, <1>17, <1>18, <1>19, <1>20, <1>21, <1>22, <1>23, <1>24, <1>25, <1>26
         DEF Next, Sweeping, Ticking, Allocating

LEMMA Forgotten ==
  /\ NoPass = [NoPass EXCEPT !.kill = NoPass.kill] /\ DOMAIN << >> = {}
  /\ NoPass.todo = {} /\ NoPass.rotated = {} /\ NoPass.released = {}
<1>1. NoPass.todo = {} /\ NoPass.rotated = {} /\ NoPass.released = {}
  BY DEF NoPass
<1>2. NoPass = [NoPass EXCEPT !.kill = NoPass.kill]
  BY DEF NoPass
<1> QED  BY <1>1, <1>2, Constants

(* The phases, at every step.                                              *)
LEMMA PhaseKept ==
  ASSUME TypeInv, PhaseInv, Next
  PROVE  PhaseInv'
<1>1. RestOK /\ TypeOK /\ RowsOf(book) /\ RowsOf(current)
  BY TypeParts DEF TypeInv
<1>2. pass \in Passes /\ sweep \in Sweeps /\ pc \in Places
  BY <1>1 DEF RestOK
<1>3. CASE EndSweep
  <2> DEFINE p == [pass EXCEPT !.stopped = @ \cup sweep.done]
  <2>1. p \in [kill : BOOLEAN, banned : SUBSET Tokens, stopped : SUBSET Ids, rotated : {pass.rotated},
               released : {pass.released}, todo : {pass.todo}, room : Nat]
    BY <1>2 DEF Passes, Sweeps
  <2>2. /\ pc = "sweep" /\ sweep' = NoSweep /\ pass.todo = {} /\ pass.rotated = {} /\ pass.released = {}
        /\ sweep.from \in {"pass", "scan", "asleep"}
    BY <1>2, <1>3 DEF EndSweep, PhaseInv, Allocates, Sweeps
  <2>3. CASE sweep.from = "pass"
    <3>1. pc' = "tick" /\ pass' = [p EXCEPT !.todo = Unstopped(DOMAIN current, p)] /\ current' = Refreshed(current)
      BY <1>3, <2>3 DEF EndSweep
    <3> HIDE DEF p
    <3>2. pass'.todo \subseteq DOMAIN current /\ pass'.rotated = {} /\ pass'.released = {}
      BY <2>1, <2>2, <3>1 DEF Unstopped
    <3>3. DOMAIN current' = DOMAIN current
      BY <1>1, <3>1, RefreshedFacts
    <3> QED  BY <2>2, <3>1, <3>2, <3>3 DEF PhaseInv, InPass, Allocates
  <2>4. CASE sweep.from = "scan"
    <3>1. pc' = "scan" /\ pass' = p /\ current' = current
      BY <1>3, <2>4 DEF EndSweep
    <3> HIDE DEF p
    <3>2. pass'.todo = {} /\ pass'.rotated = {} /\ pass'.released = {}
      BY <2>1, <2>2, <3>1
    <3> QED  BY <2>2, <3>1, <3>2 DEF PhaseInv, InPass, Allocates
  <2>5. CASE sweep.from = "asleep"
    <3>1. pc' = "asleep" /\ pass' = pass /\ current' = current
      BY <1>3, <2>5 DEF EndSweep
    <3> QED  BY <2>2, <2>5, <3>1 DEF PhaseInv, InPass, Allocates
  <2> QED  BY <2>2, <2>3, <2>4, <2>5
<1>4. CASE SweepThrows
  <2>1. pc = "sweep" /\ sweep' = NoSweep /\ sweep.from \in {"pass", "scan", "asleep"}
    BY <1>2, <1>4 DEF SweepThrows, Sweeps
  <2>2. CASE sweep.from = "pass"
    <3>1. pc' = "boot" /\ pass' = NoPass /\ current' = << >>
      BY <1>4, <2>2 DEF SweepThrows
    <3> QED  BY <2>1, <3>1, Forgotten DEF PhaseInv, InPass, Allocates
  <2>3. CASE sweep.from # "pass"
    <3>1. pc' = sweep.from /\ UNCHANGED <<pass, current>>
      BY <1>4, <2>3 DEF SweepThrows
    <3> QED  BY <2>1, <2>3, <3>1 DEF PhaseInv, InPass, Allocates
  <2> QED  BY <2>2, <2>3
<1>5. ASSUME NEW id \in Ids, SweepSale(id) \/ SweepBuy(id) PROVE PhaseInv'
  BY <1>2, <1>5 DEF SweepSale, SweepBuy, PhaseInv, InPass, Allocates, Passes, Sweeps
<1>6. ASSUME NEW id \in DOMAIN current, Tick(id) \/ TickThrows(id) PROVE PhaseInv'
  <2>1. CASE Tick(id)
    <3>1. DOMAIN current' = DOMAIN current /\ pc = "tick" /\ UNCHANGED <<pc, sweep>>
      BY <2>1 DEF Tick, TickWithoutBar, TickOnBar
    <3>2. pass'.todo \subseteq pass.todo /\ pass'.rotated = pass.rotated /\ pass'.released = pass.released
      BY <1>2, <2>1 DEF Tick, Passes
    <3> QED  BY <3>1, <3>2 DEF PhaseInv, InPass, Allocates
  <2>2. CASE TickThrows(id)
    <3>1. pc = "tick" /\ pc' = "boot" /\ current' = << >> /\ pass' = NoPass /\ UNCHANGED sweep
      BY <2>2 DEF TickThrows
    <3> QED  BY <3>1, Forgotten DEF PhaseInv, InPass, Allocates
  <2> QED  BY <1>6, <2>1, <2>2
<1>7. CASE EndTicks \/ EndScan \/ NextPhase \/ EndOpen \/ EndFirstTicks \/ EndFirstBuys
  BY <1>2, <1>7 DEF EndTicks, EndScan, NextPhase, EndOpen, EndFirstTicks, EndFirstBuys,
     PhaseInv, InPass, Allocates, Passes
<1>8. CASE SweepDuringScan \/ GuardStops
  BY <1>2, <1>8 DEF SweepDuringScan, GuardStops, BeginSweep, PhaseInv, InPass, Allocates
<1>15. CASE StartPass
  <2>1. pass' = [NoPass EXCEPT !.kill = kill, !.banned = blacklist] /\ pc' = "sweep" /\ sweep'.from = "pass"
    BY <1>15 DEF StartPass, BeginSweep
  <2>2. pass'.todo = {} /\ pass'.rotated = {} /\ pass'.released = {}
    BY <2>1 DEF NoPass
  <2> QED  BY <2>1, <2>2 DEF PhaseInv, InPass, Allocates
<1>9. ASSUME NEW id \in Ids, ScoreBaseline(id) \/ ScoreStop(id) \/ Rotate(id) \/ Release(id) PROVE PhaseInv'
  BY <1>2, <1>9 DEF ScoreBaseline, ScoreStop, Rotate, Release, PhaseInv, InPass, Allocates, Passes
<1>10. CASE Trim
  <2>1. pc = "trim" /\ pc' = "open" /\ UNCHANGED <<current, sweep>>
    BY <1>10 DEF Trim
  <2>2. pass'.todo = pass.todo
    BY <1>2, <1>10 DEF Trim, Passes
  <2> QED  BY <2>1, <2>2 DEF PhaseInv, InPass, Allocates
<1>11. ASSUME NEW id \in Ids, Open(id) \/ FirstTick(id) PROVE PhaseInv'
  <2>1. \A row : DOMAIN Save(id, row) = DOMAIN book \cup {id}
    BY DEF Save
  <2>2. DOMAIN book' = DOMAIN book \cup {id}
    BY <1>11, <2>1 DEF Open, FirstTick
  <2> QED  BY <1>2, <1>11, <2>2 DEF Open, FirstTick, PhaseInv, InPass, Allocates, Passes
<1>12. ASSUME NEW id \in Ids, FirstBuy(id) PROVE PhaseInv'
  <2>1. DOMAIN book' = DOMAIN book
    BY <1>12, BuyFacts DEF FirstBuy
  <2> QED  BY <1>2, <1>12, <2>1 DEF FirstBuy, PhaseInv, InPass, Allocates, Passes
<1>13. CASE PassFails \/ Crash
  <2>1. pc' = "boot" /\ current' = << >> /\ pass' = NoPass /\ sweep' = NoSweep
    BY <1>13 DEF PassFails, Crash, Forget
  <2> QED  BY <2>1, Forgotten DEF PhaseInv, InPass, Allocates
<1>16. CASE EndPass
  <2>1. /\ pc = "end" /\ pc' = "asleep" /\ current' = << >> /\ UNCHANGED sweep
        /\ pass' = [NoPass EXCEPT !.kill = pass.kill]
    BY <1>16 DEF EndPass
  <2>2. pass' = [NoPass EXCEPT !.kill = pass'.kill]
    BY <2>1 DEF NoPass
  <2>3. pass'.todo = {} /\ pass'.rotated = {} /\ pass'.released = {}
    BY <2>1 DEF NoPass
  <2> QED  BY <2>1, <2>2, <2>3, Forgotten DEF PhaseInv, InPass, Allocates
<1>14. CASE SetKill
  BY <1>2, <1>14 DEF SetKill, PhaseInv, InPass, Allocates, Passes
<1> QED  BY <1>3, <1>4, <1>5, <1>6, <1>7, <1>8, <1>9, <1>10, <1>11, <1>12, <1>13, <1>14, <1>15, <1>16
         DEF Next, Sweeping, Ticking, Allocating

LEMMA TypesKept == TypeInv /\ PhaseInv /\ [Next]_vars => TypeInv' /\ PhaseInv'
<1>1. ASSUME TypeInv, PhaseInv, Next PROVE TypeInv' /\ PhaseInv'
  <2>1. TypeOK' /\ FiniteInv'
    BY <1>1, RowsKept, RestKept, TypePartsPrime DEF FiniteInv
  <2> QED  BY <1>1, <2>1, PhaseKept DEF TypeInv
<1>2. ASSUME TypeInv, PhaseInv, UNCHANGED vars PROVE TypeInv' /\ PhaseInv'
  BY <1>2 DEF vars, TypeInv, TypeOK, RowsOf, FiniteInv, PhaseInv, InPass
<1> QED  BY <1>1, <1>2

LEMMA InitPhase == Init => TypeInv /\ PhaseInv
<1> SUFFICES ASSUME Init PROVE TypeInv /\ PhaseInv
  OBVIOUS
<1>1. IsFiniteSet(DOMAIN book) /\ IsFiniteSet(DOMAIN current)
  <2>1. PICK ids \in {{}} \cup {{<<t, 1>>} : t \in Tokens} : DOMAIN book = ids
    BY DEF Init, LegacyBooks
  <2>2. IsFiniteSet(ids)
    <3>1. \A x : IsFiniteSet({x})
      BY FS_Singleton
    <3> QED  BY <2>1, <3>1, FS_EmptySet
  <2> QED  BY <2>1, <2>2, Constants, FS_EmptySet DEF Init
<1>2. PhaseInv
  BY Forgotten DEF Init, PhaseInv, InPass, Allocates
<1> QED  BY <1>1, <1>2, InitType DEF TypeInv, FiniteInv

(* Every state has the shape the model gives it, whatever the rows, the    *)
(* looks and the failures: what is free is never a debt and never divided  *)
(* into a negative number of slots.                                        *)
THEOREM TypeCorrect == Spec => []TypeOK
<1>1. TypeInv => TypeOK
  BY DEF TypeInv
<1> QED  BY <1>1, InitPhase, TypesKept, PTL DEF Spec

-----------------------------------------------------------------------------
(* What was sold stays sold.  The copies a pass works on still hold rows    *)
(* that were deleted under it; each of those is among the ids it knows to   *)
(* be gone, or among those the sweep in progress will hand it.              *)
Sold == closed \ lost

SoldInv ==
  /\ Sold \cap DOMAIN book = {}
  /\ DOMAIN current \cap Sold \subseteq Gone(pass) \cup sweep.done
  /\ pass.todo \cap Sold = {}
  /\ Gone(pass) \cup sweep.done \subseteq closed

LEMMA SoldKept ==
  ASSUME TypeInv, PhaseInv, SoldInv, Next
  PROVE  SoldInv'
<1>1. RestOK /\ TypeOK /\ RowsOf(book) /\ RowsOf(current)
  BY TypeParts DEF TypeInv
<1>2. pass \in Passes /\ sweep \in Sweeps /\ pc \in Places
  BY <1>1 DEF RestOK
<1>3. Gone(NoPass) = {} /\ NoPass.todo = {} /\ NoSweep.done = {} /\ DOMAIN << >> = {}
  BY Constants DEF Gone, NoPass, NoSweep
<1>4. \A id, row : DOMAIN Save(id, row) = DOMAIN book \cup {id}
  BY DEF Save
<1>5. \A id : DOMAIN Drop(id) = DOMAIN book \ {id}
  BY <1>1, DropFacts
<1>6. \A id \in Ids : BuyStep(id) => DOMAIN book' = DOMAIN book
  BY BuyFacts
<1>7. CASE EndSweep
  <2> DEFINE p == [pass EXCEPT !.stopped = @ \cup sweep.done]
  <2>1. Gone(p) = Gone(pass) \cup sweep.done /\ p.todo = pass.todo
    BY <1>2 DEF Passes, Gone
  <2>2. pc = "sweep" /\ sweep'.done = {} /\ UNCHANGED <<book, closed, lost>> /\ sweep.from \in {"pass", "scan", "asleep"}
    BY <1>2, <1>3, <1>7 DEF EndSweep, history, Sweeps
  <2>3. CASE sweep.from = "pass"
    <3> DEFINE q == [p EXCEPT !.todo = Unstopped(DOMAIN current, p)]
    <3>1. pass' = q /\ DOMAIN current' = DOMAIN current
      BY <1>1, <1>7, <2>3, RefreshedFacts DEF EndSweep
    <3>2. Gone(q) = Gone(p) /\ q.todo = DOMAIN current \ p.stopped
      BY <1>2 DEF Passes, Gone, Unstopped
    <3>3. Gone(p) = p.stopped
      BY <1>2, <2>2 DEF PhaseInv, Allocates, Gone, Passes
    <3> HIDE DEF p, q
    <3> QED  BY <2>1, <2>2, <3>1, <3>2, <3>3 DEF SoldInv, Sold
  <2>4. CASE sweep.from = "scan"
    <3>1. pass' = p /\ current' = current
      BY <1>7, <2>4 DEF EndSweep
    <3> HIDE DEF p
    <3> QED  BY <2>1, <2>2, <3>1 DEF SoldInv, Sold
  <2>5. CASE sweep.from = "asleep"
    <3>1. pass' = pass /\ current' = current /\ DOMAIN current = {}
      BY <1>7, <2>2, <2>5 DEF EndSweep, PhaseInv, InPass
    <3> QED  BY <2>2, <3>1 DEF SoldInv, Sold
  <2> QED  BY <2>2, <2>3, <2>4, <2>5
<1>8. CASE SweepThrows
  <2>1. /\ pc = "sweep" /\ sweep'.done = {} /\ UNCHANGED <<book, closed>> /\ sweep.from \in {"pass", "scan", "asleep"}
        /\ lost \subseteq lost'
    BY <1>2, <1>3, <1>8 DEF SweepThrows, Sweeps
  <2>2. CASE sweep.from = "pass"
    <3>1. pass' = NoPass /\ current' = << >>
      BY <1>8, <2>2 DEF SweepThrows
    <3> QED  BY <1>3, <2>1, <3>1 DEF SoldInv, Sold
  <2>3. CASE sweep.from = "scan"
    <3>1. pass' = pass /\ current' = current /\ lost' = lost \cup sweep.done
      BY <1>8, <2>3 DEF SweepThrows
    <3> QED  BY <2>1, <3>1 DEF SoldInv, Sold
  <2>4. CASE sweep.from = "asleep"
    <3>1. pass' = pass /\ current' = current /\ DOMAIN current = {}
      BY <1>8, <2>1, <2>4 DEF SweepThrows, PhaseInv, InPass
    <3> QED  BY <2>1, <3>1 DEF SoldInv, Sold
  <2> QED  BY <2>1, <2>2, <2>3, <2>4
<1>9. ASSUME NEW id \in Ids, SweepSale(id) PROVE SoldInv'
  <2>1. sweep'.done = sweep.done \cup {id}
    BY <1>2, <1>9 DEF SweepSale, Sweeps
  <2>2. pc = "sweep" /\ DOMAIN book' = DOMAIN book \ {id} /\ closed' = closed \cup {id} /\ UNCHANGED <<current, pass, lost>>
    BY <1>5, <1>9 DEF SweepSale, ClosePosition
  <2>3. pass.todo = {}
    BY <2>2 DEF PhaseInv, Allocates
  <2> QED  BY <2>1, <2>2, <2>3 DEF SoldInv, Sold
<1>10. ASSUME NEW id \in Ids, SweepBuy(id) PROVE SoldInv'
  <2>1. DOMAIN book' = DOMAIN book /\ UNCHANGED <<current, pass, closed, lost>>
    BY <1>6, <1>10 DEF SweepBuy
  <2>2. sweep'.done = sweep.done
    BY <1>2, <1>10 DEF SweepBuy, Sweeps
  <2> QED  BY <2>1, <2>2 DEF SoldInv, Sold
<1>11. ASSUME NEW id \in DOMAIN current, Tick(id) PROVE SoldInv'
  <2>1. DOMAIN book' = DOMAIN book \cup {id} /\ DOMAIN current' = DOMAIN current /\ id \in pass.todo
    BY <1>4, <1>11 DEF Tick, TickWithoutBar, TickOnBar
  <2>2. Gone(pass') = Gone(pass) /\ pass'.todo \subseteq pass.todo
    BY <1>2, <1>11 DEF Tick, Passes, Gone
  <2>3. UNCHANGED <<sweep, closed, lost>>
    BY <1>11 DEF Tick, history
  <2> QED  BY <2>1, <2>2, <2>3 DEF SoldInv, Sold
<1>12. ASSUME NEW id \in DOMAIN current, TickThrows(id) PROVE SoldInv'
  <2>1. DOMAIN book' \subseteq DOMAIN book \cup {id} /\ id \in pass.todo
    BY <1>4, <1>12 DEF TickThrows
  <2>2. current' = << >> /\ pass' = NoPass /\ UNCHANGED <<sweep, closed, lost>> /\ sweep = NoSweep
    BY <1>12 DEF TickThrows, PhaseInv
  <2> QED  BY <1>3, <2>1, <2>2 DEF SoldInv, Sold
<1>13. CASE EndTicks \/ NextPhase \/ EndOpen \/ EndFirstTicks \/ EndFirstBuys \/ SetKill \/ EndScan
  <2>1. DOMAIN current' = DOMAIN current /\ UNCHANGED <<book, sweep, closed, lost>>
    BY <1>1, <1>13, RefreshedFacts DEF EndTicks, NextPhase, EndOpen, EndFirstTicks, EndFirstBuys, SetKill, EndScan,
         AfterTheScan, history
  <2>2. Gone(pass') = Gone(pass) /\ pass'.todo \subseteq pass.todo
    BY <1>2, <1>13 DEF EndTicks, NextPhase, EndOpen, EndFirstTicks, EndFirstBuys, SetKill, EndScan, Gone, Passes
  <2> QED  BY <2>1, <2>2 DEF SoldInv, Sold
<1>14. CASE SweepDuringScan \/ GuardStops
  <2>1. UNCHANGED <<book, current, pass, closed, lost>> /\ sweep'.done = {} /\ pc # "sweep"
    BY <1>14 DEF SweepDuringScan, GuardStops, BeginSweep, history
  <2>2. sweep.done = {}
    BY <1>3, <2>1 DEF PhaseInv
  <2> QED  BY <2>1, <2>2 DEF SoldInv, Sold
<1>15. ASSUME NEW id \in Ids, ScoreBaseline(id) PROVE SoldInv'
  <2>1. /\ DOMAIN book' = DOMAIN book \cup {id} /\ id \in DOMAIN current \ pass.stopped /\ pc = "score"
        /\ UNCHANGED <<current, pass, sweep, closed, lost>>
    BY <1>4, <1>15 DEF ScoreBaseline, Unstopped, history
  <2>2. Gone(pass) = pass.stopped /\ sweep.done = {}
    BY <1>3, <2>1 DEF PhaseInv, Allocates, Gone
  <2> QED  BY <2>1, <2>2 DEF SoldInv, Sold
<1>16. ASSUME NEW id \in Ids, ScoreStop(id) \/ Rotate(id) \/ Release(id) PROVE SoldInv'
  <2>1. /\ DOMAIN book' = DOMAIN book \ {id} /\ closed' = closed \cup {id}
        /\ UNCHANGED <<current, sweep, lost>> /\ pc \in {"score", "rotate", "release"}
    BY <1>5, <1>16 DEF ScoreStop, Rotate, Release, ClosePosition
  <2>2. Gone(pass') = Gone(pass) \cup {id} /\ pass'.todo = pass.todo
    BY <1>2, <1>16 DEF ScoreStop, Rotate, Release, Gone, Passes
  <2>3. pass.todo = {}
    BY <2>1 DEF PhaseInv, Allocates
  <2> QED  BY <2>1, <2>2, <2>3 DEF SoldInv, Sold
<1>17. CASE Trim
  <2>1. DOMAIN book' \subseteq DOMAIN book \cup Keeping /\ UNCHANGED <<current, sweep, closed, lost>> /\ pc = "trim"
    BY <1>17 DEF Trim, history
  <2>2. Gone(pass') = Gone(pass) /\ pass'.todo = pass.todo
    BY <1>2, <1>17 DEF Trim, Gone, Passes
  <2>3. sweep.done = {}
    BY <1>3, <2>1 DEF PhaseInv
  <2> QED  BY <2>1, <2>2, <2>3 DEF SoldInv, Sold, Keeping
<1>18. ASSUME NEW id \in Ids, Open(id) PROVE SoldInv'
  <2>1. DOMAIN book' = DOMAIN book \cup {id} /\ id \notin closed /\ UNCHANGED <<current, sweep, closed, lost>>
    BY <1>4, <1>18 DEF Open, history
  <2>2. Gone(pass') = Gone(pass) /\ pass'.todo = pass.todo \cup {id}
    BY <1>2, <1>18 DEF Open, Gone, Passes
  <2> QED  BY <2>1, <2>2 DEF SoldInv, Sold
<1>19. ASSUME NEW id \in Ids, FirstTick(id) PROVE SoldInv'
  <2>1. /\ DOMAIN book' = DOMAIN book \cup {id} /\ DOMAIN current' = DOMAIN current \cup {id}
        /\ id \in pass.todo /\ pc = "first" /\ UNCHANGED <<pass, sweep, closed, lost>>
    BY <1>4, <1>19 DEF FirstTick, history
  <2> QED  BY <2>1 DEF SoldInv, Sold
<1>20. ASSUME NEW id \in Ids, FirstBuy(id) PROVE SoldInv'
  BY <1>6, <1>20 DEF FirstBuy, SoldInv, Sold
<1>21. CASE StartPass
  <2>1. pass' = [NoPass EXCEPT !.kill = kill, !.banned = blacklist] /\ UNCHANGED <<book, closed, lost>>
        /\ DOMAIN current' \subseteq DOMAIN book /\ sweep'.done = {}
    BY <1>21 DEF StartPass, BeginSweep, Recovered
  <2>2. Gone(pass') = {} /\ pass'.todo = {}
    BY <2>1 DEF Gone, NoPass
  <2> QED  BY <2>1, <2>2 DEF SoldInv, Sold
<1>22. CASE EndPass
  <2>1. pass' = [NoPass EXCEPT !.kill = pass.kill] /\ UNCHANGED <<book, closed, lost, sweep>>
        /\ current' = << >> /\ pc = "end"
    BY <1>22 DEF EndPass, history
  <2>2. Gone(pass') = {} /\ pass'.todo = {}
    BY <2>1 DEF Gone, NoPass
  <2> QED  BY <1>3, <2>1, <2>2 DEF SoldInv, Sold
<1>23. CASE PassFails \/ Crash
  <2>1. pass' = NoPass /\ sweep' = NoSweep /\ current' = << >> /\ UNCHANGED <<book, closed, lost>>
    BY <1>23 DEF PassFails, Crash, Forget
  <2> QED  BY <1>3, <2>1 DEF SoldInv, Sold
<1> QED  BY <1>7, <1>8, <1>9, <1>10, <1>11, <1>12, <1>13, <1>14, <1>15, <1>16, <1>17, <1>18, <1>19, <1>20, <1>21,
            <1>22, <1>23 DEF Next, Sweeping, Ticking, Allocating

LEMMA InitSold == Init => SoldInv
BY DEF Init, SoldInv, Sold, Gone, NoPass, NoSweep

(* What a sweep, the score stop, a rotation or a release sold and closed    *)
(* stays closed: no copy made before it is written back, by any later step  *)
(* of that pass or of another one, as long as the pass was told of it.      *)
THEOREM SoldStaysSoldAlways == Spec => []SoldStaysSold
<1> DEFINE I == TypeInv /\ PhaseInv /\ SoldInv
<1>1. Init => I
  BY InitPhase, InitSold
<1>2. I /\ [Next]_vars => I'
  <2>1. ASSUME I, Next PROVE SoldInv'
    BY <2>1, SoldKept
  <2>2. ASSUME I, UNCHANGED vars PROVE SoldInv'
    BY <2>2 DEF vars, SoldInv, Sold
  <2> QED  BY <2>1, <2>2, TypesKept
<1>3. I => SoldStaysSold
  BY DEF SoldInv, Sold, SoldStaysSold
<1> QED  BY <1>1, <1>2, <1>3, PTL DEF Spec

-----------------------------------------------------------------------------
(* One row for a token.  Every row of the store is one the pass recovered,  *)
(* one it opened, or one whose token it was told never to buy: so the slots *)
(* it opens are for tokens that have none.                                  *)
Known(j) == j \in DOMAIN current \/ TokenOf(j) \in pass.banned \/ (pc \in Allocates /\ j \in pass.todo)

SlotInv ==
  /\ \A i, j \in DOMAIN book \cup DOMAIN current : TokenOf(i) = TokenOf(j) => i = j
  /\ InPass => \A j \in DOMAIN book : Known(j)

LEMMA SlotKept ==
  ASSUME TypeInv, PhaseInv, SlotInv, Next
  PROVE  SlotInv'
<1>1. RestOK /\ TypeOK /\ RowsOf(book) /\ RowsOf(current)
  BY TypeParts DEF TypeInv
<1>2. pass \in Passes /\ sweep \in Sweeps /\ pc \in Places
  BY <1>1 DEF RestOK
<1>4. \A id, row : DOMAIN Save(id, row) = DOMAIN book \cup {id}
  BY DEF Save
<1>5. \A id : DOMAIN Drop(id) = DOMAIN book \ {id}
  BY <1>1, DropFacts
<1>6. \A id \in Ids : BuyStep(id) => DOMAIN book' = DOMAIN book
  BY BuyFacts
<1>7. CASE EndSweep
  <2>1. book' = book /\ DOMAIN current' = DOMAIN current
    BY <1>1, <1>7, RefreshedFacts DEF EndSweep
  <2>2. pass'.banned = pass.banned
    <3> DEFINE p == [pass EXCEPT !.stopped = @ \cup sweep.done]
    <3>1. p.banned = pass.banned /\ [p EXCEPT !.todo = Unstopped(DOMAIN current, p)].banned = pass.banned
      BY <1>2 DEF Passes
    <3>2. pass' \in {pass, p, [p EXCEPT !.todo = Unstopped(DOMAIN current, p)]}
      BY <1>7 DEF EndSweep
    <3> HIDE DEF p
    <3> QED  BY <3>1, <3>2
  <2>3. InPass' => InPass
    BY <1>2, <1>7 DEF EndSweep, InPass, Sweeps
  <2>4. pc = "sweep"
    BY <1>7 DEF EndSweep
  <2> QED  BY <2>1, <2>2, <2>3, <2>4 DEF SlotInv, Known, Allocates
<1>8. CASE SweepThrows
  <2>1. book' = book /\ DOMAIN current' \subseteq DOMAIN current /\ pc = "sweep"
    BY <1>8, Constants DEF SweepThrows
  <2>2. InPass' => UNCHANGED <<pass, current>> /\ InPass
    BY <1>8 DEF SweepThrows, InPass
  <2> QED  BY <2>1, <2>2 DEF SlotInv, Known, Allocates
<1>9. ASSUME NEW id \in Ids, SweepSale(id) \/ SweepBuy(id) PROVE SlotInv'
  <2>1. DOMAIN book' \subseteq DOMAIN book /\ UNCHANGED <<pc, current, pass>>
    BY <1>5, <1>6, <1>9 DEF SweepSale, SweepBuy, ClosePosition
  <2>2. InPass' => InPass
    BY <1>2, <1>9 DEF SweepSale, SweepBuy, InPass, Sweeps
  <2> QED  BY <2>1, <2>2 DEF SlotInv, Known
<1>10. ASSUME NEW id \in DOMAIN current, Tick(id) PROVE SlotInv'
  <2>1. DOMAIN book' = DOMAIN book \cup {id} /\ DOMAIN current' = DOMAIN current /\ pc = "tick" /\ pc' = "tick"
    BY <1>4, <1>10 DEF Tick, TickWithoutBar, TickOnBar
  <2>2. pass'.banned = pass.banned /\ InPass
    BY <1>2, <1>10, <2>1 DEF Tick, Passes, InPass
  <2> QED  BY <2>1, <2>2 DEF SlotInv, Known, Allocates
<1>11. ASSUME NEW id \in DOMAIN current, TickThrows(id) PROVE SlotInv'
  <2>1. DOMAIN book' \subseteq DOMAIN book \cup {id} /\ DOMAIN current' = {} /\ pc' = "boot"
    BY <1>4, <1>11, Constants DEF TickThrows
  <2> QED  BY <2>1 DEF SlotInv, InPass
<1>12. CASE EndTicks \/ EndScan \/ NextPhase \/ EndOpen \/ EndFirstTicks \/ EndFirstBuys
  <2>1. book' = book /\ DOMAIN current' = DOMAIN current
    BY <1>1, <1>12, RefreshedFacts
    DEF EndTicks, EndScan, NextPhase, EndOpen, EndFirstTicks, EndFirstBuys, AfterTheScan
  <2>2. InPass /\ (pc \in Allocates => pc' \in Allocates /\ pass' = pass)
    BY <1>12 DEF EndTicks, EndScan, NextPhase, EndOpen, EndFirstTicks, EndFirstBuys, Allocates, InPass
  <2>3. pass'.banned = pass.banned
    BY <1>2, <1>12 DEF EndTicks, EndScan, NextPhase, EndOpen, EndFirstTicks, EndFirstBuys, Passes
  <2> QED  BY <2>1, <2>2, <2>3 DEF SlotInv, Known
<1>13. CASE SweepDuringScan
  <2>1. UNCHANGED <<book, current, pass>> /\ InPass /\ pc \notin Allocates
    BY <1>13 DEF SweepDuringScan, InPass, Allocates
  <2> QED  BY <2>1 DEF SlotInv, Known
<1>14. CASE GuardStops \/ SetKill
  <2>1. UNCHANGED <<book, current>> /\ ~InPass'
    BY <1>14 DEF GuardStops, SetKill, BeginSweep, InPass
  <2> QED  BY <2>1 DEF SlotInv
<1>15. ASSUME NEW id \in Ids, ScoreBaseline(id) PROVE SlotInv'
  <2>1. /\ DOMAIN book' = DOMAIN book \cup {id} /\ id \in DOMAIN current /\ pc = "score"
        /\ UNCHANGED <<pc, current, pass>>
    BY <1>4, <1>15 DEF ScoreBaseline, Unstopped
  <2> QED  BY <2>1 DEF SlotInv, Known, InPass
<1>16. ASSUME NEW id \in Ids, ScoreStop(id) \/ Rotate(id) \/ Release(id) PROVE SlotInv'
  <2>1. DOMAIN book' = DOMAIN book \ {id} /\ UNCHANGED <<current, pc>> /\ pc \in {"score", "rotate", "release"}
    BY <1>5, <1>16 DEF ScoreStop, Rotate, Release, ClosePosition
  <2>2. pass'.banned = pass.banned /\ pass'.todo = pass.todo
    BY <1>2, <1>16 DEF ScoreStop, Rotate, Release, Passes
  <2> QED  BY <2>1, <2>2 DEF SlotInv, Known, InPass
<1>17. CASE Trim
  <2>1. /\ DOMAIN book' \subseteq DOMAIN book \cup DOMAIN current /\ UNCHANGED current
        /\ pc = "trim" /\ pc' = "open"
    BY <1>17 DEF Trim, Keeping
  <2>2. pass'.banned = pass.banned
    BY <1>2, <1>17 DEF Trim, Passes
  <2> QED  BY <2>1, <2>2 DEF SlotInv, Known, InPass, Allocates
<1>18. ASSUME NEW id \in Ids, Open(id) PROVE SlotInv'
  <2>1. DOMAIN book' = DOMAIN book \cup {id} /\ pc = "open" /\ pc' = "open" /\ UNCHANGED current
    BY <1>4, <1>18 DEF Open
  <2>2. pass'.banned = pass.banned /\ pass'.todo = pass.todo \cup {id}
    BY <1>2, <1>18 DEF Open, Passes
  <2>3. \A j \in DOMAIN book \cup DOMAIN current : TokenOf(j) # TokenOf(id)
    <3>1. TokenOf(id) \in Eligible /\ TokenOf(id) \notin TokensOf(pass.todo)
      BY <1>18 DEF Open
    <3>2. \A j \in DOMAIN current : TokenOf(j) # TokenOf(id)
      BY <3>1 DEF Eligible, JustFreed, TokensOf, Keeping, Gone
    <3>3. \A j \in DOMAIN book : Known(j)
      BY <2>1 DEF SlotInv, InPass
    <3> QED  BY <3>1, <3>2, <3>3 DEF Known, Eligible, TokensOf
  <2> QED  BY <2>1, <2>2, <2>3 DEF SlotInv, Known, InPass, Allocates
<1>19. ASSUME NEW id \in Ids, FirstTick(id) PROVE SlotInv'
  <2>1. /\ DOMAIN book' = DOMAIN book \cup {id} /\ DOMAIN current' = DOMAIN current \cup {id}
        /\ id \in pass.todo /\ pc = "first" /\ UNCHANGED <<pc, pass>>
    BY <1>4, <1>19 DEF FirstTick
  <2>2. id \in DOMAIN book
    BY <2>1 DEF PhaseInv, Allocates
  <2> QED  BY <2>1, <2>2 DEF SlotInv, Known, InPass
<1>20. ASSUME NEW id \in Ids, FirstBuy(id) PROVE SlotInv'
  BY <1>6, <1>20 DEF FirstBuy, SlotInv, Known, InPass
<1>21. CASE StartPass
  <2>1. /\ pass' = [NoPass EXCEPT !.kill = kill, !.banned = blacklist] /\ UNCHANGED book
        /\ DOMAIN current' = {i \in DOMAIN book : TokenOf(i) \notin blacklist}
    BY <1>21 DEF StartPass, Recovered
  <2>2. pass'.banned = blacklist
    BY <2>1 DEF NoPass
  <2> QED  BY <2>1, <2>2 DEF SlotInv, Known
<1>22. CASE EndPass \/ PassFails \/ Crash
  <2>1. DOMAIN current' = {} /\ UNCHANGED book /\ ~InPass'
    BY <1>22, Constants DEF EndPass, PassFails, Crash, Forget, InPass
  <2> QED  BY <2>1 DEF SlotInv
<1> QED  BY <1>7, <1>8, <1>9, <1>10, <1>11, <1>12, <1>13, <1>14, <1>15, <1>16, <1>17, <1>18, <1>19, <1>20, <1>21,
            <1>22 DEF Next, Sweeping, Ticking, Allocating

LEMMA InitSlot == Init => SlotInv
<1> SUFFICES ASSUME Init PROVE SlotInv
  OBVIOUS
<1>1. PICK ids \in {{}} \cup {{<<t, 1>>} : t \in Tokens} : DOMAIN book = ids
  BY DEF Init, LegacyBooks
<1>2. \A i, j \in DOMAIN book : i = j
  BY <1>1
<1>3. DOMAIN current = {}
  BY Constants DEF Init
<1> QED  BY <1>2, <1>3 DEF Init, SlotInv, InPass

(* A token sits in one slot: no pass opens a second one beside a row that   *)
(* it, a sweep or an earlier pass left.                                     *)
THEOREM OneRowPerTokenAlways == Spec => []OneRowPerToken
<1> DEFINE I == TypeInv /\ PhaseInv /\ SlotInv
<1>1. Init => I
  BY InitPhase, InitSlot
<1>2. I /\ [Next]_vars => I'
  <2>1. ASSUME I, Next PROVE SlotInv'
    BY <2>1, SlotKept
  <2>2. ASSUME I, UNCHANGED vars PROVE SlotInv'
    BY <2>2 DEF vars, SlotInv, Known, InPass
  <2> QED  BY <2>1, <2>2, TypesKept
<1>3. I => OneRowPerToken
  BY DEF SlotInv, OneRowPerToken
<1> QED  BY <1>1, <1>2, <1>3, PTL DEF Spec

-----------------------------------------------------------------------------
(* A condemned token is not bought.  The blacklist is what the pass was     *)
(* told plus tokens of its own rows; the row of a condemned token is never  *)
(* healthy, in the store or in a copy, and a watch condemns on a second     *)
(* look at the earliest, when its row is already frozen.                    *)
Listed(ids) == TokensOf(ids) \cap blacklist # {}

BlacklistInv ==
  /\ InPass => pass.banned \subseteq blacklist /\ blacklist \subseteq pass.banned \cup TokensOf(DOMAIN current)
  /\ pc = "sweep" /\ sweep.from = "pass" => ~Listed(DOMAIN current)
  /\ pc = "tick" => ~Listed(pass.todo)
  /\ pc \in {"open", "first"} => ~Listed(pass.todo \ DOMAIN current)

Sane(row) == row.watch.exit > 0 => row.watch.stage # "healthy"
Barred(list, id, row) == Sane(row) /\ (TokenOf(id) \in list => row.watch.stage # "healthy")

WatchInv ==
  /\ \A i \in DOMAIN book : Barred(blacklist, i, book[i])
  /\ \A i \in DOMAIN current : Barred(blacklist, i, current[i])
  /\ \A i \in DOMAIN current \cap DOMAIN book : current[i].watch = book[i].watch

LEMMA LookFacts ==
  ASSUME NEW watch \in Watches, NEW look, watch.exit > 0 => watch.stage # "healthy"
  PROVE  /\ AssessAssetHealth(watch, look).exit > 0 => AssessAssetHealth(watch, look).stage # "healthy"
         /\ Condemns(watch, look) =>
              watch.stage # "healthy" /\ AssessAssetHealth(watch, look).stage # "healthy"
<1>1. watch.exit \in Nat /\ watch.clean \in Nat
  BY DEF Watches
<1>2. StartDeathWatch.exit = 0 /\ StartDeathWatch.stage = "healthy"
  BY DEF StartDeathWatch
<1>3. Clean(watch).exit = 0 /\ Clean(watch).stage \in {"healthy", watch.stage}
  <2>1. [watch EXCEPT !.exit = 0, !.clean = @ + 1].exit = 0
    BY DEF Watches
  <2>2. [watch EXCEPT !.exit = 0, !.clean = @ + 1].stage = watch.stage
    BY DEF Watches
  <2> QED  BY <1>2, <2>1, <2>2 DEF Clean
<1>4. \A signals : /\ Suspect(watch, signals).stage \in {"dead", "frozen"}
                   /\ Suspect(watch, signals).stage = "dead" => watch.exit > 0
  BY <1>1, CycleAssumption, DeathWatchAssumption DEF Suspect
<1>5. CASE watch.stage = "dead"
  BY <1>5 DEF AssessAssetHealth, Condemns
<1>6. CASE watch.stage # "dead"
  <2>1. \/ \E signals : AssessAssetHealth(watch, look) = Suspect(watch, signals)
        \/ AssessAssetHealth(watch, look) \in {Clean(watch), watch}
    BY <1>6 DEF AssessAssetHealth
  <2>2. CASE \E signals : AssessAssetHealth(watch, look) = Suspect(watch, signals)
    BY <1>4, <2>2 DEF Condemns
  <2>3. CASE AssessAssetHealth(watch, look) \in {Clean(watch), watch}
    BY <1>1, <1>3, <1>6, <2>3 DEF Condemns
  <2> QED  BY <2>1, <2>2, <2>3
<1> QED  BY <1>5, <1>6

LEMMA BlacklistKept ==
  ASSUME TypeInv, PhaseInv, SlotInv, BlacklistInv, Next
  PROVE  BlacklistInv'
<1>1. RestOK /\ TypeOK /\ RowsOf(book) /\ RowsOf(current)
  BY TypeParts DEF TypeInv
<1>2. pass \in Passes /\ sweep \in Sweeps /\ pc \in Places
  BY <1>1 DEF RestOK
<1>3. CASE EndSweep
  <2>1. DOMAIN current' = DOMAIN current /\ UNCHANGED blacklist /\ pc = "sweep"
    BY <1>1, <1>3, RefreshedFacts DEF EndSweep
  <2> DEFINE p == [pass EXCEPT !.stopped = @ \cup sweep.done]
             q == [p EXCEPT !.todo = Unstopped(DOMAIN current, p)]
  <2>2. p.banned = pass.banned /\ q.banned = pass.banned /\ q.todo \subseteq DOMAIN current
    BY <1>2 DEF Passes, Unstopped
  <2>3. \/ sweep.from = "pass" /\ pass' = q /\ pc' = "tick"
        \/ sweep.from = "scan" /\ pass' = p /\ pc' = "scan"
        \/ sweep.from = "asleep" /\ pc' = "asleep"
    BY <1>2, <1>3 DEF EndSweep, Sweeps
  <2> HIDE DEF p, q
  <2> QED  BY <2>1, <2>2, <2>3 DEF BlacklistInv, InPass, Listed, TokensOf
<1>4. CASE SweepThrows
  <2>1. InPass' => UNCHANGED <<pass, current>> /\ InPass
    BY <1>4 DEF SweepThrows, InPass
  <2>2. UNCHANGED blacklist /\ pc' \in {"boot", "scan", "asleep"}
    BY <1>2, <1>4 DEF SweepThrows, Sweeps
  <2> QED  BY <2>1, <2>2 DEF BlacklistInv
<1>5. ASSUME NEW id \in Ids, SweepSale(id) \/ SweepBuy(id) PROVE BlacklistInv'
  <2>1. UNCHANGED <<blacklist, pc, current, pass>> /\ sweep'.from = sweep.from
    BY <1>2, <1>5 DEF SweepSale, SweepBuy, Sweeps
  <2> QED  BY <2>1 DEF BlacklistInv, InPass, Listed
<1>6. ASSUME NEW id \in DOMAIN current, Tick(id) PROVE BlacklistInv'
  <2>1. /\ pc = "tick" /\ pc' = "tick" /\ DOMAIN current' = DOMAIN current /\ id \in pass.todo
        /\ blacklist \subseteq blacklist' /\ blacklist' \subseteq blacklist \cup {TokenOf(id)}
    BY <1>6 DEF Tick, TickWithoutBar, TickOnBar, Condemned
  <2>2. pass'.banned = pass.banned /\ pass'.todo = pass.todo \ {id} /\ pass.todo \subseteq DOMAIN current
    BY <1>2, <1>6 DEF Tick, Passes, PhaseInv
  <2>3. \A j \in pass'.todo : TokenOf(j) # TokenOf(id)
    BY <2>2 DEF SlotInv
  <2>4. \A j \in pass'.todo : TokenOf(j) \notin blacklist
    BY <2>1, <2>2 DEF BlacklistInv, Listed, TokensOf
  <2> QED  BY <2>1, <2>2, <2>3, <2>4 DEF BlacklistInv, InPass, Listed, TokensOf
<1>7. ASSUME NEW id \in DOMAIN current, TickThrows(id) PROVE BlacklistInv'
  BY <1>7 DEF TickThrows, BlacklistInv, InPass
<1>8. CASE EndTicks \/ EndScan \/ NextPhase \/ EndOpen \/ EndFirstTicks \/ EndFirstBuys
  <2>1. UNCHANGED blacklist /\ DOMAIN current' = DOMAIN current /\ InPass
    BY <1>1, <1>8, RefreshedFacts
    DEF EndTicks, EndScan, NextPhase, EndOpen, EndFirstTicks, EndFirstBuys, AfterTheScan, InPass
  <2>2. pass'.banned = pass.banned
    BY <1>2, <1>8 DEF EndTicks, EndScan, NextPhase, EndOpen, EndFirstTicks, EndFirstBuys, Passes
  <2>3. /\ pc' \notin {"sweep", "tick", "open"}
        /\ pc' = "first" => pc = "open" /\ pass' = pass
    BY <1>8 DEF EndTicks, EndScan, NextPhase, EndOpen, EndFirstTicks, EndFirstBuys
  <2> QED  BY <2>1, <2>2, <2>3 DEF BlacklistInv, Listed
<1>9. CASE SweepDuringScan
  <2>1. UNCHANGED <<blacklist, current, pass>> /\ pc' = "sweep" /\ sweep'.from = "scan" /\ InPass
    BY <1>9 DEF SweepDuringScan, BeginSweep, InPass
  <2> QED  BY <2>1 DEF BlacklistInv
<1>10. CASE GuardStops \/ SetKill
  <2>1. ~InPass' /\ (pc' = "sweep" => sweep'.from = "asleep") /\ pc' \in {"sweep", "boot", "asleep"}
    BY <1>10 DEF GuardStops, SetKill, BeginSweep, InPass
  <2> QED  BY <2>1 DEF BlacklistInv
<1>11. ASSUME NEW id \in Ids, ScoreBaseline(id) \/ ScoreStop(id) \/ Rotate(id) PROVE BlacklistInv'
  <2>1. UNCHANGED <<blacklist, current, pc, sweep>> /\ pc \in {"score", "rotate"}
    BY <1>11 DEF ScoreBaseline, ScoreStop, Rotate
  <2>2. pass'.banned = pass.banned
    BY <1>2, <1>11 DEF ScoreBaseline, ScoreStop, Rotate, Passes
  <2> QED  BY <2>1, <2>2 DEF BlacklistInv, InPass
<1>12. ASSUME NEW id \in Ids, Release(id) PROVE BlacklistInv'
  <2>1. /\ UNCHANGED <<current, pc, sweep>> /\ pc = "release" /\ id \in DOMAIN current
        /\ blacklist \subseteq blacklist' /\ blacklist' \subseteq blacklist \cup {TokenOf(id)}
    BY <1>12 DEF Release
  <2>2. pass'.banned = pass.banned
    BY <1>2, <1>12 DEF Release, Passes
  <2> QED  BY <2>1, <2>2 DEF BlacklistInv, InPass, TokensOf
<1>13. CASE Trim
  <2>1. UNCHANGED <<blacklist, current>> /\ pc = "trim" /\ pc' = "open"
    BY <1>13 DEF Trim
  <2>2. pass'.banned = pass.banned /\ pass'.todo = {}
    BY <1>2, <1>13 DEF Trim, Passes, PhaseInv, Allocates
  <2> QED  BY <2>1, <2>2 DEF BlacklistInv, InPass, Listed, TokensOf
<1>14. ASSUME NEW id \in Ids, Open(id) PROVE BlacklistInv'
  <2>1. UNCHANGED <<blacklist, current, pc>> /\ pc = "open"
    BY <1>14 DEF Open
  <2>2. pass'.banned = pass.banned /\ pass'.todo = pass.todo \cup {id}
    BY <1>2, <1>14 DEF Open, Passes
  <2>3. TokenOf(id) \notin blacklist
    <3>1. TokenOf(id) \notin pass.banned /\ TokenOf(id) \notin TokensOf(DOMAIN current)
      BY <1>14 DEF Open, Eligible, JustFreed, TokensOf, Keeping, Gone
    <3> QED  BY <2>1, <3>1 DEF BlacklistInv, InPass
  <2> QED  BY <2>1, <2>2, <2>3 DEF BlacklistInv, InPass, Listed, TokensOf
<1>15. ASSUME NEW id \in Ids, FirstTick(id) PROVE BlacklistInv'
  <2>1. /\ DOMAIN current' = DOMAIN current \cup {id} /\ id \in pass.todo \ DOMAIN current
        /\ pc = "first" /\ UNCHANGED <<pc, pass>>
        /\ blacklist \subseteq blacklist' /\ blacklist' \subseteq blacklist \cup {TokenOf(id)}
    BY <1>15 DEF FirstTick
  <2>2. pass.todo \subseteq DOMAIN book
    BY <2>1 DEF PhaseInv, Allocates
  <2>3. \A j \in pass.todo \ DOMAIN current' : TokenOf(j) # TokenOf(id) /\ TokenOf(j) \notin blacklist
    BY <2>1, <2>2 DEF SlotInv, BlacklistInv, Listed, TokensOf
  <2> QED  BY <2>1, <2>3 DEF BlacklistInv, InPass, Listed, TokensOf
<1>16. ASSUME NEW id \in Ids, FirstBuy(id) PROVE BlacklistInv'
  BY <1>16 DEF FirstBuy, BlacklistInv, InPass
<1>17. CASE StartPass
  <2>1. /\ pass' = [NoPass EXCEPT !.kill = kill, !.banned = blacklist] /\ UNCHANGED blacklist
        /\ DOMAIN current' = {i \in DOMAIN book : TokenOf(i) \notin blacklist} /\ pc' = "sweep"
    BY <1>17 DEF StartPass, Recovered, BeginSweep
  <2>2. pass'.banned = blacklist
    BY <2>1 DEF NoPass
  <2> QED  BY <2>1, <2>2 DEF BlacklistInv, Listed, TokensOf
<1>18. CASE EndPass \/ PassFails \/ Crash
  <2>1. ~InPass' /\ pc' \in {"boot", "asleep"}
    BY <1>18 DEF EndPass, PassFails, Crash, Forget, InPass
  <2> QED  BY <2>1 DEF BlacklistInv
<1> QED  BY <1>3, <1>4, <1>5, <1>6, <1>7, <1>8, <1>9, <1>10, <1>11, <1>12, <1>13, <1>14, <1>15, <1>16, <1>17, <1>18
         DEF Next, Sweeping, Ticking, Allocating

(* A step that moves rows between the store and the copies, or drops them.  *)
LEMMA WatchesMoved ==
  ASSUME WatchInv, blacklist' = blacklist,
         \A i \in DOMAIN book' : \/ i \in DOMAIN book /\ book'[i].watch = book[i].watch
                                 \/ i \in DOMAIN current /\ book'[i].watch = current[i].watch,
         \A i \in DOMAIN current' : \/ i \in DOMAIN book /\ current'[i].watch = book[i].watch
                                    \/ i \in DOMAIN current /\ current'[i].watch = current[i].watch
  PROVE  WatchInv'
<1>1. \A i \in DOMAIN book' : Barred(blacklist', i, book'[i])
  BY DEF WatchInv, Barred, Sane
<1>2. \A i \in DOMAIN current' : Barred(blacklist', i, current'[i])
  BY DEF WatchInv, Barred, Sane
<1>3. \A i \in DOMAIN current' \cap DOMAIN book' : current'[i].watch = book'[i].watch
  BY DEF WatchInv
<1> QED  BY <1>1, <1>2, <1>3 DEF WatchInv

LEMMA WatchKept ==
  ASSUME TypeInv, PhaseInv, SlotInv, BlacklistInv, WatchInv, Next
  PROVE  WatchInv'
<1>1. RestOK /\ TypeOK /\ RowsOf(book) /\ RowsOf(current)
  BY TypeParts DEF TypeInv
<1>2. /\ \A i \in DOMAIN current : i \in Ids /\ current[i] \in Rows
      /\ \A i \in DOMAIN book : i \in Ids /\ book[i] \in Rows
  BY <1>1 DEF RowsOf
<1>3. DOMAIN << >> = {}
  BY Constants
<1>4. \A id : DOMAIN Drop(id) = DOMAIN book \ {id} /\ \A i \in DOMAIN Drop(id) : Drop(id)[i] = book[i]
  BY <1>1, DropFacts
<1>5. \A id \in Ids : BuyStep(id) =>
        DOMAIN book' = DOMAIN book /\ \A i \in DOMAIN book : book'[i].watch = book[i].watch
  BY BuyFacts
<1>6. DOMAIN Refreshed(current) = DOMAIN current /\
        \A i \in DOMAIN current : Refreshed(current)[i] = IF i \in DOMAIN book THEN book[i] ELSE current[i]
  BY <1>1, RefreshedFacts
<1>7. CASE EndSweep \/ SweepThrows \/ EndScan \/ EndPass \/ PassFails \/ Crash
  <2>1. UNCHANGED <<book, blacklist>> /\ current' \in {current, Refreshed(current), << >>}
    BY <1>7 DEF EndSweep, SweepThrows, EndScan, EndPass, PassFails, Crash, Forget, AfterTheScan
  <2> QED  BY <1>3, <1>6, <2>1, WatchesMoved
<1>8. ASSUME NEW id \in Ids, SweepSale(id) \/ ScoreStop(id) \/ Rotate(id) PROVE WatchInv'
  <2>1. UNCHANGED <<current, blacklist>> /\ book' = Drop(id)
    BY <1>8 DEF SweepSale, ScoreStop, Rotate, ClosePosition
  <2> QED  BY <1>4, <2>1, WatchesMoved
<1>9. ASSUME NEW id \in Ids, SweepBuy(id) \/ FirstBuy(id) PROVE WatchInv'
  <2>1. UNCHANGED <<current, blacklist>> /\ BuyStep(id)
    BY <1>9 DEF SweepBuy, FirstBuy
  <2> QED  BY <1>5, <2>1, WatchesMoved
<1>10. ASSUME NEW id \in DOMAIN current, NEW look
       PROVE  /\ Watched(id, look) \in Rows
              /\ Sane(Watched(id, look))
              /\ Condemns(current[id].watch, look) =>
                   current[id].watch.stage # "healthy" /\ Watched(id, look).watch.stage # "healthy"
  <2>1. current[id].watch \in Watches /\ (current[id].watch.exit > 0 => current[id].watch.stage # "healthy")
    BY <1>2 DEF Rows, WatchInv, Barred, Sane
  <2>2. Watched(id, look) = [current[id] EXCEPT !.watch = AssessAssetHealth(current[id].watch, look)]
    BY <1>2 DEF Watched, Rows
  <2>3. Watched(id, look) \in Rows /\ Watched(id, look).watch = AssessAssetHealth(current[id].watch, look)
    BY <1>2, <2>1, <2>2, WatchType DEF Rows
  <2> QED  BY <2>1, <2>3, LookFacts DEF Sane
<1>11. ASSUME NEW id \in DOMAIN current, Tick(id) PROVE WatchInv'
  <2>1. PICK look : /\ book' = Save(id, Watched(id, look))
                    /\ current' = [current EXCEPT ![id] = Watched(id, look)]
                    /\ blacklist' = blacklist \cup Condemned(id, look)
    BY <1>11 DEF Tick, TickWithoutBar, TickOnBar
  <2>2. pc = "tick" /\ id \in pass.todo /\ id \in Ids
    BY <1>2, <1>11 DEF Tick
  <2>3. TokenOf(id) \notin blacklist
    BY <2>2 DEF BlacklistInv, Listed, TokensOf
  <2>4. \A i \in DOMAIN book \cup DOMAIN current : i # id => TokenOf(i) # TokenOf(id)
    BY DEF SlotInv
  <2> DEFINE row == Watched(id, look)
  <2>5. /\ DOMAIN book' = DOMAIN book \cup {id} /\ DOMAIN current' = DOMAIN current
        /\ \A i \in DOMAIN book : i # id => book'[i] = book[i]
        /\ \A i \in DOMAIN current : i # id => current'[i] = current[i]
        /\ book'[id].watch = row.watch /\ current'[id] = row
    BY <1>1, <1>10, <2>1, <2>2, SaveFacts
  <2>6. Sane(row) /\ (TokenOf(id) \in blacklist' => row.watch.stage # "healthy")
    BY <1>10, <2>1, <2>3 DEF Condemned
  <2> HIDE DEF row
  <2>7. \A i : i # id /\ i \in DOMAIN book \cup DOMAIN current => (TokenOf(i) \in blacklist' => TokenOf(i) \in blacklist)
    BY <2>1, <2>4 DEF Condemned
  <2>8. \A i \in DOMAIN book' : Barred(blacklist', i, book'[i])
    BY <2>5, <2>6, <2>7 DEF WatchInv, Barred, Sane
  <2>9. \A i \in DOMAIN current' : Barred(blacklist', i, current'[i])
    BY <2>5, <2>6, <2>7 DEF WatchInv, Barred, Sane
  <2>10. \A i \in DOMAIN current' \cap DOMAIN book' : current'[i].watch = book'[i].watch
    BY <2>5 DEF WatchInv
  <2> QED  BY <2>8, <2>9, <2>10 DEF WatchInv
<1>12. ASSUME NEW id \in DOMAIN current, TickThrows(id) PROVE WatchInv'
  <2>1. PICK look : /\ book' \in {book, Save(id, Watched(id, look))}
                    /\ blacklist' = blacklist \cup Condemned(id, look)
    BY <1>12 DEF TickThrows
  <2>2. pc = "tick" /\ id \in pass.todo /\ id \in Ids /\ current' = << >>
    BY <1>2, <1>12 DEF TickThrows
  <2>3. TokenOf(id) \notin blacklist
    BY <2>2 DEF BlacklistInv, Listed, TokensOf
  <2>4. \A i \in DOMAIN book \cup DOMAIN current : i # id => TokenOf(i) # TokenOf(id)
    BY DEF SlotInv
  <2>5. \A i \in DOMAIN book : i # id => (TokenOf(i) \in blacklist' => TokenOf(i) \in blacklist)
    BY <2>1, <2>4 DEF Condemned
  <2>6. \A i \in DOMAIN book' : Barred(blacklist', i, book'[i])
    <3>1. CASE book' = book
      <4>1. ASSUME id \in DOMAIN book, TokenOf(id) \in blacklist' PROVE book[id].watch.stage # "healthy"
        <5>1. Condemns(current[id].watch, look)
          BY <2>1, <2>3, <4>1 DEF Condemned
        <5> QED  BY <1>10, <4>1, <5>1 DEF WatchInv
      <4> QED  BY <2>5, <3>1, <4>1 DEF WatchInv, Barred
    <3>2. CASE book' = Save(id, Watched(id, look))
      <4> DEFINE row == Watched(id, look)
      <4>1. /\ DOMAIN book' = DOMAIN book \cup {id} /\ book'[id].watch = row.watch
            /\ \A i \in DOMAIN book : i # id => book'[i] = book[i]
        BY <1>1, <1>10, <2>2, <3>2, SaveFacts
      <4>2. Sane(row) /\ (TokenOf(id) \in blacklist' => row.watch.stage # "healthy")
        BY <1>10, <2>1, <2>3 DEF Condemned
      <4> HIDE DEF row
      <4> QED  BY <2>5, <4>1, <4>2 DEF WatchInv, Barred, Sane
    <3> QED  BY <2>1, <3>1, <3>2
  <2> QED  BY <1>3, <2>2, <2>6 DEF WatchInv
<1>13. CASE EndTicks \/ SweepDuringScan \/ NextPhase \/ EndOpen \/ EndFirstTicks \/ EndFirstBuys \/ GuardStops \/ SetKill
  <2>1. UNCHANGED <<book, current, blacklist>>
    BY <1>13 DEF EndTicks, SweepDuringScan, NextPhase, EndOpen, EndFirstTicks, EndFirstBuys, GuardStops, SetKill
  <2> QED  BY <2>1, WatchesMoved
<1>14. ASSUME NEW id \in Ids, ScoreBaseline(id) PROVE WatchInv'
  <2> DEFINE row == [current[id] EXCEPT !.scored = TRUE]
  <2>1. id \in DOMAIN current /\ UNCHANGED <<current, blacklist>> /\ book' = Save(id, row)
    BY <1>14 DEF ScoreBaseline, Unstopped
  <2>2. row \in Rows /\ row.watch = current[id].watch
    BY <1>2, <2>1 DEF Rows
  <2> HIDE DEF row
  <2>3. /\ DOMAIN book' = DOMAIN book \cup {id} /\ book'[id].watch = row.watch
        /\ \A i \in DOMAIN book : i # id => book'[i] = book[i]
    BY <1>1, <2>1, <2>2, SaveFacts
  <2> QED  BY <2>1, <2>2, <2>3, WatchesMoved
<1>15. ASSUME NEW id \in Ids, Release(id) PROVE WatchInv'
  <2>1. /\ id \in DOMAIN current /\ current' = current /\ book' = Drop(id)
        /\ \/ blacklist' = blacklist
           \/ blacklist' = blacklist \cup {TokenOf(id)} /\ current[id].watch.stage # "healthy"
    BY <1>15 DEF Release, ClosePosition
  <2>2. \A i \in DOMAIN book \cup DOMAIN current : i # id => TokenOf(i) # TokenOf(id)
    BY <2>1 DEF SlotInv
  <2>3. \A i \in DOMAIN book' : i \in DOMAIN book /\ i # id /\ book'[i] = book[i]
    BY <1>4, <2>1
  <2>4. \A i \in DOMAIN book' : Barred(blacklist', i, book'[i])
    BY <2>1, <2>2, <2>3 DEF WatchInv, Barred
  <2>5. \A i \in DOMAIN current' : Barred(blacklist', i, current'[i])
    BY <2>1, <2>2 DEF WatchInv, Barred
  <2> QED  BY <2>1, <2>3, <2>4, <2>5 DEF WatchInv
<1>16. CASE Trim
  <2> DEFINE cut == {i \in Keeping : current[i].cap > Needs(i)}
             cutRow(i) == [Trimmed(i) EXCEPT !.scored = @ \/ (i \in DOMAIN book /\ book[i].scored)]
  <2>1. /\ cut \subseteq DOMAIN current /\ UNCHANGED <<current, blacklist>>
        /\ book' = [i \in DOMAIN book \cup cut |-> IF i \in cut THEN cutRow(i) ELSE book[i]]
    BY <1>16 DEF Trim, Keeping
  <2>2. ASSUME NEW i \in cut PROVE cutRow(i).watch = current[i].watch
    <3>1. Trimmed(i) \in Rows /\ Trimmed(i).watch = current[i].watch
      BY <1>1, <2>1, NeedsType
    <3> QED  BY <3>1 DEF Rows
  <2> HIDE DEF cut, cutRow
  <2> QED  BY <2>1, <2>2, WatchesMoved
<1>17. ASSUME NEW id \in Ids, Open(id) PROVE WatchInv'
  <2> DEFINE row == [cap |-> Slot, watch |-> StartDeathWatch, scored |-> TRUE]
  <2>1. UNCHANGED <<current, blacklist>> /\ book' = Save(id, row) /\ pc = "open"
    BY <1>17 DEF Open
  <2>2. row \in Rows /\ row.watch.exit = 0
    BY CycleAssumption DEF Rows, Watches, Stages, StartDeathWatch
  <2>3. TokenOf(id) \notin blacklist /\ id \notin DOMAIN current
    <3>1. TokenOf(id) \notin pass.banned /\ TokenOf(id) \notin TokensOf(DOMAIN current)
      BY <1>17 DEF Open, Eligible, JustFreed, TokensOf, Keeping, Gone
    <3> QED  BY <2>1, <3>1 DEF BlacklistInv, InPass, TokensOf
  <2> HIDE DEF row
  <2>4. /\ DOMAIN book' = DOMAIN book \cup {id} /\ book'[id].watch = row.watch
        /\ \A i \in DOMAIN book : i # id => book'[i] = book[i]
    BY <1>1, <2>1, <2>2, SaveFacts
  <2> QED  BY <2>1, <2>2, <2>3, <2>4 DEF WatchInv, Barred, Sane
<1>18. ASSUME NEW id \in Ids, FirstTick(id) PROVE WatchInv'
  <2>1. /\ id \in DOMAIN book /\ id \in pass.todo \ DOMAIN current /\ pc = "first"
    BY <1>18 DEF FirstTick, PhaseInv, Allocates
  <2>2. PICK look : LET row == [book[id] EXCEPT !.watch = AssessAssetHealth(@, look)] IN
                    /\ blacklist' = blacklist \cup (IF Condemns(book[id].watch, look) THEN {TokenOf(id)} ELSE {})
                    /\ book' = Save(id, row)
                    /\ current' = [i \in DOMAIN current \cup {id} |-> IF i = id THEN row ELSE current[i]]
    BY <1>18 DEF FirstTick
  <2> DEFINE row == [book[id] EXCEPT !.watch = AssessAssetHealth(@, look)]
  <2>3. book[id].watch \in Watches /\ (book[id].watch.exit > 0 => book[id].watch.stage # "healthy")
    BY <1>2, <2>1 DEF Rows, WatchInv, Barred, Sane
  <2>4. row \in Rows /\ row.watch = AssessAssetHealth(book[id].watch, look)
    BY <1>2, <2>1, <2>3, WatchType DEF Rows
  <2>5. TokenOf(id) \notin blacklist
    BY <2>1 DEF BlacklistInv, Listed, TokensOf
  <2>6. Sane(row) /\ (TokenOf(id) \in blacklist' => row.watch.stage # "healthy")
    BY <2>2, <2>3, <2>4, <2>5, LookFacts DEF Sane
  <2>7. \A i \in DOMAIN book \cup DOMAIN current : i # id => TokenOf(i) # TokenOf(id)
    BY <2>1 DEF SlotInv
  <2>8. \A i \in DOMAIN book \cup DOMAIN current : i # id => (TokenOf(i) \in blacklist' => TokenOf(i) \in blacklist)
    BY <2>2, <2>7
  <2>9. /\ book' = Save(id, row)
        /\ current' = [i \in DOMAIN current \cup {id} |-> IF i = id THEN row ELSE current[i]]
    BY <2>2
  <2> HIDE DEF row
  <2>10. /\ DOMAIN book' = DOMAIN book \cup {id} /\ book'[id].watch = row.watch
         /\ \A i \in DOMAIN book : i # id => book'[i] = book[i]
         /\ DOMAIN current' = DOMAIN current \cup {id} /\ current'[id] = row
         /\ \A i \in DOMAIN current : i # id => current'[i] = current[i]
    BY <1>1, <2>4, <2>9, SaveFacts
  <2>11. \A i \in DOMAIN book' : Barred(blacklist', i, book'[i])
    BY <2>6, <2>8, <2>10 DEF WatchInv, Barred, Sane
  <2>12. \A i \in DOMAIN current' : Barred(blacklist', i, current'[i])
    BY <2>6, <2>8, <2>10 DEF WatchInv, Barred, Sane
  <2>13. \A i \in DOMAIN current' \cap DOMAIN book' : current'[i].watch = book'[i].watch
    BY <2>1, <2>10 DEF WatchInv
  <2> QED  BY <2>11, <2>12, <2>13 DEF WatchInv
<1>19. CASE StartPass
  <2>1. UNCHANGED <<book, blacklist>> /\ current' = [i \in Recovered |-> book[i]] /\ Recovered \subseteq DOMAIN book
    BY <1>19 DEF StartPass, Recovered
  <2> QED  BY <2>1, WatchesMoved
<1> QED  BY <1>7, <1>8, <1>9, <1>11, <1>12, <1>13, <1>14, <1>15, <1>16, <1>17, <1>18, <1>19
         DEF Next, Sweeping, Ticking, Allocating

LEMMA InitWatch == Init => BlacklistInv /\ WatchInv
<1> SUFFICES ASSUME Init PROVE BlacklistInv /\ WatchInv
  OBVIOUS
<1>1. PICK ids \in {{}} \cup {{<<t, 1>>} : t \in Tokens} :
        book = [i \in ids |-> [cap |-> Slot, watch |-> StartDeathWatch, scored |-> FALSE]]
  BY DEF Init, LegacyBooks
<1>2. \A i \in DOMAIN book : book[i].watch.exit = 0
  BY <1>1 DEF StartDeathWatch
<1>3. DOMAIN current = {} /\ blacklist = {} /\ pc = "boot"
  BY Constants DEF Init
<1> QED  BY <1>2, <1>3 DEF BlacklistInv, InPass, WatchInv, Barred, Sane

CondemnInv == TypeInv /\ PhaseInv /\ SlotInv /\ BlacklistInv /\ WatchInv

LEMMA CondemnKept == CondemnInv /\ [Next]_vars => CondemnInv'
<1>1. ASSUME CondemnInv, Next PROVE CondemnInv'
  BY <1>1, TypesKept, SlotKept, BlacklistKept, WatchKept DEF CondemnInv
<1>2. ASSUME CondemnInv, UNCHANGED vars PROVE CondemnInv'
  <2>1. SlotInv'
    BY <1>2 DEF CondemnInv, vars, SlotInv, Known, InPass
  <2>2. BlacklistInv'
    BY <1>2 DEF CondemnInv, vars, BlacklistInv, InPass, Listed
  <2>3. WatchInv'
    BY <1>2 DEF CondemnInv, vars, WatchInv, Barred
  <2> QED  BY <1>2, <2>1, <2>2, <2>3, TypesKept DEF CondemnInv
<1> QED  BY <1>1, <1>2

(* Who buys and who opens.                                                 *)
LEMMA BuyersAndOpeners ==
  ASSUME TypeInv, PhaseInv, Next, NEW id \in Ids
  PROVE  /\ Bought(id) => BuyStep(id)
         /\ Opening(id) => Open(id)
<1>1. RestOK /\ TypeOK /\ RowsOf(book)
  BY TypeParts DEF TypeInv
<1>2. held \in [Ids -> Nat] /\ DOMAIN current \subseteq Ids
  BY <1>1 DEF RestOK, TypeOK, RowsOf
<1>3. \A i \in Ids : SellAll(i) => ~Bought(id)
  BY <1>1, SellFacts DEF Bought
<1>4. ASSUME NEW i \in Ids, BuyStep(i), Bought(id) PROVE BuyStep(id)
  <2>1. i = id
    BY <1>2, <1>4, BuyFacts DEF Bought
  <2> QED  BY <1>4, <2>1
<1>5. held' = held => ~Bought(id)
  BY <1>2 DEF Bought
<1>6. ASSUME Bought(id) PROVE BuyStep(id)
  <2>1. \/ held' = held
        \/ \E i \in Ids : SellAll(i)
        \/ \E i \in Ids : BuyStep(i)
    <3>1. CASE EndSweep \/ EndTicks \/ SweepDuringScan \/ EndScan \/ NextPhase \/ Trim \/ EndOpen \/ EndFirstTicks
               \/ EndFirstBuys \/ StartPass \/ GuardStops \/ EndPass \/ Crash \/ SetKill
      BY <3>1 DEF EndSweep, EndTicks, SweepDuringScan, EndScan, NextPhase, Trim, EndOpen, EndFirstTicks,
         EndFirstBuys, StartPass, GuardStops, EndPass, Crash, SetKill
    <3>2. CASE SweepThrows
      BY <1>1, <3>2 DEF SweepThrows, RestOK, Sweeps
    <3>3. CASE PassFails
      BY <1>2, <3>3 DEF PassFails
    <3>4. CASE \E i \in Ids : SweepSale(i) \/ SweepBuy(i) \/ ScoreBaseline(i) \/ ScoreStop(i) \/ Rotate(i)
                              \/ Release(i) \/ Open(i) \/ FirstTick(i) \/ FirstBuy(i)
      BY <3>4 DEF SweepSale, SweepBuy, ScoreBaseline, ScoreStop, Rotate, Release, Open, FirstTick, FirstBuy
    <3>5. CASE \E i \in DOMAIN current : Tick(i) \/ TickThrows(i)
      BY <1>2, <3>5 DEF Tick, TickThrows, TickWithoutBar, TickOnBar
    <3> QED  BY <3>1, <3>2, <3>3, <3>4, <3>5 DEF Next, Sweeping, Ticking, Allocating
  <2> QED  BY <1>3, <1>4, <1>5, <1>6, <2>1
<1>7. ASSUME Opening(id) PROVE Open(id)
  <2>1. pc = "open" /\ id \in DOMAIN book' /\ id \notin DOMAIN book
    BY <1>7 DEF Opening
  <2>2. EndOpen \/ PassFails \/ Crash \/ \E i \in Ids : Open(i)
    BY <2>1 DEF Next, Sweeping, Ticking, Allocating, EndSweep, SweepThrows, SweepSale, SweepBuy, EndTicks, Tick,
       TickThrows, SweepDuringScan, EndScan, NextPhase, Trim, EndFirstTicks, EndFirstBuys, ScoreBaseline, ScoreStop,
       Rotate, Release, FirstTick, FirstBuy, StartPass, GuardStops, EndPass, SetKill
  <2>3. book' # book
    BY <2>1
  <2>4. PICK i \in Ids : Open(i)
    BY <2>2, <2>3 DEF EndOpen, PassFails, Crash
  <2>5. DOMAIN book' = DOMAIN book \cup {i}
    BY <2>4 DEF Open, Save
  <2> QED  BY <2>1, <2>4, <2>5
<1> QED  BY <1>6, <1>7

LEMMA CondemnedIsNotBought ==
  ASSUME CondemnInv, Next, NEW id \in Ids, Bought(id) \/ Opening(id)
  PROVE  TokenOf(id) \notin blacklist
<1>1. CASE Bought(id)
  <2>1. BuyStep(id)
    BY <1>1, BuyersAndOpeners DEF CondemnInv
  <2>2. id \in DOMAIN book /\ book[id].watch.stage = "healthy"
    BY <2>1 DEF BuyStep
  <2> QED  BY <2>2 DEF CondemnInv, WatchInv, Barred
<1>2. CASE Opening(id)
  <2>1. Open(id)
    BY <1>2, BuyersAndOpeners DEF CondemnInv
  <2>2. TokenOf(id) \notin pass.banned /\ TokenOf(id) \notin TokensOf(DOMAIN current)
    BY <2>1 DEF Open, Eligible, JustFreed, TokensOf, Keeping, Gone
  <2>3. InPass
    BY <2>1 DEF Open, InPass
  <2> QED  BY <2>2, <2>3 DEF CondemnInv, BlacklistInv
<1> QED  BY <1>1, <1>2

(* A token on the blacklist is never bought and never opened: neither by    *)
(* the sweeps, which walk the whole book and know nothing of the list, nor  *)
(* by the allocator, through any crash between the list's write and the     *)
(* row's.                                                                   *)
THEOREM CondemnedNeverBuysEver == Spec => CondemnedNeverBuys
<1>1. Init => CondemnInv
  BY InitPhase, InitSlot, InitWatch DEF CondemnInv
<1>2. CondemnInv /\ [Next]_vars =>
        [\A id \in Ids : Bought(id) \/ Opening(id) => TokenOf(id) \notin blacklist]_vars
  BY CondemnedIsNotBought
<1> QED  BY <1>1, <1>2, CondemnKept, PTL DEF Spec, CondemnedNeverBuys

-----------------------------------------------------------------------------
(* Capital is promised once.  From the scan's end to the trim the pass's    *)
(* copies say what the store says of every row's capital, so the slots it   *)
(* counts are paid for by what no row of its own was promised.              *)
MoneyInv ==
  /\ pc \in {"score", "rotate", "release", "trim"} =>
       \A i \in DOMAIN current \cap DOMAIN book : current[i].cap = book[i].cap
  /\ pc = "open" /\ pass.room > 0 => Promised(book) + pass.room * Slot <= TotalCapital + fund

BookInv == CondemnInv /\ SoldInv /\ MoneyInv

Counted(b) == {i \in DOMAIN b : TokenOf(i) \notin blacklist /\ i \notin lost}

LEMMA PromisedFacts ==
  ASSUME NEW b, RowsOf(b), IsFiniteSet(DOMAIN b)
  PROVE  /\ Promised(b) = Total(b, Counted(b)) /\ Promised(b) \in Nat /\ Promised(b) <= Committed(b)
         /\ Capped(b, DOMAIN b) /\ Capped(b, Counted(b)) /\ IsFiniteSet(Counted(b))
<1>1. Promised(b) = Total(b, Counted(b))
  BY DEF Promised, Total, Counted
<1>2. Counted(b) \in SUBSET DOMAIN b
  BY DEF Counted
<1>3. IsFiniteSet(Counted(b)) /\ Capped(b, DOMAIN b) /\ Capped(b, Counted(b))
  BY <1>2, FS_Subset DEF Capped, RowsOf, Rows
<1>4. Total(b, Counted(b)) \in Nat
  BY <1>3, TotalRemove
<1>5. \A i \in Counted(b) : b[i].cap <= b[i].cap
  BY <1>3 DEF Capped
<1>6. Total(b, Counted(b)) <= Total(b, DOMAIN b)
  BY <1>2, <1>3, <1>5, TotalMono
<1> QED  BY <1>1, <1>3, <1>4, <1>6, CommittedType

LEMMA PromisedNext ==
  ASSUME blacklist' = blacklist, lost' = lost
  PROVE  Promised(book)' = Promised(book')
<1>1. {i \in DOMAIN book' : TokenOf(i) \notin blacklist' /\ i \notin lost'} = Counted(book')
  BY DEF Counted
<1>2. Promised(book)' = Total(book', {i \in DOMAIN book' : TokenOf(i) \notin blacklist' /\ i \notin lost'})
  BY DEF Promised, Total, MapThenSumSet, MapThenFoldSet
<1>3. Promised(book') = Total(book', Counted(book'))
  BY DEF Promised, Total, Counted
<1> QED  BY <1>1, <1>2, <1>3

LEMMA OpenMoney ==
  ASSUME BookInv, NEW id \in Ids, Open(id), IsFiniteSet(DOMAIN book'), RowsOf(book')
  PROVE  /\ Promised(book') + (pass.room - 1) * Slot <= TotalCapital + fund
         /\ Promised(book') \in Nat /\ (pass.room - 1) * Slot \in Nat
<1>1. TypeOK /\ RowsOf(book) /\ IsFiniteSet(DOMAIN book) /\ Slot \in Nat /\ pass.room \in Nat
  BY CycleAssumption, TypeParts DEF BookInv, CondemnInv, TypeInv, FiniteInv, RestOK, Passes
<1>2. pc = "open" /\ pass.room > 0 /\ id \notin DOMAIN book
  BY DEF Open
<1> DEFINE row == [cap |-> Slot, watch |-> StartDeathWatch, scored |-> TRUE]
<1>3. book' = Save(id, row)
  BY DEF Open
<1>4. row \in Rows /\ row.cap = Slot
  BY CycleAssumption DEF Rows, Watches, Stages, StartDeathWatch
<1> HIDE DEF row
<1>5. /\ DOMAIN book' = DOMAIN book \cup {id} /\ book'[id].cap = Slot
      /\ \A i \in DOMAIN book : book'[i] = book[i]
  BY <1>1, <1>2, <1>3, <1>4, SaveFacts
<1>6. Promised(book) = Total(book, Counted(book)) /\ Promised(book) \in Nat
  BY <1>1, PromisedFacts
<1>7. Promised(book') = Total(book', Counted(book')) /\ Promised(book') \in Nat
  BY PromisedFacts
<1>8. Total(book', Counted(book)) = Total(book, Counted(book))
  <2>1. IsFiniteSet(Counted(book)) /\ Capped(book, Counted(book))
    BY <1>1, PromisedFacts
  <2>2. \A i \in Counted(book) : book'[i].cap = book[i].cap
    BY <1>5 DEF Counted
  <2> QED  BY <2>1, <2>2, TotalSame
<1>9. Promised(book') <= Promised(book) + Slot
  <2>1. CASE id \in Counted(book')
    <3>1. Counted(book') \ {id} = Counted(book)
      BY <1>2, <1>5 DEF Counted
    <3>2. Total(book', Counted(book')) = book'[id].cap + Total(book', Counted(book') \ {id})
      <4>1. IsFiniteSet(Counted(book')) /\ Capped(book', Counted(book'))
        BY PromisedFacts
      <4> QED  BY <2>1, <4>1, TotalRemove
    <3> QED  BY <1>1, <1>5, <1>6, <1>7, <1>8, <3>1, <3>2
  <2>2. CASE id \notin Counted(book')
    <3>1. Counted(book') = Counted(book)
      BY <1>2, <1>5, <2>2 DEF Counted
    <3> QED  BY <1>1, <1>6, <1>7, <1>8, <3>1
  <2> QED  BY <2>1, <2>2
<1>10. Promised(book) + pass.room * Slot <= TotalCapital + fund
  BY <1>2 DEF BookInv, MoneyInv
<1>11. \A m \in Nat, n \in Nat : m > 0 => (m - 1) * n \in Nat /\ m * n = (m - 1) * n + n
  OBVIOUS
<1>12. (pass.room - 1) * Slot \in Nat /\ pass.room * Slot = (pass.room - 1) * Slot + Slot
  BY <1>1, <1>2, <1>11
<1>13. TotalCapital + fund \in Int
  BY <1>1, CycleAssumption DEF TypeOK
<1> HIDE DEF row
<1> QED  BY <1>1, <1>6, <1>7, <1>9, <1>10, <1>12, <1>13

LEMMA TrimMoney ==
  ASSUME BookInv, Trim, IsFiniteSet(DOMAIN book'), RowsOf(book')
  PROVE  LET room == FreeSlots(FreeUsd(Kept)) IN
         room > 0 => Promised(book') + room * Slot <= TotalCapital + fund
<1>1. TypeOK /\ RowsOf(book) /\ IsFiniteSet(DOMAIN book) /\ RowsOf(current) /\ IsFiniteSet(DOMAIN current)
  BY TypeParts DEF BookInv, CondemnInv, TypeInv, FiniteInv
<1>2. pc = "trim" /\ InPass
  BY DEF Trim, InPass
<1> DEFINE cut == {i \in Keeping : current[i].cap > Needs(i)}
           cutRow(i) == [Trimmed(i) EXCEPT !.scored = @ \/ (i \in DOMAIN book /\ book[i].scored)]
<1>3. book' = [i \in DOMAIN book \cup cut |-> IF i \in cut THEN cutRow(i) ELSE book[i]]
  BY DEF Trim
<1>4. Keeping \subseteq DOMAIN current /\ cut \subseteq Keeping
  BY DEF Keeping
<1>5. \A i \in Keeping : Trimmed(i) \in Rows
  BY <1>1, <1>4, NeedsType
<1>6. ASSUME NEW i \in cut PROVE cutRow(i).cap = Trimmed(i).cap
  BY <1>4, <1>5 DEF Rows
<1>7. Kept \in [Keeping -> Rows] /\ DOMAIN Kept = Keeping /\ \A i \in Keeping : Kept[i] = Trimmed(i)
  BY <1>5 DEF Kept
<1>8. RowsOf(Kept) /\ IsFiniteSet(Keeping)
  BY <1>1, <1>4, <1>7, FS_Subset DEF RowsOf
<1>9. Counted(book') \subseteq Keeping
  <2> SUFFICES ASSUME NEW i \in Counted(book') PROVE i \in Keeping
    OBVIOUS
  <2>1. i \in DOMAIN book \cup cut /\ TokenOf(i) \notin blacklist /\ i \notin lost
    BY <1>3 DEF Counted
  <2>2. CASE i \in cut
    BY <1>4, <2>2
  <2>3. CASE i \in DOMAIN book
    <3>1. i \in DOMAIN current
      <4>1. Known(i) /\ TokenOf(i) \notin pass.banned
        BY <1>2, <2>1, <2>3 DEF BookInv, CondemnInv, SlotInv, BlacklistInv
      <4> QED  BY <1>2, <4>1 DEF Known, Allocates
    <3>2. i \notin Gone(pass)
      BY <2>1, <2>3 DEF BookInv, SoldInv, Sold
    <3> QED  BY <3>1, <3>2 DEF Keeping
  <2> QED  BY <2>1, <2>2, <2>3
<1>10. ASSUME NEW i \in Counted(book') PROVE book'[i].cap <= Kept[i].cap
  <2>1. i \in Keeping /\ Kept[i].cap = Trimmed(i).cap /\ Trimmed(i).cap \in Nat
    BY <1>5, <1>7, <1>9 DEF Rows
  <2>2. CASE i \in cut
    <3>1. book'[i] = cutRow(i)
      BY <1>3, <2>2
    <3> HIDE DEF cutRow, cut
    <3> QED  BY <1>6, <2>1, <2>2, <3>1
  <2>3. CASE i \notin cut
    <3>1. i \in DOMAIN book /\ book'[i] = book[i] /\ i \in DOMAIN current
      BY <1>3, <1>4, <2>1, <2>3 DEF Counted
    <3>2. current[i].cap = book[i].cap
      BY <1>2, <3>1 DEF BookInv, MoneyInv
    <3>3. ~(current[i].cap > Needs(i))
      BY <2>1, <2>3
    <3>4. Trimmed(i).cap = current[i].cap
      BY <1>1, <3>1, <3>3, NeedsType
    <3> QED  BY <2>1, <3>1, <3>2, <3>4
  <2> QED  BY <2>2, <2>3
<1> HIDE DEF cut, cutRow
<1>11. Promised(book') <= Committed(Kept) /\ Promised(book') \in Nat /\ Committed(Kept) \in Nat
  <2>1. /\ Promised(book') = Total(book', Counted(book')) /\ Promised(book') \in Nat
        /\ Capped(book', Counted(book'))
    BY PromisedFacts
  <2>2. Committed(Kept) = Total(Kept, Keeping) /\ Committed(Kept) \in Nat
    BY <1>7, <1>8, CommittedType
  <2>3. Capped(Kept, Keeping)
    BY <1>7 DEF Capped, Rows
  <2>4. Counted(book') \in SUBSET Keeping
    BY <1>9
  <2>5. Total(book', Counted(book')) <= Total(Kept, Keeping)
    BY <1>8, <1>10, <2>1, <2>3, <2>4, TotalMono
  <2> QED  BY <2>1, <2>2, <2>5
<1> DEFINE room == FreeSlots(FreeUsd(Kept))
<1>12. room \in Nat /\ (room > 0 => room * Slot + Committed(Kept) <= TotalCapital + fund)
  BY <1>1, <1>7, <1>8, FreeFacts
<1>13. room * Slot \in Nat /\ TotalCapital + fund \in Int
  <2>1. \A m, n \in Nat : m * n \in Nat
    OBVIOUS
  <2>2. Slot \in Nat /\ TotalCapital \in Nat /\ fund \in Int
    BY <1>1, CycleAssumption DEF TypeOK
  <2> QED  BY <1>12, <2>1, <2>2
<1>14. room > 0 => Promised(book') + room * Slot <= TotalCapital + fund
  <2> HIDE DEF room
  <2> QED  BY <1>11, <1>12, <1>13
<1> QED  BY <1>14

LEMMA MoneyKept ==
  ASSUME BookInv, Next, IsFiniteSet(DOMAIN book'), RowsOf(book')
  PROVE  MoneyInv'
<1>1. RestOK /\ TypeOK /\ RowsOf(book) /\ RowsOf(current)
  BY TypeParts DEF BookInv, CondemnInv, TypeInv
<1>2. pass \in Passes /\ sweep \in Sweeps /\ pc \in Places
  BY <1>1 DEF RestOK
<1>3. CASE EndSweep \/ SweepThrows \/ EndTicks \/ SweepDuringScan \/ EndOpen \/ EndFirstTicks \/ EndFirstBuys
           \/ StartPass \/ GuardStops \/ EndPass \/ PassFails \/ Crash \/ SetKill
  <2>1. pc' \notin {"score", "rotate", "release", "trim", "open"}
    BY <1>2, <1>3 DEF EndSweep, SweepThrows, EndTicks, SweepDuringScan, EndOpen, EndFirstTicks, EndFirstBuys,
       StartPass, GuardStops, EndPass, PassFails, Crash, SetKill, BeginSweep, Forget, Sweeps
  <2> QED  BY <2>1 DEF MoneyInv
<1>4. ASSUME NEW id \in Ids, SweepSale(id) \/ SweepBuy(id) \/ FirstTick(id) \/ FirstBuy(id) PROVE MoneyInv'
  <2>1. pc' \in {"sweep", "first", "buy"}
    BY <1>4 DEF SweepSale, SweepBuy, FirstTick, FirstBuy
  <2> QED  BY <2>1 DEF MoneyInv
<1>5. ASSUME NEW id \in DOMAIN current, Tick(id) \/ TickThrows(id) PROVE MoneyInv'
  <2>1. pc' \in {"tick", "boot"}
    BY <1>5 DEF Tick, TickThrows
  <2> QED  BY <2>1 DEF MoneyInv
<1>6. CASE EndScan
  <2>1. pc' = "score" /\ book' = book /\ current' = Refreshed(current)
    BY <1>6 DEF EndScan, AfterTheScan
  <2> QED  BY <1>1, <2>1, RefreshedFacts DEF MoneyInv
<1>7. CASE NextPhase
  BY <1>7 DEF NextPhase, MoneyInv, BookInv
<1>8. ASSUME NEW id \in Ids, ScoreBaseline(id) PROVE MoneyInv'
  <2> DEFINE row == [current[id] EXCEPT !.scored = TRUE]
  <2>1. /\ id \in DOMAIN current /\ current' = current /\ book' = Save(id, row) /\ pc = "score" /\ pc' = "score"
    BY <1>8 DEF ScoreBaseline, Unstopped
  <2>2. row \in Rows /\ row.cap = current[id].cap
    BY <1>1, <2>1 DEF Rows, RowsOf
  <2> HIDE DEF row
  <2>3. /\ DOMAIN book' = DOMAIN book \cup {id} /\ book'[id].cap = current[id].cap
        /\ \A i \in DOMAIN book : i # id => book'[i] = book[i]
    BY <1>1, <1>8, <2>1, <2>2, SaveFacts
  <2> QED  BY <2>1, <2>3 DEF MoneyInv, BookInv
<1>9. ASSUME NEW id \in Ids, ScoreStop(id) \/ Rotate(id) \/ Release(id) PROVE MoneyInv'
  <2>1. /\ book' = Drop(id) /\ current' = current /\ pc' = pc /\ pc \in {"score", "rotate", "release"}
    BY <1>9 DEF ScoreStop, Rotate, Release, ClosePosition
  <2>2. DOMAIN Drop(id) = DOMAIN book \ {id} /\ \A i \in DOMAIN Drop(id) : Drop(id)[i] = book[i]
    BY <1>1, DropFacts
  <2> QED  BY <2>1, <2>2 DEF MoneyInv, BookInv
<1>10. CASE Trim
  <2>1. pc' = "open" /\ UNCHANGED <<fund, blacklist, lost>> /\ pass' = [pass EXCEPT !.room = FreeSlots(FreeUsd(Kept))]
    BY <1>10 DEF Trim, history
  <2>2. pass'.room = FreeSlots(FreeUsd(Kept))
    BY <1>2, <2>1 DEF Passes
  <2>3. Promised(book)' = Promised(book')
    BY <2>1, PromisedNext
  <2> QED  BY <1>10, <2>1, <2>2, <2>3, TrimMoney DEF MoneyInv
<1>11. ASSUME NEW id \in Ids, Open(id) PROVE MoneyInv'
  <2>1. pc' = "open" /\ UNCHANGED <<fund, blacklist, lost>> /\ pass'.room = pass.room - 1
    BY <1>2, <1>11 DEF Open, history, Passes
  <2>2. Promised(book)' = Promised(book')
    BY <2>1, PromisedNext
  <2> QED  BY <1>11, <2>1, <2>2, OpenMoney DEF MoneyInv
<1> QED  BY <1>3, <1>4, <1>5, <1>6, <1>7, <1>8, <1>9, <1>10, <1>11 DEF Next, Sweeping, Ticking, Allocating

LEMMA BookKept == BookInv /\ [Next]_vars => BookInv'
<1>1. ASSUME BookInv, Next PROVE BookInv'
  <2>1. CondemnInv /\ TypeInv /\ PhaseInv /\ SoldInv
    BY <1>1 DEF BookInv, CondemnInv
  <2>2. CondemnInv'
    BY <1>1, <2>1, CondemnKept
  <2>3. IsFiniteSet(DOMAIN book') /\ RowsOf(book')
    BY <1>1, <2>1, RowsKept
  <2> QED  BY <1>1, <2>1, <2>2, <2>3, SoldKept, MoneyKept DEF BookInv
<1>2. ASSUME BookInv, UNCHANGED vars PROVE BookInv'
  <2>1. SoldInv'
    BY <1>2 DEF BookInv, vars, SoldInv, Sold
  <2>2. Promised(book)' = Promised(book)
    BY <1>2, PromisedNext DEF vars
  <2>3. MoneyInv'
    BY <1>2, <2>2 DEF BookInv, vars, MoneyInv
  <2> QED  BY <1>2, <2>1, <2>3, CondemnKept DEF BookInv
<1> QED  BY <1>1, <1>2

LEMMA BuyMoney ==
  ASSUME TypeInv, NEW id \in Ids, BuyStep(id), IsFiniteSet(DOMAIN book'), RowsOf(book'),
         Promised(book') > Promised(book)
  PROVE  Promised(book') <= TotalCapital + fund
<1>1. TypeOK /\ RowsOf(book) /\ IsFiniteSet(DOMAIN book)
  BY TypeParts DEF TypeInv, FiniteInv
<1>2. /\ id \in DOMAIN book /\ Shortfall(id) \in Nat /\ DOMAIN book' = DOMAIN book
      /\ \A i \in DOMAIN book : i # id => book'[i].cap = book[i].cap
      /\ book'[id].cap = book[id].cap + Shortfall(id)
      /\ Shortfall(id) = 0 \/ FreeUsd(book) >= Shortfall(id)
  BY BuyFacts
<1>3. /\ Promised(book) = Total(book, Counted(book)) /\ Promised(book) \in Nat
      /\ IsFiniteSet(Counted(book)) /\ Capped(book, Counted(book)) /\ Capped(book, DOMAIN book)
  BY <1>1, PromisedFacts
<1>4. /\ Promised(book') = Total(book', Counted(book')) /\ Promised(book') \in Nat
      /\ Promised(book') <= Committed(book') /\ Capped(book', DOMAIN book')
  BY PromisedFacts
<1>5. Shortfall(id) > 0
  <2> SUFFICES ASSUME Shortfall(id) = 0 PROVE FALSE
    BY <1>2
  <2>1. \A i \in Counted(book) : book'[i].cap = book[i].cap
    BY <1>2, <1>3 DEF Counted, Capped
  <2>2. Counted(book') = Counted(book)
    BY <1>2 DEF Counted
  <2>3. Total(book', Counted(book)) = Total(book, Counted(book))
    BY <1>3, <2>1, TotalSame
  <2> QED  BY <1>3, <1>4, <2>2, <2>3
<1>6. FreeUsd(book) \in Nat /\ (FreeUsd(book) > 0 => FreeUsd(book) + Committed(book) = TotalCapital + fund)
  BY <1>1, FreeFacts
<1>7. Committed(book') = Committed(book) + Shortfall(id)
  <2> DEFINE D == DOMAIN book
             R == D \ {id}
  <2>1. Committed(book) = Total(book, D) /\ Committed(book') = Total(book', D)
    BY <1>1, <1>2, CommittedType
  <2>2. Total(book, D) = book[id].cap + Total(book, R) /\ Total(book', D) = book'[id].cap + Total(book', R)
    BY <1>1, <1>2, <1>3, <1>4, TotalRemove
  <2>3. IsFiniteSet(R) /\ Capped(book, R)
    BY <1>1, <1>3, FS_RemoveElement, FS_Subset DEF Capped
  <2>4. Total(book', R) = Total(book, R) /\ Total(book, R) \in Nat
    BY <1>2, <2>3, TotalSame, TotalRemove
  <2>5. book[id].cap \in Nat
    BY <1>2, <1>3 DEF Capped
  <2> HIDE DEF D, R
  <2> QED  BY <1>2, <2>1, <2>2, <2>4, <2>5
<1>8. Committed(book) \in Nat /\ TotalCapital + fund \in Int
  BY <1>1, CommittedType, CycleAssumption DEF TypeOK
<1> QED  BY <1>2, <1>4, <1>5, <1>6, <1>7, <1>8

(* Capital is promised once: a step that raises what the known rows were    *)
(* promised, whether a sweep buys it beside the pass or the allocator opens *)
(* a slot, leaves the promises within the book's capital and common fund.   *)
THEOREM NeverSpentTwiceEver == Spec => NeverSpentTwice
<1>1. Init => BookInv
  <2>1. Init => MoneyInv
    BY DEF Init, MoneyInv
  <2> QED  BY <2>1, InitPhase, InitSlot, InitWatch, InitSold DEF BookInv, CondemnInv
<1>2. BookInv /\ [Next]_vars =>
        [(\E id \in Ids : Bought(id) \/ Opening(id)) /\ Promised(book') > Promised(book)
           => Promised(book') <= TotalCapital + fund]_vars
  <2> SUFFICES ASSUME BookInv, Next, NEW id \in Ids, Bought(id) \/ Opening(id), Promised(book') > Promised(book)
               PROVE  Promised(book') <= TotalCapital + fund
    OBVIOUS
  <2>1. TypeInv /\ PhaseInv
    BY DEF BookInv, CondemnInv
  <2>2. IsFiniteSet(DOMAIN book') /\ RowsOf(book')
    BY <2>1, RowsKept
  <2>3. CASE Bought(id)
    BY <2>1, <2>2, <2>3, BuyersAndOpeners, BuyMoney
  <2>4. CASE Opening(id)
    <3>1. Open(id)
      BY <2>1, <2>4, BuyersAndOpeners
    <3>2. /\ Promised(book') + (pass.room - 1) * Slot <= TotalCapital + fund
          /\ Promised(book') \in Nat /\ (pass.room - 1) * Slot \in Nat
      BY <2>2, <3>1, OpenMoney
    <3>3. TotalCapital + fund \in Int
      BY <2>1, CycleAssumption DEF TypeInv, TypeOK
    <3> QED  BY <3>2, <3>3
  <2> QED  BY <2>3, <2>4
<1> QED  BY <1>1, <1>2, BookKept, PTL DEF Spec, NeverSpentTwice
=============================================================================
