------------------------- MODULE CachedStore_proofs -------------------------
(***************************************************************************)
(* The memory of a table never disagrees with the database, for any table, *)
(* any number of readers and any rule Keep that a second application of    *)
(* the same write leaves alone.                                            *)
(*                                                                         *)
(* The invariant says how a copy of the table -- the memory, or what the   *)
(* load in flight has read -- may lag: only in a row whose write has been  *)
(* executed and not folded yet, and then by exactly that write. A call     *)
(* that waits for a load of an earlier generation was executed before the  *)
(* present load began, so the present load has seen it.                    *)
(*                                                                         *)
(* From it follows what a reader may be answered: for each row, a copy is  *)
(* the table of now or as the last returned write left it (AckedInv,       *)
(* CopyInv), and both are values that whoever waits for it may see         *)
(* (WaitInv). And every load but the one the memory now is or waits for    *)
(* was paid for by a failure.                                              *)
(***************************************************************************)
EXTENDS CachedStore, TLAPS

(* A copy's row is the table's, or lags it by the write under way.         *)
UpToDate(kept, id) == kept = db[id]
LagsBy(kept, id) == UpToDate(kept, id) \/ Written(kept, call[id].row) = db[id]

Underway(id) == call[id].phase \in {"executed", "waiting"}

(* An executed write, written again, changes nothing.                      *)
ExecutedInv == \A id \in Ids : Underway(id) => Written(db[id], call[id].row) = db[id]

BookInv ==
  book # 0 => \A id \in Ids :
    IF Underway(id) THEN LagsBy(loads[book].map[id], id) ELSE UpToDate(loads[book].map[id], id)

LoadInv ==
  loading # 0 /\ loads[loading].state = "read" => \A id \in Ids :
    IF call[id].phase = "executed" \/ (call[id].phase = "waiting" /\ call[id].load = loading)
    THEN LagsBy(loads[loading].map[id], id)
    ELSE UpToDate(loads[loading].map[id], id)

(* No load of this generation is in flight but the one readers join.       *)
GenerationInv ==
  \A l \in DOMAIN loads :
    /\ loads[l].generation <= generation
    /\ ~Settled(l) /\ loads[l].generation = generation => l = loading

IInv == TypeOK /\ ExecutedInv /\ BookInv /\ LoadInv /\ GenerationInv

-----------------------------------------------------------------------------
(* Writing a row over a row is a row, and writing it again changes nothing.*)
LEMMA WrittenAgain ==
  ASSUME NEW kept \in Rows \cup {Absent}, NEW row \in Rows \cup {Absent}
  PROVE  /\ Written(kept, row) \in Rows \cup {Absent}
         /\ Written(Written(kept, row), row) = Written(kept, row)
<1>1. CASE row = Absent
  BY <1>1 DEF Written
<1>2. CASE row # Absent /\ kept = Absent
  BY <1>2, CachedStoreAssumption DEF Written
<1>3. CASE row # Absent /\ kept # Absent
  BY <1>3, CachedStoreAssumption DEF Written
<1> QED
  BY <1>1, <1>2, <1>3

(* The loads, one by one.                                                  *)
LEMMA LoadTypes ==
  ASSUME IInv
  PROVE  /\ loads \in Seq(Loads) /\ Len(loads) \in Nat /\ DOMAIN loads = 1..Len(loads)
         /\ loading \in 0..Len(loads) /\ loading \in Nat
         /\ book \in 0..Len(loads) /\ book \in Nat
         /\ generation \in Nat
         /\ \A l \in DOMAIN loads : /\ loads[l] \in Loads
                                    /\ loads[l].map \in Contents
                                    /\ loads[l].generation \in Nat
<1>1. /\ loads \in Seq(Loads) /\ generation \in Nat
      /\ loading \in 0..Len(loads) /\ book \in 0..Len(loads)
  BY DEF IInv, TypeOK
<1>2. Len(loads) \in Nat /\ DOMAIN loads = 1..Len(loads)
  BY <1>1
<1>3. \A l \in DOMAIN loads : loads[l] \in Loads
  BY <1>1, <1>2
<1> QED
  BY <1>1, <1>2, <1>3 DEF Loads

LEMMA InitEstablishes == Init => IInv
<1> SUFFICES ASSUME Init PROVE IInv
  OBVIOUS
<1>1. loads \in Seq(Loads) /\ Len(loads) = 0 /\ DOMAIN loads = {}
  BY DEF Init
<1>2. NoRead \in Reads /\ NoCall \in Calls
  BY DEF NoRead, NoCall, Reads, Calls, Empty, Contents
<1>3. TypeOK
  <2>1. /\ db \in Contents /\ acked \in Contents /\ generation \in Nat
        /\ loading \in 0..Len(loads) /\ book \in 0..Len(loads)
        /\ loading = 0 /\ book = 0
    BY <1>1 DEF Init
  <2>2. call \in [Ids -> Calls] /\ reader \in [Readers -> Reads]
    BY <1>2 DEF Init
  <2>3. /\ \A id \in Ids : call[id].load \in 0..Len(loads)
        /\ \A r \in Readers : JoinedLoad(reader[r])
    BY <1>1 DEF Init, NoCall, NoRead, JoinedLoad
  <2>4. writes \in 0..MaxWrites /\ failures \in 0..MaxFailures
    BY CachedStoreAssumption DEF Init
  <2> QED
    BY <1>1, <2>1, <2>2, <2>3, <2>4 DEF TypeOK
<1> QED
  BY <1>1, <1>3
     DEF Init, IInv, ExecutedInv, BookInv, LoadInv, GenerationInv, NoCall, Underway

-----------------------------------------------------------------------------
(* Writes                                                                  *)

LEMMA SendKeeps ==
  ASSUME IInv, NEW id \in Ids, NEW row \in Rows \cup {Absent}, Send(id, row)
  PROVE  IInv'
<1>1. /\ db' = db /\ loads' = loads /\ loading' = loading /\ book' = book
      /\ generation' = generation /\ call[id].phase = "idle"
      /\ call' = [call EXCEPT ![id] = [NoCall EXCEPT !.phase = "sent", !.row = row]]
  BY DEF Send
<1>2. TypeOK'
  <2>1. [NoCall EXCEPT !.phase = "sent", !.row = row] \in Calls
    BY DEF NoCall, Calls
  <2>2. call' \in [Ids -> Calls]
    BY <1>1, <2>1 DEF IInv, TypeOK
  <2>3. \A i \in Ids : call'[i].load \in 0..Len(loads)
    BY <1>1 DEF IInv, TypeOK, NoCall
  <2>4. writes' \in 0..MaxWrites
    BY CachedStoreAssumption DEF Send, IInv, TypeOK
  <2> QED
    BY <1>1, <2>2, <2>3, <2>4 DEF Send, IInv, TypeOK, JoinedLoad, Settled
<1>3. call'[id].phase = "sent" /\ \A i \in Ids : i # id => call'[i] = call[i]
  BY <1>1 DEF IInv, TypeOK, NoCall
<1>4. ExecutedInv' /\ BookInv'
  BY <1>1, <1>3 DEF IInv, ExecutedInv, BookInv, Underway, LagsBy, UpToDate
<1>5. LoadInv' /\ GenerationInv'
  BY <1>1, <1>3 DEF IInv, LoadInv, GenerationInv, LagsBy, UpToDate, Settled
<1> QED
  BY <1>2, <1>4, <1>5 DEF IInv

LEMMA ExecuteKeeps ==
  ASSUME IInv, NEW id \in Ids, Execute(id)
  PROVE  IInv'
<1>1. /\ loads' = loads /\ loading' = loading /\ book' = book
      /\ generation' = generation /\ call[id].phase = "sent"
      /\ db' = [db EXCEPT ![id] = Written(@, call[id].row)]
      /\ call' = [call EXCEPT ![id].phase = "executed"]
  BY DEF Execute
<1>2. /\ db[id] \in Rows \cup {Absent} /\ call[id].row \in Rows \cup {Absent}
      /\ call[id] \in Calls
  BY DEF IInv, TypeOK, Contents, Calls
<1>3. /\ db'[id] = Written(db[id], call[id].row)
      /\ Written(db'[id], call[id].row) = db'[id]
      /\ db'[id] \in Rows \cup {Absent}
      /\ \A i \in Ids : i # id => db'[i] = db[i]
      /\ db' \in Contents
  BY <1>1, <1>2, WrittenAgain DEF IInv, TypeOK, Contents
<1>4. /\ call' \in [Ids -> Calls]
      /\ call'[id].phase = "executed" /\ call'[id].row = call[id].row
      /\ call'[id].load = call[id].load
      /\ \A i \in Ids : i # id => call'[i] = call[i]
  BY <1>1, <1>2 DEF IInv, TypeOK, Calls
<1>5. reader' \in [Readers -> Reads] /\ \A r \in Readers : /\ reader'[r].load = reader[r].load
                                                              /\ reader'[r].phase = reader[r].phase
  <2> SUFFICES ASSUME NEW r \in Readers
               PROVE  /\ reader'[r] \in Reads /\ reader'[r].load = reader[r].load
                      /\ reader'[r].phase = reader[r].phase
    BY DEF Execute
  <2>1. reader[r] \in Reads
    BY DEF IInv, TypeOK
  <2>2. CASE reader[r].phase = "waiting"
    <3>1. reader'[r] = [reader[r] EXCEPT !.seen[id] = @ \cup {db'[id]}]
      BY <2>2 DEF Execute
    <3> QED
      BY <1>3, <2>1, <3>1 DEF Reads
  <2>3. CASE reader[r].phase # "waiting"
    BY <2>1, <2>3 DEF Execute
  <2> QED
    BY <2>2, <2>3
<1>6. TypeOK'
  BY <1>1, <1>3, <1>4, <1>5 DEF Execute, IInv, TypeOK, JoinedLoad, Settled
<1>7. ExecutedInv'
  BY <1>3, <1>4 DEF IInv, ExecutedInv, Underway
<1>8. BookInv'
  BY <1>1, <1>3, <1>4 DEF IInv, BookInv, Underway, LagsBy, UpToDate
<1>9. LoadInv' /\ GenerationInv'
  BY <1>1, <1>3, <1>4 DEF IInv, LoadInv, GenerationInv, LagsBy, UpToDate, Settled
<1> QED
  BY <1>6, <1>7, <1>8, <1>9 DEF IInv

(* What folding a call's write into the memory does to the loads.          *)
LEMMA FoldLoads ==
  ASSUME IInv, NEW id \in Ids, Fold(id)
  PROVE  /\ loads' \in Seq(Loads) /\ Len(loads') = Len(loads)
         /\ DOMAIN loads' = DOMAIN loads
         /\ \A l \in DOMAIN loads : /\ loads'[l].state = loads[l].state
                                    /\ loads'[l].generation = loads[l].generation
                                    /\ l # book => loads'[l] = loads[l]
         /\ book # 0 => /\ book \in DOMAIN loads
                        /\ loads'[book].map[id] = Written(loads[book].map[id], call[id].row)
                        /\ \A i \in Ids : i # id => loads'[book].map[i] = loads[book].map[i]
<1>1. loads \in Seq(Loads) /\ book \in 0..Len(loads)
  BY DEF IInv, TypeOK
<1>2. CASE book = 0
  BY <1>1, <1>2 DEF Fold
<1>3. CASE book # 0
  <2> DEFINE row == Written(loads[book].map[id], call[id].row)
             new == [loads[book] EXCEPT !.map[id] = row]
  <2>1. book \in 1..Len(loads) /\ loads[book] \in Loads
    BY <1>1, <1>3
  <2>2. row \in Rows \cup {Absent}
    <3>1. loads[book].map[id] \in Rows \cup {Absent} /\ call[id].row \in Rows \cup {Absent}
      BY <2>1 DEF IInv, TypeOK, Loads, Contents, Calls
    <3> QED
      BY <3>1, WrittenAgain
  <2>3. new \in Loads /\ new.state = loads[book].state
        /\ new.generation = loads[book].generation
        /\ new.map[id] = row /\ \A i \in Ids : i # id => new.map[i] = loads[book].map[i]
    BY <2>1, <2>2 DEF Loads, Contents
  <2>4. loads' = [loads EXCEPT ![book] = new]
    BY <1>3, <2>1 DEF Fold
  <2> HIDE DEF new, row
  <2>5. /\ loads' \in Seq(Loads) /\ Len(loads') = Len(loads) /\ loads'[book] = new
        /\ \A l \in DOMAIN loads : l # book => loads'[l] = loads[l]
    BY <1>1, <2>1, <2>3, <2>4
  <2> QED
    BY <1>1, <1>3, <2>1, <2>3, <2>5 DEF row
<1> QED
  BY <1>2, <1>3

(* Folding an executed write brings the memory up to the table.            *)
LEMMA FoldKeeps ==
  ASSUME IInv, NEW id \in Ids, Fold(id), Underway(id),
         loading = 0 \/ (call[id].phase = "waiting" /\ call[id].load # loading),
         UNCHANGED <<db, loading, book, generation, reader, writes, failures>>
  PROVE  IInv'
<1>1. /\ call' = [call EXCEPT ![id] = NoCall]
      /\ acked' = [acked EXCEPT ![id] = db[id]]
  BY DEF Fold
<1>2. /\ call' \in [Ids -> Calls] /\ call'[id] = NoCall
      /\ \A i \in Ids : i # id => call'[i] = call[i]
      /\ \A i \in Ids : call'[i].load \in 0..Len(loads)
      /\ acked' \in Contents
  BY <1>1 DEF IInv, TypeOK, NoCall, Calls, Contents
<1>3. TypeOK'
  BY <1>2, FoldLoads DEF IInv, TypeOK, JoinedLoad, Settled
<1>4. ExecutedInv'
  BY <1>2 DEF IInv, ExecutedInv, Underway, NoCall
<1>5. BookInv'
  <2> SUFFICES ASSUME book # 0, NEW i \in Ids
               PROVE  IF Underway(i)' THEN LagsBy(loads[book].map[i], i)'
                                      ELSE UpToDate(loads[book].map[i], i)'
    BY DEF BookInv
  <2>1. CASE i # id
    BY <1>2, <2>1, FoldLoads DEF IInv, BookInv, Underway, LagsBy, UpToDate
  <2>2. CASE i = id
    <3>1. LagsBy(loads[book].map[id], id) /\ Written(db[id], call[id].row) = db[id]
      BY DEF IInv, BookInv, ExecutedInv
    <3>2. loads'[book].map[id] = db[id]
      BY <3>1, FoldLoads DEF LagsBy, UpToDate
    <3> QED
      BY <1>2, <2>2, <3>2 DEF Underway, NoCall, UpToDate
  <2> QED
    BY <2>1, <2>2
<1>6. LoadInv'
  <2> SUFFICES ASSUME loading # 0, (loads[loading].state = "read")', NEW i \in Ids
               PROVE  IF (call[i].phase = "executed" \/ (call[i].phase = "waiting" /\ call[i].load = loading))'
                      THEN LagsBy(loads[loading].map[i], i)'
                      ELSE UpToDate(loads[loading].map[i], i)'
    BY DEF LoadInv
  <2>1. loading \in DOMAIN loads /\ loading # book
    BY DEF IInv, TypeOK, Settled
  <2>2. loads'[loading] = loads[loading]
    BY <2>1, FoldLoads
  <2>3. CASE i # id
    BY <1>2, <2>2, <2>3 DEF IInv, LoadInv, LagsBy, UpToDate
  <2>4. CASE i = id
    BY <1>2, <2>2, <2>4 DEF IInv, LoadInv, UpToDate, NoCall
  <2> QED
    BY <2>3, <2>4
<1>7. GenerationInv'
  BY FoldLoads DEF IInv, GenerationInv, Settled
<1> QED
  BY <1>3, <1>4, <1>5, <1>6, <1>7 DEF IInv

LEMMA ReplyKeeps ==
  ASSUME IInv, NEW id \in Ids, Reply(id)
  PROVE  IInv'
<1>1. CASE AwaitsLoad
  <2>1. /\ call[id].phase = "executed" /\ loading # 0
        /\ call' = [call EXCEPT ![id].phase = "waiting", ![id].load = loading]
        /\ UNCHANGED <<db, loads, loading, book, generation, reader, writes, failures, acked>>
    BY <1>1 DEF Reply, AwaitsLoad
  <2>2. call[id] \in Calls /\ loading \in 0..Len(loads) /\ loads \in Seq(Loads)
    BY DEF IInv, TypeOK
  <2>3. /\ call'[id].phase = "waiting" /\ call'[id].load = loading
        /\ call'[id].row = call[id].row
        /\ \A i \in Ids : i # id => call'[i] = call[i]
        /\ call' \in [Ids -> Calls]
    <3> DEFINE new == [call[id] EXCEPT !.phase = "waiting", !.load = loading]
    <3>1. call' = [call EXCEPT ![id] = new]
      BY <2>1 DEF IInv, TypeOK
    <3>2. /\ new \in Calls /\ new.phase = "waiting" /\ new.load = loading
          /\ new.row = call[id].row
      BY <2>2, LoadTypes DEF Calls
    <3> HIDE DEF new
    <3> QED
      BY <3>1, <3>2 DEF IInv, TypeOK
  <2>4. TypeOK'
    BY <2>1, <2>2, <2>3 DEF IInv, TypeOK, JoinedLoad, Settled
  <2>5. ExecutedInv' /\ BookInv'
    BY <2>1, <2>3 DEF IInv, ExecutedInv, BookInv, Underway, LagsBy, UpToDate
  <2>6. LoadInv' /\ GenerationInv'
    BY <2>1, <2>3 DEF IInv, LoadInv, GenerationInv, LagsBy, UpToDate, Settled
  <2> QED
    BY <2>4, <2>5, <2>6 DEF IInv
<1>2. CASE ~AwaitsLoad
  BY <1>2, FoldKeeps DEF Reply, AwaitsLoad, Underway
<1> QED
  BY <1>1, <1>2

LEMMA ResumeKeeps ==
  ASSUME IInv, NEW id \in Ids, Resume(id)
  PROVE  IInv'
<1>1. call[id].phase = "waiting" /\ Settled(call[id].load) /\ Fold(id)
  BY DEF Resume
<1>2. loading # 0 => call[id].load # loading
  BY <1>1 DEF IInv, TypeOK
<1> QED
  BY <1>1, <1>2, FoldKeeps DEF Resume, Underway

(* A failed write drops the memory and leaves the load in flight behind.   *)
LEMMA FailKeeps ==
  ASSUME IInv, NEW id \in Ids, Fail(id)
  PROVE  IInv'
<1>1. /\ book' = 0 /\ loading' = 0 /\ generation' = generation + 1
      /\ call' = [call EXCEPT ![id] = NoCall]
      /\ acked' = [acked EXCEPT ![id] = db[id]]
      /\ failures' = failures + 1 /\ failures < MaxFailures
      /\ UNCHANGED <<db, loads, reader, writes>>
  BY DEF Fail, Forget
<1>2. /\ call' \in [Ids -> Calls] /\ call'[id] = NoCall
      /\ \A i \in Ids : i # id => call'[i] = call[i]
      /\ \A i \in Ids : call'[i].load \in 0..Len(loads)
      /\ acked' \in Contents
  BY <1>1 DEF IInv, TypeOK, NoCall, Calls, Contents
<1>3. TypeOK'
  <2>1. /\ generation' \in Nat /\ loading' \in 0..Len(loads) /\ book' \in 0..Len(loads)
        /\ failures' \in 0..MaxFailures
    BY <1>1, CachedStoreAssumption DEF IInv, TypeOK
  <2> QED
    BY <1>1, <1>2, <2>1 DEF IInv, TypeOK, JoinedLoad
<1>4. ExecutedInv'
  BY <1>1, <1>2 DEF IInv, ExecutedInv, Underway, NoCall
<1>5. BookInv' /\ LoadInv'
  BY <1>1 DEF BookInv, LoadInv
<1>6. GenerationInv'
  <2> SUFFICES ASSUME NEW l \in DOMAIN loads
               PROVE  /\ loads[l].generation <= generation + 1
                      /\ loads[l].generation # generation + 1
    BY <1>1 DEF GenerationInv
  <2>1. loads[l].generation \in Nat /\ generation \in Nat
    BY LoadTypes
  <2>2. loads[l].generation <= generation
    BY DEF IInv, GenerationInv
  <2> QED
    BY <2>1, <2>2
<1> QED
  BY <1>3, <1>4, <1>5, <1>6 DEF IInv

-----------------------------------------------------------------------------
(* Reads                                                                   *)

(* A read touches no copy of the table.                                    *)
LEMMA ReaderKeeps ==
  ASSUME IInv, UNCHANGED <<db, loads, loading, book, generation, call, writes, failures, acked>>,
         reader' \in [Readers -> Reads],
         \A r \in Readers : JoinedLoad(reader'[r])
  PROVE  IInv'
<1>1. TypeOK'
  BY DEF IInv, TypeOK, JoinedLoad, Settled
<1> QED
  BY <1>1
     DEF IInv, ExecutedInv, BookInv, LoadInv, GenerationInv, Underway, LagsBy, UpToDate, Settled

LEMMA BegunType ==
  ASSUME IInv, NEW phase \in {"waiting", "answered"}, NEW l \in Nat, NEW answer \in Contents
  PROVE  /\ Begun(phase, l, answer) \in Reads /\ Begun(phase, l, answer).load = l
         /\ Begun(phase, l, answer).phase = phase
BY DEF IInv, TypeOK, Begun, Reads, Contents

LEMMA ReadKeeps ==
  ASSUME IInv, NEW r \in Readers, Read(r)
  PROVE  IInv'
<1>1. /\ UNCHANGED <<db, book, generation, call, writes, failures, acked>>
      /\ loads \in Seq(Loads) /\ generation \in Nat
      /\ loading \in 0..Len(loads) /\ book \in 0..Len(loads) /\ Len(loads) \in Nat
      /\ reader \in [Readers -> Reads] /\ Empty \in Contents
  BY DEF Read, IInv, TypeOK, Empty, Contents
<1>2. CASE book # 0 /\ reader' = [reader EXCEPT ![r] = Begun("answered", book, loads[book].map)]
           /\ UNCHANGED <<loads, loading>>
  <2>1. loads[book].map \in Contents /\ book \in Nat
    <3>1. book \in DOMAIN loads
      BY <1>2, LoadTypes
    <3> QED
      BY <3>1, LoadTypes
  <2>2. Begun("answered", book, loads[book].map) \in Reads
        /\ Begun("answered", book, loads[book].map).load = book
        /\ Begun("answered", book, loads[book].map).phase = "answered"
    BY <2>1, BegunType
  <2>3. /\ reader' \in [Readers -> Reads]
        /\ \A q \in Readers : JoinedLoad(reader'[q])
    BY <1>1, <1>2, <2>2 DEF IInv, TypeOK, JoinedLoad
  <2> QED
    BY <1>1, <1>2, <2>3, ReaderKeeps
<1>3. CASE /\ Joins
           /\ reader' = [reader EXCEPT ![r] = Begun("waiting", loading, Empty)]
           /\ UNCHANGED <<loads, loading>>
  <2>1. Begun("waiting", loading, Empty) \in Reads
        /\ Begun("waiting", loading, Empty).load = loading
        /\ loading # 0
    BY <1>1, <1>3, BegunType DEF Joins
  <2>2. /\ reader' \in [Readers -> Reads]
        /\ \A q \in Readers : JoinedLoad(reader'[q])
    BY <1>1, <1>3, <2>1 DEF IInv, TypeOK, JoinedLoad
  <2> QED
    BY <1>1, <1>3, <2>2, ReaderKeeps
<1>4. CASE /\ book = 0 /\ ~Joins
           /\ loads' = Append(loads, [state |-> "asked", generation |-> generation, map |-> Empty])
           /\ loading' = Len(loads')
           /\ reader' = [reader EXCEPT ![r] = Begun("waiting", Len(loads'), Empty)]
  <2> DEFINE n == Len(loads) + 1
             new == [state |-> "asked", generation |-> generation, map |-> Empty]
  <2>1. new \in Loads
    BY <1>1 DEF Loads
  <2>2. /\ loads' \in Seq(Loads) /\ Len(loads') = n /\ loads'[n] = new
        /\ \A l \in DOMAIN loads : loads'[l] = loads[l]
        /\ DOMAIN loads = 1..Len(loads) /\ DOMAIN loads' = 1..n
    BY <1>1, <1>4, <2>1
  <2>3. loading = 0 /\ loading' = n /\ book' = 0
    BY <1>1, <1>4, <2>2 DEF Joins
  <2>4. Begun("waiting", n, Empty) \in Reads /\ Begun("waiting", n, Empty).load = n
    BY <1>1, BegunType
  <2>5. /\ reader' \in [Readers -> Reads]
        /\ \A q \in Readers : /\ reader'[q].load \in 0..n
                              /\ reader'[q].phase = "waiting" => reader'[q].load # 0
    BY <1>1, <1>4, <2>2, <2>4 DEF IInv, TypeOK, JoinedLoad
  <2>9. \A q \in Readers : JoinedLoad(reader[q])'
    BY <2>2, <2>5 DEF JoinedLoad
  <2>6. TypeOK'
    <3>1. ~(Settled(loading))' /\ (loads[loading].generation = generation)'
      BY <1>1, <2>2, <2>3 DEF Settled
    <3>2. \A id \in Ids : (call[id].load \in 0..Len(loads))'
      BY <1>1, <2>2 DEF IInv, TypeOK
    <3> QED
      BY <1>1, <2>2, <2>3, <2>5, <2>9, <3>1, <3>2 DEF IInv, TypeOK
  <2>7. ExecutedInv' /\ BookInv' /\ LoadInv'
    BY <1>1, <2>2, <2>3 DEF IInv, ExecutedInv, BookInv, LoadInv, Underway
  <2>8. GenerationInv'
    <3> SUFFICES ASSUME NEW l \in 1..n
                 PROVE  /\ loads'[l].generation <= generation
                        /\ ~(Settled(l))' /\ loads'[l].generation = generation => l = n
      BY <1>1, <2>2, <2>3 DEF GenerationInv
    <3>1. CASE l = n
      BY <1>1, <2>2, <3>1
    <3>2. CASE l # n
      <4>1. l \in DOMAIN loads /\ loads'[l] = loads[l] /\ l # loading
        BY <1>1, <2>2, <2>3, <3>2
      <4> QED
        BY <4>1 DEF IInv, GenerationInv, Settled
    <3> QED
      BY <3>1, <3>2
  <2> QED
    BY <2>6, <2>7, <2>8 DEF IInv
<1> QED
  BY <1>2, <1>3, <1>4 DEF Read

LEMMA AnswerKeeps ==
  ASSUME IInv, NEW r \in Readers, Answer(r)
  PROVE  IInv'
<1> DEFINE l == reader[r].load
           new == [reader[r] EXCEPT !.phase = "answered", !.answer = loads[l].map]
<1>1. /\ reader[r].phase = "waiting" /\ loads[l].state = "done"
      /\ reader' = [reader EXCEPT ![r] = new]
      /\ UNCHANGED <<db, loads, loading, book, generation, call, writes, failures, acked>>
  BY DEF Answer, IInv, TypeOK
<1>2. reader[r] \in Reads /\ l \in 0..Len(loads) /\ l # 0
  BY <1>1 DEF IInv, TypeOK, JoinedLoad
<1>3. l \in DOMAIN loads
  BY <1>2, LoadTypes
<1>4. new \in Reads /\ new.load = l /\ new.phase = "answered"
  BY <1>2, <1>3, LoadTypes DEF Reads
<1>5. /\ reader' \in [Readers -> Reads]
      /\ \A q \in Readers : JoinedLoad(reader'[q])
  BY <1>1, <1>2, <1>4 DEF IInv, TypeOK, JoinedLoad
<1> QED
  BY <1>1, <1>5, ReaderKeeps

LEMMA ReturnKeeps ==
  ASSUME IInv, NEW r \in Readers, Return(r)
  PROVE  IInv'
<1>1. /\ reader' = [reader EXCEPT ![r] = NoRead]
      /\ UNCHANGED <<db, loads, loading, book, generation, call, writes, failures, acked>>
  BY DEF Return
<1>2. NoRead \in Reads /\ NoRead.load = 0 /\ NoRead.phase = "idle"
  BY DEF NoRead, Reads, Empty, Contents
<1>3. /\ reader' \in [Readers -> Reads]
      /\ \A q \in Readers : JoinedLoad(reader'[q])
  BY <1>1, <1>2, LoadTypes DEF IInv, TypeOK, JoinedLoad
<1> QED
  BY <1>1, <1>3, ReaderKeeps

-----------------------------------------------------------------------------
(* Loads                                                                   *)

(* A load moves on: its state, and the map it has read.                    *)
LEMMA LoadMoves ==
  ASSUME IInv, NEW l \in DOMAIN loads, ~Settled(l),
         NEW state \in {"read", "done", "failed"}, NEW map \in Contents,
         loads' = [loads EXCEPT ![l] = [@ EXCEPT !.state = state, !.map = map]]
  PROVE  /\ loads' \in Seq(Loads) /\ Len(loads') = Len(loads) /\ DOMAIN loads' = DOMAIN loads
         /\ loads'[l].state = state /\ loads'[l].map = map
         /\ loads'[l].generation = loads[l].generation
         /\ \A k \in DOMAIN loads : k # l => loads'[k] = loads[k]
         /\ l # book
<1> DEFINE new == [loads[l] EXCEPT !.state = state, !.map = map]
<1>1. loads[l] \in Loads /\ l \in 1..Len(loads) /\ loads \in Seq(Loads)
  BY LoadTypes
<1>2. /\ new \in Loads /\ new.state = state /\ new.map = map
      /\ new.generation = loads[l].generation
  BY <1>1 DEF Loads
<1>3. loads' = [loads EXCEPT ![l] = new]
  OBVIOUS
<1> HIDE DEF new
<1>4. /\ loads' \in Seq(Loads) /\ Len(loads') = Len(loads) /\ loads'[l] = new
      /\ DOMAIN loads' = DOMAIN loads
      /\ \A k \in DOMAIN loads : k # l => loads'[k] = loads[k]
  BY <1>1, <1>2, <1>3
<1>5. l # book
  BY LoadTypes DEF IInv, TypeOK, Settled
<1> QED
  BY <1>2, <1>4, <1>5

LEMMA QueryKeeps ==
  ASSUME IInv, NEW l \in DOMAIN loads, Query(l)
  PROVE  IInv'
<1>1. /\ ~Settled(l) /\ db \in Contents
      /\ UNCHANGED <<db, loading, book, generation, call, reader, writes, failures, acked>>
  BY DEF Query, Settled, IInv, TypeOK
<1>2. loads' = [loads EXCEPT ![l] = [@ EXCEPT !.state = "read", !.map = db]]
  BY LoadTypes DEF Query
<1>3. /\ loads' \in Seq(Loads) /\ Len(loads') = Len(loads) /\ DOMAIN loads' = DOMAIN loads
      /\ loads'[l].state = "read" /\ loads'[l].map = db
      /\ loads'[l].generation = loads[l].generation
      /\ \A k \in DOMAIN loads : k # l => loads'[k] = loads[k]
      /\ l # book
  BY <1>1, <1>2, LoadMoves
<1>4. \A k \in DOMAIN loads : Settled(k)' = Settled(k)
  BY <1>1, <1>3 DEF Settled
<1>5. TypeOK'
  <2>1. (loading # 0 => ~Settled(loading) /\ loads[loading].generation = generation)'
    BY <1>1, <1>3, <1>4, LoadTypes DEF IInv, TypeOK
  <2>2. (book # 0 => loads[book].state = "done")'
    <3>1. book # 0 => book \in DOMAIN loads /\ loads[book].state = "done"
      BY LoadTypes DEF IInv, TypeOK
    <3> QED
      BY <1>1, <1>3, <3>1
  <2> QED
    BY <1>1, <1>3, <2>1, <2>2 DEF IInv, TypeOK, JoinedLoad
<1>6. ExecutedInv' /\ BookInv'
  BY <1>1, <1>3, LoadTypes
     DEF IInv, ExecutedInv, BookInv, Underway, LagsBy, UpToDate
<1>7. LoadInv'
  <2>1. CASE loading = l
    BY <1>1, <1>3, <2>1 DEF LoadInv, LagsBy, UpToDate
  <2>2. CASE loading # l
    BY <1>1, <1>3, <2>2, LoadTypes DEF IInv, LoadInv, LagsBy, UpToDate
  <2> QED
    BY <2>1, <2>2
<1>8. GenerationInv'
  BY <1>1, <1>3, <1>4 DEF IInv, GenerationInv
<1> QED
  BY <1>5, <1>6, <1>7, <1>8 DEF IInv

LEMMA LoadLandsKeeps ==
  ASSUME IInv, NEW l \in DOMAIN loads, LoadLands(l)
  PROVE  IInv'
<1>1. /\ ~Settled(l) /\ loads[l].state = "read" /\ loads[l].map \in Contents
      /\ book' = (IF loads[l].generation = generation THEN l ELSE book)
      /\ loading' = (IF loading = l THEN 0 ELSE loading)
      /\ UNCHANGED <<db, generation, call, reader, writes, failures, acked>>
  BY LoadTypes DEF LoadLands, Installs, Settled
<1>2. loads' = [loads EXCEPT ![l] = [@ EXCEPT !.state = "done", !.map = loads[l].map]]
  BY LoadTypes DEF LoadLands, Loads
<1>3. /\ loads' \in Seq(Loads) /\ Len(loads') = Len(loads) /\ DOMAIN loads' = DOMAIN loads
      /\ loads'[l].state = "done" /\ loads'[l].map = loads[l].map
      /\ loads'[l].generation = loads[l].generation
      /\ \A k \in DOMAIN loads : k # l => loads'[k] = loads[k]
      /\ l # book
  BY <1>1, <1>2, LoadMoves
<1>4. /\ \A k \in DOMAIN loads : k # l => Settled(k)' = Settled(k)
      /\ Settled(l)'
  BY <1>3 DEF Settled
<1>5. loads[l].generation = generation => l = loading
  BY <1>1 DEF IInv, GenerationInv
<1>6. TypeOK'
  <2>1. (loading # 0 => ~Settled(loading) /\ loads[loading].generation = generation)'
    BY <1>1, <1>3, <1>4, LoadTypes DEF IInv, TypeOK
  <2>2. (book # 0 => loads[book].state = "done")'
    <3>1. book # 0 => book \in DOMAIN loads /\ loads[book].state = "done"
      BY LoadTypes DEF IInv, TypeOK
    <3> QED
      BY <1>1, <1>3, <3>1
  <2>3. (book \in 0..Len(loads) /\ loading \in 0..Len(loads))'
    BY <1>1, <1>3, LoadTypes
  <2> QED
    BY <1>1, <1>3, <2>1, <2>2, <2>3 DEF IInv, TypeOK, JoinedLoad
<1>7. ExecutedInv'
  BY <1>1 DEF IInv, ExecutedInv, Underway
<1>8. BookInv'
  <2>1. CASE loads[l].generation = generation
    <3>1. loading = l /\ loading # 0 /\ book' = l
      BY <1>1, <1>5, <2>1, LoadTypes
    <3> SUFFICES ASSUME NEW id \in Ids
                 PROVE  IF Underway(id) THEN LagsBy(loads[l].map[id], id)
                                        ELSE UpToDate(loads[l].map[id], id)
      BY <1>1, <1>3, <3>1 DEF BookInv, Underway, LagsBy, UpToDate
    <3>2. IF call[id].phase = "executed" \/ (call[id].phase = "waiting" /\ call[id].load = l)
          THEN LagsBy(loads[l].map[id], id) ELSE UpToDate(loads[l].map[id], id)
      BY <1>1, <3>1 DEF IInv, LoadInv
    <3> QED
      BY <3>2 DEF Underway, LagsBy
  <2>2. CASE loads[l].generation # generation
    BY <1>1, <1>3, <2>2, LoadTypes DEF IInv, BookInv, Underway, LagsBy, UpToDate
  <2> QED
    BY <2>1, <2>2
<1>9. LoadInv'
  BY <1>1, <1>3, LoadTypes DEF IInv, LoadInv, LagsBy, UpToDate
<1>10. GenerationInv'
  BY <1>1, <1>3, <1>4 DEF IInv, GenerationInv
<1> QED
  BY <1>6, <1>7, <1>8, <1>9, <1>10 DEF IInv

LEMMA LoadFailsKeeps ==
  ASSUME IInv, NEW l \in DOMAIN loads, LoadFails(l)
  PROVE  IInv'
<1>1. /\ ~Settled(l) /\ loads[l].map \in Contents
      /\ loading' = (IF loading = l THEN 0 ELSE loading)
      /\ reader' = [r \in Readers |->
                      IF reader[r].phase = "waiting" /\ reader[r].load = l THEN NoRead ELSE reader[r]]
      /\ failures < MaxFailures /\ failures' = failures + 1
      /\ UNCHANGED <<db, book, generation, call, writes, acked>>
  BY LoadTypes DEF LoadFails, Settled
<1>2. loads' = [loads EXCEPT ![l] = [@ EXCEPT !.state = "failed", !.map = loads[l].map]]
  BY LoadTypes DEF LoadFails, Loads
<1>3. /\ loads' \in Seq(Loads) /\ Len(loads') = Len(loads) /\ DOMAIN loads' = DOMAIN loads
      /\ loads'[l].state = "failed" /\ loads'[l].map = loads[l].map
      /\ loads'[l].generation = loads[l].generation
      /\ \A k \in DOMAIN loads : k # l => loads'[k] = loads[k]
      /\ l # book
  BY <1>1, <1>2, LoadMoves
<1>4. /\ \A k \in DOMAIN loads : k # l => Settled(k)' = Settled(k)
      /\ Settled(l)'
  BY <1>3 DEF Settled
<1>5. /\ reader' \in [Readers -> Reads]
      /\ \A r \in Readers : JoinedLoad(reader[r])'
  <2>1. NoRead \in Reads /\ NoRead.load = 0 /\ NoRead.phase = "idle"
    BY DEF NoRead, Reads, Empty, Contents
  <2> QED
    BY <1>1, <1>3, <2>1, LoadTypes DEF IInv, TypeOK, JoinedLoad
<1>6. TypeOK'
  <2>1. (loading # 0 => ~Settled(loading) /\ loads[loading].generation = generation)'
    BY <1>1, <1>3, <1>4, LoadTypes DEF IInv, TypeOK
  <2>2. (book # 0 => loads[book].state = "done")'
    <3>1. book # 0 => book \in DOMAIN loads /\ loads[book].state = "done"
      BY LoadTypes DEF IInv, TypeOK
    <3> QED
      BY <1>1, <1>3, <3>1
  <2>3. (loading \in 0..Len(loads) /\ failures \in 0..MaxFailures)'
    BY <1>1, <1>3, LoadTypes, CachedStoreAssumption DEF IInv, TypeOK
  <2> QED
    BY <1>1, <1>3, <1>5, <2>1, <2>2, <2>3 DEF IInv, TypeOK
<1>7. ExecutedInv'
  BY <1>1 DEF IInv, ExecutedInv, Underway
<1>8. BookInv'
  BY <1>1, <1>3, LoadTypes DEF IInv, BookInv, Underway, LagsBy, UpToDate
<1>9. LoadInv'
  BY <1>1, <1>3, LoadTypes DEF IInv, LoadInv, LagsBy, UpToDate
<1>10. GenerationInv'
  BY <1>1, <1>3, <1>4 DEF IInv, GenerationInv
<1> QED
  BY <1>6, <1>7, <1>8, <1>9, <1>10 DEF IInv

-----------------------------------------------------------------------------
LEMMA NextKeeps == IInv /\ [Next]_vars => IInv'
<1> SUFFICES ASSUME IInv, [Next]_vars PROVE IInv'
  OBVIOUS
<1>1. CASE UNCHANGED vars
  BY <1>1
     DEF vars, IInv, TypeOK, JoinedLoad, Settled, ExecutedInv, BookInv, LoadInv,
         GenerationInv, Underway, LagsBy, UpToDate
<1>2. CASE \E id \in Ids, row \in Rows \cup {Absent} : Send(id, row)
  BY <1>2, SendKeeps
<1>3. CASE \E id \in Ids : Execute(id) \/ Reply(id) \/ Resume(id) \/ Fail(id)
  BY <1>3, ExecuteKeeps, ReplyKeeps, ResumeKeeps, FailKeeps
<1>4. CASE \E r \in Readers : Read(r) \/ Answer(r) \/ Return(r)
  BY <1>4, ReadKeeps, AnswerKeeps, ReturnKeeps
<1>5. CASE \E l \in DOMAIN loads : Query(l) \/ LoadLands(l) \/ LoadFails(l)
  BY <1>5, QueryKeeps, LoadLandsKeeps, LoadFailsKeeps
<1> QED
  BY <1>1, <1>2, <1>3, <1>4, <1>5 DEF Next

LEMMA AlwaysIInv == Spec => []IInv
BY InitEstablishes, NextKeeps, PTL DEF Spec

(* TypeOK: among the rest, the load that new readers join is unsettled and *)
(* of this generation, and the memory is a load that landed.               *)
THEOREM TypeCorrect == Spec => []TypeOK
<1>1. IInv => TypeOK
  BY DEF IInv
<1> QED
  BY <1>1, AlwaysIInv, PTL

(* MemoryIsTheDatabase: the memory holds the database's own row for every  *)
(* row no write is under way to, whatever fails and however reads and      *)
(* writes interleave.                                                      *)
THEOREM MemoryIsAlwaysTheDatabase == Spec => []MemoryIsTheDatabase
<1>1. IInv => MemoryIsTheDatabase
  BY DEF IInv, BookInv, Underway, UpToDate, MemoryIsTheDatabase
<1> QED
  BY <1>1, AlwaysIInv, PTL

-----------------------------------------------------------------------------
(* What the readers see. The table moves only under a call; a copy, and a  *)
(* reader's answer, is for each row the table of now or the table as the   *)
(* last write that returned left it.                                       *)
AckedInv == \A id \in Ids : ~Underway(id) => acked[id] = db[id]

(* The memory and the load in flight, as far as it has read.               *)
IsCopy(l) == l = book \/ (l = loading /\ loads[l].state = "read")

CopyInv ==
  \A l \in DOMAIN loads : IsCopy(l) =>
    \A id \in Ids : loads[l].map[id] \in {acked[id], db[id]}

(* Whatever a waiting reader is going to be given, it may answer.          *)
WaitInv ==
  \A r \in Readers : reader[r].phase = "waiting" => \A id \in Ids :
    /\ db[id] \in reader[r].seen[id]
    /\ loads[reader[r].load].state \in {"read", "done"} =>
         loads[reader[r].load].map[id] \in reader[r].seen[id]

ReadersInv == AckedInv /\ CopyInv /\ WaitInv /\ AnswersAreCurrent

(* Every load but the one the engine now has was paid for by a failure.    *)
LoadsInv == Len(loads) <= failures + (IF loading = 0 /\ book = 0 THEN 0 ELSE 1)

LEMMA InitReaders == Init => ReadersInv /\ LoadsInv
<1> SUFFICES ASSUME Init PROVE ReadersInv /\ LoadsInv
  OBVIOUS
<1>1. loads = <<>> /\ Len(loads) = 0 /\ DOMAIN loads = {}
  BY DEF Init
<1> QED
  BY <1>1
     DEF Init, ReadersInv, LoadsInv, AckedInv, CopyInv, WaitInv, AnswersAreCurrent, NoRead

LEMMA SendReaders ==
  ASSUME IInv, ReadersInv, NEW id \in Ids, NEW row \in Rows \cup {Absent}, Send(id, row)
  PROVE  ReadersInv'
<1>1. /\ UNCHANGED <<db, loads, loading, book, generation, reader, failures, acked>>
      /\ call[id].phase = "idle"
      /\ \A i \in Ids : i # id => call'[i] = call[i]
  BY DEF Send, IInv, TypeOK
<1>2. \A i \in Ids : ~Underway(i)' => ~Underway(i)
  BY <1>1 DEF Underway
<1> QED
  BY <1>1, <1>2
     DEF ReadersInv, AckedInv, CopyInv, IsCopy, WaitInv, AnswersAreCurrent

(* The row moves from what was acknowledged, and every waiting reader has  *)
(* both.                                                                   *)
LEMMA ExecuteReaders ==
  ASSUME IInv, ReadersInv, NEW id \in Ids, Execute(id)
  PROVE  ReadersInv'
<1>1. /\ UNCHANGED <<loads, loading, book, acked>>
      /\ call[id].phase = "sent" /\ acked[id] = db[id]
  BY DEF Execute, ReadersInv, AckedInv, Underway
<1>2. /\ \A i \in Ids : i # id => db'[i] = db[i] /\ call'[i] = call[i]
      /\ call'[id].phase = "executed"
  BY DEF Execute, IInv, TypeOK, Contents, Calls
<1>3. ASSUME NEW r \in Readers
      PROVE  /\ reader'[r].phase = reader[r].phase /\ reader'[r].load = reader[r].load
             /\ reader'[r].answer = reader[r].answer
             /\ reader[r].phase # "waiting" => reader'[r] = reader[r]
             /\ reader[r].phase = "waiting" =>
                  /\ reader'[r].seen[id] = reader[r].seen[id] \cup {db'[id]}
                  /\ \A i \in Ids : i # id => reader'[r].seen[i] = reader[r].seen[i]
  <2>1. reader[r] \in Reads
    BY DEF IInv, TypeOK
  <2>2. reader'[r] = IF reader[r].phase = "waiting"
                     THEN [reader[r] EXCEPT !.seen[id] = @ \cup {db'[id]}] ELSE reader[r]
    BY DEF Execute
  <2> QED
    BY <2>1, <2>2 DEF Reads
<1>4. AckedInv'
  BY <1>1, <1>2 DEF ReadersInv, AckedInv, Underway
<1>5. CopyInv'
  <2> SUFFICES ASSUME NEW l \in DOMAIN loads, IsCopy(l), NEW i \in Ids
               PROVE  loads[l].map[i] \in {acked[i], db'[i]}
    BY <1>1 DEF CopyInv, IsCopy
  <2> QED
    BY <1>1, <1>2 DEF ReadersInv, CopyInv
<1>6. WaitInv' /\ AnswersAreCurrent'
  BY <1>1, <1>2, <1>3 DEF ReadersInv, WaitInv, AnswersAreCurrent
<1> QED
  BY <1>4, <1>5, <1>6 DEF ReadersInv

(* A call that folds leaves the memory's row and the acknowledged row at   *)
(* the table's.                                                            *)
LEMMA FoldReaders ==
  ASSUME IInv, ReadersInv, NEW id \in Ids, Fold(id), Underway(id),
         loading = 0 \/ (call[id].phase = "waiting" /\ call[id].load # loading),
         UNCHANGED <<db, loading, book, generation, reader, writes, failures>>
  PROVE  ReadersInv'
<1>1. /\ acked' = [acked EXCEPT ![id] = db[id]] /\ acked'[id] = db[id]
      /\ \A i \in Ids : i # id => acked'[i] = acked[i] /\ call'[i] = call[i]
  BY DEF Fold, IInv, TypeOK, Contents
<1>2. book # 0 => loads'[book].map[id] = db[id]
  <2> SUFFICES ASSUME book # 0 PROVE loads'[book].map[id] = db[id]
    OBVIOUS
  <2>1. LagsBy(loads[book].map[id], id) /\ Written(db[id], call[id].row) = db[id]
    BY DEF IInv, BookInv, ExecutedInv
  <2> QED
    BY <2>1, FoldLoads DEF LagsBy, UpToDate
<1>3. AckedInv'
  BY <1>1 DEF ReadersInv, AckedInv, Underway
<1>4. CopyInv'
  <2> SUFFICES ASSUME NEW l \in DOMAIN loads, IsCopy(l)', NEW i \in Ids
               PROVE  loads'[l].map[i] \in {acked'[i], db[i]}
    BY FoldLoads DEF CopyInv
  <2>1. IsCopy(l)
    BY FoldLoads DEF IsCopy
  <2>2. CASE l = book
    <3>1. book # 0
      BY <2>2, LoadTypes
    <3> QED
      BY <1>1, <1>2, <2>1, <2>2, <3>1, FoldLoads DEF ReadersInv, CopyInv
  <2>3. CASE l # book
    <3>1. l = loading /\ loading # 0 /\ loads[l].state = "read" /\ loads'[l] = loads[l]
      BY <2>1, <2>3, LoadTypes, FoldLoads DEF IsCopy
    <3>2. UpToDate(loads[l].map[id], id)
      BY <3>1 DEF IInv, LoadInv
    <3> QED
      BY <1>1, <2>1, <3>1, <3>2 DEF ReadersInv, CopyInv, UpToDate
  <2> QED
    BY <2>2, <2>3
<1>5. WaitInv'
  <2> SUFFICES ASSUME NEW r \in Readers, reader[r].phase = "waiting", NEW i \in Ids,
                      loads'[reader[r].load].state \in {"read", "done"}
               PROVE  loads'[reader[r].load].map[i] \in reader[r].seen[i]
    BY DEF ReadersInv, WaitInv
  <2> DEFINE l == reader[r].load
  <2>1. l \in DOMAIN loads
    BY LoadTypes DEF IInv, TypeOK, JoinedLoad
  <2>2. /\ db[i] \in reader[r].seen[i]
        /\ loads[l].map[i] \in reader[r].seen[i]
    BY <2>1, FoldLoads DEF ReadersInv, WaitInv
  <2>3. loads'[l].map[i] \in {loads[l].map[i], db[i]}
    <3>1. CASE l = book
      BY <1>2, <2>1, <3>1, LoadTypes, FoldLoads
    <3>2. CASE l # book
      BY <2>1, <3>2, FoldLoads
    <3> QED
      BY <3>1, <3>2
  <2> QED
    BY <2>2, <2>3
<1>6. AnswersAreCurrent'
  BY DEF ReadersInv, AnswersAreCurrent
<1> QED
  BY <1>3, <1>4, <1>5, <1>6 DEF ReadersInv

LEMMA ReplyReaders ==
  ASSUME IInv, ReadersInv, NEW id \in Ids, Reply(id)
  PROVE  ReadersInv'
<1>1. CASE AwaitsLoad
  <2>1. /\ UNCHANGED <<db, loads, loading, book, generation, reader, acked>>
        /\ \A i \in Ids : ~Underway(i)' => ~Underway(i)
    BY <1>1 DEF Reply, Underway, IInv, TypeOK, Calls
  <2> QED
    BY <2>1 DEF ReadersInv, AckedInv, CopyInv, IsCopy, WaitInv, AnswersAreCurrent
<1>2. CASE ~AwaitsLoad
  BY <1>2, FoldReaders DEF Reply, AwaitsLoad, Underway
<1> QED
  BY <1>1, <1>2

LEMMA ResumeReaders ==
  ASSUME IInv, ReadersInv, NEW id \in Ids, Resume(id)
  PROVE  ReadersInv'
<1>1. call[id].phase = "waiting" /\ Settled(call[id].load) /\ Fold(id)
  BY DEF Resume
<1>2. loading # 0 => call[id].load # loading
  BY <1>1 DEF IInv, TypeOK
<1> QED
  BY <1>1, <1>2, FoldReaders DEF Resume, Underway

(* A failed write leaves no memory and no load to join.                    *)
LEMMA FailReaders ==
  ASSUME IInv, ReadersInv, NEW id \in Ids, Fail(id)
  PROVE  ReadersInv'
<1>1. /\ book' = 0 /\ loading' = 0 /\ UNCHANGED <<db, loads, reader>>
      /\ acked'[id] = db[id]
      /\ \A i \in Ids : i # id => acked'[i] = acked[i] /\ call'[i] = call[i]
  BY DEF Fail, Forget, IInv, TypeOK, Contents
<1>2. AckedInv'
  BY <1>1 DEF ReadersInv, AckedInv, Underway
<1>3. CopyInv'
  BY <1>1, LoadTypes DEF CopyInv, IsCopy
<1> QED
  BY <1>1, <1>2, <1>3 DEF ReadersInv, WaitInv, AnswersAreCurrent

-----------------------------------------------------------------------------
LEMMA BegunSees ==
  ASSUME NEW phase, NEW l, NEW answer
  PROVE  /\ Begun(phase, l, answer).phase = phase /\ Begun(phase, l, answer).load = l
         /\ Begun(phase, l, answer).answer = answer
         /\ \A id \in Ids : Begun(phase, l, answer).seen[id] = {acked[id], db[id]}
BY DEF Begun

(* One reader begins; the loads the others wait for are as they were.      *)
LEMMA BeginReaders ==
  ASSUME IInv, ReadersInv, NEW r \in Readers, NEW phase, NEW l, NEW answer,
         UNCHANGED <<db, book, call, acked>>,
         DOMAIN loads \subseteq DOMAIN loads', \A k \in DOMAIN loads : loads'[k] = loads[k],
         reader' = [reader EXCEPT ![r] = Begun(phase, l, answer)],
         phase = "waiting" /\ loads'[l].state \in {"read", "done"} =>
           \A id \in Ids : loads'[l].map[id] \in {acked[id], db[id]},
         phase = "answered" => \A id \in Ids : answer[id] \in {acked[id], db[id]}
  PROVE  AckedInv' /\ WaitInv' /\ AnswersAreCurrent'
<1> DEFINE new == Begun(phase, l, answer)
<1>1. /\ new.phase = phase /\ new.load = l /\ new.answer = answer
      /\ \A id \in Ids : new.seen[id] = {acked[id], db[id]}
  BY BegunSees
<1> HIDE DEF new
<1>2. /\ reader'[r] = new /\ \A q \in Readers : q # r => reader'[q] = reader[q]
  BY DEF IInv, TypeOK, new
<1>3. \A q \in Readers : reader[q].phase = "waiting" => reader[q].load \in DOMAIN loads
  BY LoadTypes DEF IInv, TypeOK, JoinedLoad
<1>4. AckedInv'
  BY DEF ReadersInv, AckedInv, Underway
<1>5. WaitInv'
  <2> SUFFICES ASSUME NEW q \in Readers, reader'[q].phase = "waiting", NEW id \in Ids
               PROVE  /\ db[id] \in reader'[q].seen[id]
                      /\ loads'[reader'[q].load].state \in {"read", "done"} =>
                           loads'[reader'[q].load].map[id] \in reader'[q].seen[id]
    BY DEF WaitInv
  <2>1. CASE q = r
    BY <1>1, <1>2, <2>1
  <2>2. CASE q # r
    BY <1>2, <1>3, <2>2 DEF ReadersInv, WaitInv
  <2> QED
    BY <2>1, <2>2
<1>6. AnswersAreCurrent'
  <2> SUFFICES ASSUME NEW q \in Readers, reader'[q].phase = "answered", NEW id \in Ids
               PROVE  reader'[q].answer[id] \in reader'[q].seen[id]
    BY DEF AnswersAreCurrent
  <2>1. CASE q = r
    BY <1>1, <1>2, <2>1
  <2>2. CASE q # r
    BY <1>2, <2>2 DEF ReadersInv, AnswersAreCurrent
  <2> QED
    BY <2>1, <2>2
<1> QED
  BY <1>4, <1>5, <1>6

LEMMA ReadReaders ==
  ASSUME IInv, ReadersInv, NEW r \in Readers, Read(r)
  PROVE  ReadersInv'
<1>1. UNCHANGED <<db, book, generation, call, writes, failures, acked>>
  BY DEF Read
<1>2. CASE /\ book # 0
           /\ reader' = [reader EXCEPT ![r] = Begun("answered", book, loads[book].map)]
           /\ UNCHANGED <<loads, loading>>
  <2>1. \A id \in Ids : loads[book].map[id] \in {acked[id], db[id]}
    BY <1>2, LoadTypes DEF ReadersInv, CopyInv, IsCopy
  <2>2. AckedInv' /\ WaitInv' /\ AnswersAreCurrent'
    BY <1>1, <1>2, <2>1, BeginReaders
  <2>3. CopyInv'
    BY <1>1, <1>2 DEF ReadersInv, CopyInv, IsCopy
  <2> QED
    BY <2>2, <2>3 DEF ReadersInv
<1>3. CASE /\ book = 0 /\ Joins
           /\ reader' = [reader EXCEPT ![r] = Begun("waiting", loading, Empty)]
           /\ UNCHANGED <<loads, loading>>
  <2>1. /\ loading \in DOMAIN loads /\ loads[loading].state \in {"asked", "read"}
        /\ loads[loading].state = "read" =>
             \A id \in Ids : loads[loading].map[id] \in {acked[id], db[id]}
    <3>1. loading \in DOMAIN loads /\ ~Settled(loading)
      BY <1>3, LoadTypes DEF Joins, IInv, TypeOK
    <3> QED
      BY <3>1, LoadTypes DEF Settled, Loads, ReadersInv, CopyInv, IsCopy
  <2>2. AckedInv' /\ WaitInv' /\ AnswersAreCurrent'
    <3> DEFINE phase == "waiting"
    <3>1. /\ phase = "waiting" /\ loads'[loading].state \in {"read", "done"} =>
               \A id \in Ids : loads'[loading].map[id] \in {acked[id], db[id]}
          /\ phase # "answered"
          /\ reader' = [reader EXCEPT ![r] = Begun(phase, loading, Empty)]
      BY <1>3, <2>1
    <3>2. /\ DOMAIN loads \subseteq DOMAIN loads'
          /\ \A k \in DOMAIN loads : loads'[k] = loads[k]
      BY <1>3
    <3> HIDE DEF phase
    <3> QED
      BY <1>1, <3>1, <3>2, BeginReaders
  <2>3. CopyInv'
    BY <1>1, <1>3 DEF ReadersInv, CopyInv, IsCopy
  <2> QED
    BY <2>2, <2>3 DEF ReadersInv
<1>4. CASE /\ book = 0 /\ ~Joins
           /\ loads' = Append(loads, [state |-> "asked", generation |-> generation, map |-> Empty])
           /\ loading' = Len(loads')
           /\ reader' = [reader EXCEPT ![r] = Begun("waiting", Len(loads'), Empty)]
  <2> DEFINE n == Len(loads) + 1
             new == [state |-> "asked", generation |-> generation, map |-> Empty]
  <2>1. new \in Loads /\ new.state = "asked"
    BY LoadTypes DEF Loads, Empty, Contents
  <2> HIDE DEF new
  <2>2. /\ Len(loads') = n /\ loads'[n] = new
        /\ \A l \in DOMAIN loads : loads'[l] = loads[l]
        /\ DOMAIN loads = 1..Len(loads) /\ DOMAIN loads' = 1..n
    BY <1>4, <2>1, LoadTypes DEF new
  <2>3. AckedInv' /\ WaitInv' /\ AnswersAreCurrent'
    <3>1. DOMAIN loads \subseteq DOMAIN loads'
      BY <2>2, LoadTypes
    <3> DEFINE phase == "waiting"
    <3>2. /\ loads'[n].state \notin {"read", "done"} /\ phase # "answered"
          /\ reader' = [reader EXCEPT ![r] = Begun(phase, n, Empty)]
      BY <1>4, <2>1, <2>2
    <3> HIDE DEF phase, n
    <3> QED
      BY <1>1, <2>2, <3>1, <3>2, BeginReaders
  <2>4. CopyInv'
    <3> SUFFICES ASSUME NEW l \in 1..n, IsCopy(l)' PROVE FALSE
      BY <2>2 DEF CopyInv
    <3>1. l = n
      BY <1>1, <1>4, <2>2 DEF IsCopy
    <3> QED
      BY <1>1, <1>4, <2>1, <2>2, <3>1 DEF IsCopy
  <2> QED
    BY <2>3, <2>4 DEF ReadersInv
<1> QED
  BY <1>2, <1>3, <1>4 DEF Read

LEMMA AnswerReaders ==
  ASSUME IInv, ReadersInv, NEW r \in Readers, Answer(r)
  PROVE  ReadersInv'
<1> DEFINE l == reader[r].load
           new == [reader[r] EXCEPT !.phase = "answered", !.answer = loads[l].map]
<1>1. /\ reader[r].phase = "waiting" /\ loads[l].state = "done"
      /\ reader' = [reader EXCEPT ![r] = new]
      /\ UNCHANGED <<db, loads, loading, book, generation, call, writes, failures, acked>>
  BY DEF Answer, IInv, TypeOK
<1>2. /\ new.phase = "answered" /\ new.answer = loads[l].map /\ new.seen = reader[r].seen
  BY DEF IInv, TypeOK, Reads
<1>3. \A id \in Ids : loads[l].map[id] \in reader[r].seen[id]
  BY <1>1 DEF ReadersInv, WaitInv
<1> HIDE DEF new, l
<1>4. reader'[r] = new /\ \A q \in Readers : q # r => reader'[q] = reader[q]
  BY <1>1 DEF IInv, TypeOK
<1>5. AckedInv' /\ CopyInv'
  BY <1>1 DEF ReadersInv, AckedInv, Underway, CopyInv, IsCopy
<1>6. WaitInv'
  BY <1>1, <1>2, <1>4 DEF ReadersInv, WaitInv
<1>7. AnswersAreCurrent'
  BY <1>2, <1>3, <1>4 DEF ReadersInv, AnswersAreCurrent
<1> QED
  BY <1>5, <1>6, <1>7 DEF ReadersInv

LEMMA ReturnReaders ==
  ASSUME IInv, ReadersInv, NEW r \in Readers, Return(r)
  PROVE  ReadersInv'
<1>1. /\ reader' = [reader EXCEPT ![r] = NoRead]
      /\ UNCHANGED <<db, loads, loading, book, generation, call, writes, failures, acked>>
  BY DEF Return
<1>2. /\ reader'[r].phase = "idle" /\ \A q \in Readers : q # r => reader'[q] = reader[q]
  BY <1>1 DEF IInv, TypeOK, NoRead
<1> QED
  BY <1>1, <1>2 DEF ReadersInv, AckedInv, Underway, CopyInv, IsCopy, WaitInv, AnswersAreCurrent

-----------------------------------------------------------------------------
LEMMA QueryReaders ==
  ASSUME IInv, ReadersInv, NEW l \in DOMAIN loads, Query(l)
  PROVE  ReadersInv'
<1>1. /\ ~Settled(l) /\ db \in Contents
      /\ UNCHANGED <<db, loading, book, generation, call, reader, writes, failures, acked>>
  BY DEF Query, Settled, IInv, TypeOK
<1>2. loads' = [loads EXCEPT ![l] = [@ EXCEPT !.state = "read", !.map = db]]
  BY LoadTypes DEF Query
<1>3. /\ DOMAIN loads' = DOMAIN loads /\ loads'[l].state = "read" /\ loads'[l].map = db
      /\ \A k \in DOMAIN loads : k # l => loads'[k] = loads[k]
  BY <1>1, <1>2, LoadMoves
<1>4. AckedInv' /\ AnswersAreCurrent'
  BY <1>1 DEF ReadersInv, AckedInv, Underway, AnswersAreCurrent
<1>5. CopyInv'
  BY <1>1, <1>3 DEF ReadersInv, CopyInv, IsCopy
<1>6. WaitInv'
  <2>1. \A r \in Readers : reader[r].phase = "waiting" => reader[r].load \in DOMAIN loads
    BY LoadTypes DEF IInv, TypeOK, JoinedLoad
  <2> QED
    BY <1>1, <1>3, <2>1 DEF ReadersInv, WaitInv
<1> QED
  BY <1>4, <1>5, <1>6 DEF ReadersInv

(* A load that lands is the copy it was, whether it is installed or not.   *)
LEMMA LoadLandsReaders ==
  ASSUME IInv, ReadersInv, NEW l \in DOMAIN loads, LoadLands(l)
  PROVE  ReadersInv'
<1>1. /\ ~Settled(l) /\ loads[l].state = "read" /\ loads[l].map \in Contents
      /\ book' = (IF loads[l].generation = generation THEN l ELSE book)
      /\ loading' = (IF loading = l THEN 0 ELSE loading)
      /\ UNCHANGED <<db, generation, call, reader, writes, failures, acked>>
  BY LoadTypes DEF LoadLands, Installs, Settled
<1>2. loads' = [loads EXCEPT ![l] = [@ EXCEPT !.state = "done", !.map = loads[l].map]]
  BY LoadTypes DEF LoadLands, Loads
<1>3. /\ DOMAIN loads' = DOMAIN loads
      /\ loads'[l].state = "done" /\ loads'[l].map = loads[l].map
      /\ \A k \in DOMAIN loads : k # l => loads'[k] = loads[k]
  BY <1>1, <1>2, LoadMoves
<1>4. AckedInv' /\ AnswersAreCurrent'
  BY <1>1 DEF ReadersInv, AckedInv, Underway, AnswersAreCurrent
<1>5. CopyInv'
  <2>1. ASSUME NEW k \in DOMAIN loads, IsCopy(k)'
        PROVE  IsCopy(k) /\ loads'[k].map = loads[k].map
    <3>1. loads[l].generation = generation => l = loading
      BY <1>1 DEF IInv, GenerationInv
    <3>2. CASE k = l
      BY <1>1, <1>3, <2>1, <3>1, <3>2, LoadTypes DEF IsCopy
    <3>3. CASE k # l
      BY <1>1, <1>3, <2>1, <3>3, LoadTypes DEF IsCopy
    <3> QED
      BY <3>2, <3>3
  <2> QED
    BY <1>1, <1>3, <2>1 DEF ReadersInv, CopyInv
<1>6. WaitInv'
  <2>1. \A r \in Readers : reader[r].phase = "waiting" => reader[r].load \in DOMAIN loads
    BY LoadTypes DEF IInv, TypeOK, JoinedLoad
  <2> QED
    BY <1>1, <1>3, <2>1 DEF ReadersInv, WaitInv
<1> QED
  BY <1>4, <1>5, <1>6 DEF ReadersInv

LEMMA LoadFailsReaders ==
  ASSUME IInv, ReadersInv, NEW l \in DOMAIN loads, LoadFails(l)
  PROVE  ReadersInv'
<1>1. /\ ~Settled(l) /\ loads[l].map \in Contents
      /\ loading' = (IF loading = l THEN 0 ELSE loading)
      /\ UNCHANGED <<db, book, generation, call, writes, acked>>
  BY LoadTypes DEF LoadFails, Settled
<1>2. loads' = [loads EXCEPT ![l] = [@ EXCEPT !.state = "failed", !.map = loads[l].map]]
  BY LoadTypes DEF LoadFails, Loads
<1>3. /\ DOMAIN loads' = DOMAIN loads
      /\ loads'[l].state = "failed" /\ loads'[l].map = loads[l].map
      /\ \A k \in DOMAIN loads : k # l => loads'[k] = loads[k]
  BY <1>1, <1>2, LoadMoves
<1>4. \A r \in Readers :
        \/ reader'[r].phase = "idle"
        \/ reader'[r] = reader[r] /\ ~(reader[r].phase = "waiting" /\ reader[r].load = l)
  BY DEF LoadFails, NoRead
<1>5. AckedInv' /\ AnswersAreCurrent'
  BY <1>1, <1>4 DEF ReadersInv, AckedInv, Underway, AnswersAreCurrent
<1>6. CopyInv'
  BY <1>1, <1>3, LoadTypes DEF ReadersInv, CopyInv, IsCopy
<1>7. WaitInv'
  <2>1. \A r \in Readers : reader[r].phase = "waiting" => reader[r].load \in DOMAIN loads
    BY LoadTypes DEF IInv, TypeOK, JoinedLoad
  <2> QED
    BY <1>1, <1>3, <1>4, <2>1 DEF ReadersInv, WaitInv
<1> QED
  BY <1>5, <1>6, <1>7 DEF ReadersInv

LEMMA ReadersKeep == IInv /\ ReadersInv /\ [Next]_vars => ReadersInv'
<1> SUFFICES ASSUME IInv, ReadersInv, [Next]_vars PROVE ReadersInv'
  OBVIOUS
<1>1. CASE UNCHANGED vars
  BY <1>1 DEF vars, ReadersInv, AckedInv, Underway, CopyInv, IsCopy, WaitInv, AnswersAreCurrent
<1>2. CASE \E id \in Ids, row \in Rows \cup {Absent} : Send(id, row)
  BY <1>2, SendReaders
<1>3. CASE \E id \in Ids : Execute(id) \/ Reply(id) \/ Resume(id) \/ Fail(id)
  BY <1>3, ExecuteReaders, ReplyReaders, ResumeReaders, FailReaders
<1>4. CASE \E r \in Readers : Read(r) \/ Answer(r) \/ Return(r)
  BY <1>4, ReadReaders, AnswerReaders, ReturnReaders
<1>5. CASE \E l \in DOMAIN loads : Query(l) \/ LoadLands(l) \/ LoadFails(l)
  BY <1>5, QueryReaders, LoadLandsReaders, LoadFailsReaders
<1> QED
  BY <1>1, <1>2, <1>3, <1>4, <1>5 DEF Next

(* Only a read that finds no memory and no load in flight begins one.      *)
LEMMA LoadsKeep == IInv /\ LoadsInv /\ [Next]_vars => LoadsInv'
<1> SUFFICES ASSUME IInv, LoadsInv, [Next]_vars PROVE LoadsInv'
  OBVIOUS
<1>1. failures \in Nat /\ Len(loads) \in Nat
  BY LoadTypes, CachedStoreAssumption DEF IInv, TypeOK
<1>2. CASE UNCHANGED <<loading, book, failures>> /\ Len(loads') = Len(loads)
  BY <1>2 DEF LoadsInv
<1>3. CASE UNCHANGED vars
  BY <1>2, <1>3 DEF vars
<1>4. CASE \E id \in Ids, row \in Rows \cup {Absent} : Send(id, row)
  BY <1>2, <1>4 DEF Send
<1>5. ASSUME NEW id \in Ids, Execute(id) \/ Reply(id) \/ Resume(id) \/ Fail(id)
      PROVE  LoadsInv'
  <2>1. CASE Execute(id)
    BY <1>2, <2>1 DEF Execute
  <2>2. CASE Reply(id)
    <3>1. UNCHANGED <<loading, book, failures>> /\ (loads' = loads \/ Fold(id))
      BY <2>2 DEF Reply
    <3> QED
      BY <1>2, <3>1, FoldLoads
  <2>3. CASE Resume(id)
    BY <1>2, <2>3, FoldLoads DEF Resume
  <2>4. CASE Fail(id)
    BY <1>1, <2>4 DEF Fail, Forget, LoadsInv
  <2> QED
    BY <1>5, <2>1, <2>2, <2>3, <2>4
<1>6. ASSUME NEW r \in Readers, Read(r) \/ Answer(r) \/ Return(r)
      PROVE  LoadsInv'
  <2>1. CASE Read(r)
    <3>1. CASE UNCHANGED <<loads, loading>>
      BY <1>2, <2>1, <3>1 DEF Read
    <3>2. CASE /\ book = 0 /\ loading = 0 /\ Len(loads') = Len(loads) + 1
               /\ loading' = Len(loads')
      BY <1>1, <2>1, <3>2 DEF Read, LoadsInv
    <3>3. ASSUME book = 0, ~Joins, loading' = Len(loads'),
                 loads' = Append(loads, [state |-> "asked", generation |-> generation,
                                         map |-> Empty])
          PROVE  loading = 0 /\ Len(loads') = Len(loads) + 1
      BY <3>3, LoadTypes DEF Joins
    <3> QED
      BY <2>1, <3>1, <3>2, <3>3 DEF Read
  <2>2. CASE Answer(r) \/ Return(r)
    BY <1>2, <2>2 DEF Answer, Return
  <2> QED
    BY <1>6, <2>1, <2>2
<1>7. ASSUME NEW l \in DOMAIN loads, Query(l) \/ LoadLands(l) \/ LoadFails(l)
      PROVE  LoadsInv'
  <2>1. /\ Len(loads') = Len(loads) /\ l \in Nat /\ l # 0
        /\ l = loading => loads[l].generation = generation
    <3>1. Len(loads') = Len(loads)
      BY <1>7, LoadTypes DEF Query, LoadLands, LoadFails
    <3>2. l \in Nat /\ l # 0
      BY LoadTypes
    <3> QED
      BY <3>1, <3>2 DEF IInv, TypeOK
  <2>2. CASE Query(l)
    BY <1>2, <2>1, <2>2 DEF Query
  <2>3. CASE LoadLands(l)
    BY <1>1, <2>1, <2>3 DEF LoadLands, Installs, LoadsInv
  <2>4. CASE LoadFails(l)
    BY <1>1, <2>1, <2>4 DEF LoadFails, LoadsInv
  <2> QED
    BY <1>7, <2>2, <2>3, <2>4
<1> QED
  BY <1>3, <1>4, <1>5, <1>6, <1>7 DEF Next

(* AnswersAreCurrent: each row of an answer is one the table held between  *)
(* the last write that had returned when the read began and the answer,    *)
(* for any number of readers, writers, failures and loads.                 *)
THEOREM AnswersAreAlwaysCurrent == Spec => []AnswersAreCurrent
<1>1. ReadersInv => AnswersAreCurrent
  BY DEF ReadersInv
<1> QED
  BY <1>1, InitReaders, ReadersKeep, AlwaysIInv, PTL DEF Spec

(* ReadOncePerFailure: however many readers arrive at once, the table is   *)
(* read once, and once more for each call that failed.                     *)
THEOREM ReadAtMostOncePerFailure == Spec => []ReadOncePerFailure
<1>1. IInv /\ LoadsInv => ReadOncePerFailure
  <2> SUFFICES ASSUME IInv, LoadsInv PROVE ReadOncePerFailure
    OBVIOUS
  <2>1. failures \in Nat /\ Len(loads) \in Nat
    BY LoadTypes, CachedStoreAssumption DEF IInv, TypeOK
  <2> QED
    BY <2>1 DEF LoadsInv, ReadOncePerFailure
<1> QED
  BY <1>1, InitReaders, LoadsKeep, AlwaysIInv, PTL DEF Spec

(* What the module asks of its keep rule, of the tape's and of the scans', *)
(* whatever they hold: what is proved above is proved of the three tables. *)
THEOREM TapeAndScansKeep ==
  ASSUME NEW Content
  PROVE  /\ \A kept \in Content, row \in Content :
              /\ FirstWins(kept, row) \in Content
              /\ FirstWins(FirstWins(kept, row), row) = FirstWins(kept, row)
              /\ FirstWins(row, row) = row
         /\ \A kept \in [at : Int, of : Content], row \in [at : Int, of : Content] :
              /\ NewestWins(kept, row) \in [at : Int, of : Content]
              /\ NewestWins(NewestWins(kept, row), row) = NewestWins(kept, row)
              /\ NewestWins(row, row) = row
BY DEF FirstWins, NewestWins
=============================================================================
