---------------------------- MODULE CachedStore ----------------------------
(***************************************************************************)
(* The engine's memory of a table it alone writes (application/            *)
(* cached-tape.ts): read from the database once, then answered from        *)
(* memory. A write reaches the database first and is folded into memory    *)
(* when its reply arrives; a failed one drops the memory, because a lost   *)
(* reply may hide a write that landed; and a load that began before the    *)
(* drop may not install what it read.                                      *)
(*                                                                         *)
(* The book (positions), the tape (fills) and the last scan of each chain  *)
(* follow the same protocol and differ in how a write is kept over a       *)
(* stored row. That rule is a parameter, Keep, the same on both sides: for *)
(* the book the module PositionMerge shows the memory's merge and the      *)
(* database's upsert to be one rule; for the tape it is FirstWins, and for *)
(* the scans NewestWins.                                                   *)
(*                                                                         *)
(* Calls interleave at every await. Callers write one row one call at a    *)
(* time, as the cycle does; different rows and readers are concurrent. A   *)
(* statement whose reply was lost has landed or never will.                *)
(***************************************************************************)
EXTENDS Integers, Sequences, FiniteSets

CONSTANTS
  Ids,          \* position ids, idempotency keys, or chains
  Rows,         \* what a row may hold
  Absent,       \* no row
  Keep(_, _),   \* the row kept when the second is written over the first
  CanClose,     \* whether rows may be deleted (the book's may)
  Readers,      \* concurrent readers
  MaxWrites,    \* bound: calls that write
  MaxFailures   \* bound: calls that fail

(* Writing the same row again changes nothing: a write that a load already *)
(* read may be folded over it.                                             *)
ASSUME CachedStoreAssumption ==
  /\ Absent \notin Rows
  /\ \A kept \in Rows, row \in Rows :
       Keep(kept, row) \in Rows /\ Keep(Keep(kept, row), row) = Keep(kept, row)
  /\ \A row \in Rows : Keep(row, row) = row
  /\ CanClose \in BOOLEAN
  /\ MaxWrites \in Nat /\ MaxFailures \in Nat

VARIABLES
  db,          \* the table
  loads,       \* the reads of the whole table begun so far: each one's
               \*   state, generation, and the map it built
  loading,     \* bookLoading: the load new readers join, 0 when none
  book,        \* the load whose map is the memory, 0 when there is none
  generation,  \* bookGeneration
  call,        \* per id, the write under way
  reader,      \* per reader, its read
  writes, failures,
  acked        \* history: the table as of the last write that returned

vars == <<db, loads, loading, book, generation, call, reader, writes, failures, acked>>

(* A fill under a key the tape has already is not recorded.                *)
FirstWins(kept, row) == kept

(* A chain answers with the newest of its scans: the insert leaves an      *)
(* older one, which it prunes, and an older insert changes no answer. A    *)
(* scan's instant is its own, since the chains are scanned one after       *)
(* another and each scan waits for the network.                            *)
NewestWins(kept, row) == IF row.at >= kept.at THEN row ELSE kept

Contents == [Ids -> Rows \cup {Absent}]
Empty    == [id \in Ids |-> Absent]

NoCall == [phase |-> "idle", row |-> Absent, load |-> 0]
NoRead == [phase |-> "idle", load |-> 0, answer |-> Empty, seen |-> [id \in Ids |-> {}]]

(* A write over a row of either copy; Absent stands for a delete.          *)
Written(kept, row) ==
  IF row = Absent \/ kept = Absent THEN row ELSE Keep(kept, row)

Init ==
  /\ db \in Contents /\ acked = db
  /\ loads = <<>> /\ loading = 0 /\ book = 0 /\ generation = 0
  /\ call = [id \in Ids |-> NoCall]
  /\ reader = [r \in Readers |-> NoRead]
  /\ writes = 0 /\ failures = 0

-----------------------------------------------------------------------------
(* Writes                                                                  *)

(* savePosition, recordFill, saveScan or closePosition sends its           *)
(* statement.                                                              *)
Send(id, row) ==
  /\ call[id].phase = "idle" /\ writes < MaxWrites
  /\ row = Absent => CanClose
  /\ call' = [call EXCEPT ![id] = [NoCall EXCEPT !.phase = "sent", !.row = row]]
  /\ writes' = writes + 1
  /\ UNCHANGED <<db, loads, loading, book, generation, reader, failures, acked>>

(* The database executes it.                                               *)
Execute(id) ==
  /\ call[id].phase = "sent"
  /\ db' = [db EXCEPT ![id] = Written(@, call[id].row)]
  /\ call' = [call EXCEPT ![id].phase = "executed"]
  /\ reader' = [r \in Readers |->
                  IF reader[r].phase = "waiting"
                  THEN [reader[r] EXCEPT !.seen[id] = @ \cup {db'[id]}] ELSE reader[r]]
  /\ UNCHANGED <<loads, loading, book, generation, writes, failures, acked>>

(* The memory, if there is one, takes the write; the call returns.         *)
Fold(id) ==
  /\ loads' = IF book = 0 THEN loads
              ELSE [loads EXCEPT ![book].map[id] = Written(@, call[id].row)]
  /\ call' = [call EXCEPT ![id] = NoCall]
  /\ acked' = [acked EXCEPT ![id] = db[id]]

(* Mutant of AwaitsLoad: the memory is written without waiting for a load. *)
NeverAwaits == FALSE

(* The call waits for the load in flight, if there is one.                 *)
AwaitsLoad == loading # 0

Reply(id) ==
  /\ call[id].phase = "executed"
  /\ IF AwaitsLoad
     THEN /\ call' = [call EXCEPT ![id].phase = "waiting", ![id].load = loading]
          /\ UNCHANGED <<loads, acked>>
     ELSE Fold(id)
  /\ UNCHANGED <<db, loading, book, generation, reader, writes, failures>>

Settled(l) == loads[l].state \in {"done", "failed"}

Resume(id) ==
  /\ call[id].phase = "waiting" /\ Settled(call[id].load)
  /\ Fold(id)
  /\ UNCHANGED <<db, loading, book, generation, reader, writes, failures>>

(* Mutant of Forget: new readers still join the load in flight.            *)
ForgetKeepsLoading == book' = 0 /\ generation' = generation + 1 /\ UNCHANGED loading

Forget == book' = 0 /\ loading' = 0 /\ generation' = generation + 1

(* The statement failed, or its reply was lost: the call throws.           *)
Fail(id) ==
  /\ call[id].phase \in {"sent", "executed"} /\ failures < MaxFailures
  /\ Forget
  /\ call' = [call EXCEPT ![id] = NoCall]
  /\ acked' = [acked EXCEPT ![id] = db[id]]
  /\ failures' = failures + 1
  /\ UNCHANGED <<db, loads, reader, writes>>

-----------------------------------------------------------------------------
(* Reads                                                                   *)

(* What a read begun now may answer for an id: what the last write that    *)
(* returned left, or what the table holds already.                         *)
Begun(phase, l, answer) ==
  [phase |-> phase, load |-> l, answer |-> answer,
   seen |-> [id \in Ids |-> {acked[id], db[id]}]]

(* Mutant of Joins: each reader loads the table for itself.                *)
NeverJoins == FALSE

Joins == loading # 0

(* loadPositions, allFills, fillsFor, hasFill or latestScansByChain:       *)
(* answered from memory, or by the load in flight, or by a load of its     *)
(* own.                                                                    *)
Read(r) ==
  /\ reader[r].phase = "idle"
  /\ \/ /\ book # 0
        /\ reader' = [reader EXCEPT ![r] = Begun("answered", book, loads[book].map)]
        /\ UNCHANGED <<loads, loading>>
     \/ /\ book = 0 /\ Joins
        /\ reader' = [reader EXCEPT ![r] = Begun("waiting", loading, Empty)]
        /\ UNCHANGED <<loads, loading>>
     \/ /\ book = 0 /\ ~Joins
        /\ loads' = Append(loads, [state |-> "asked", generation |-> generation, map |-> Empty])
        /\ loading' = Len(loads')
        /\ reader' = [reader EXCEPT ![r] = Begun("waiting", Len(loads'), Empty)]
  /\ UNCHANGED <<db, book, generation, call, writes, failures, acked>>

(* The database answers a load with the table as it is.                    *)
Query(l) ==
  /\ loads[l].state = "asked"
  /\ loads' = [loads EXCEPT ![l].state = "read", ![l].map = db]
  /\ UNCHANGED <<db, loading, book, generation, call, reader, writes, failures, acked>>

(* Mutant of Installs: a load installs what it read, whenever it began.    *)
AlwaysInstalls(l) == TRUE

Installs(l) == loads[l].generation = generation

LoadLands(l) ==
  /\ loads[l].state = "read"
  /\ loads' = [loads EXCEPT ![l].state = "done"]
  /\ book' = IF Installs(l) THEN l ELSE book
  /\ loading' = IF loading = l THEN 0 ELSE loading
  /\ UNCHANGED <<db, generation, call, reader, writes, failures, acked>>

(* A failed load is never remembered: its readers throw.                   *)
LoadFails(l) ==
  /\ loads[l].state \in {"asked", "read"} /\ failures < MaxFailures
  /\ loads' = [loads EXCEPT ![l].state = "failed"]
  /\ loading' = IF loading = l THEN 0 ELSE loading
  /\ reader' = [r \in Readers |->
                  IF reader[r].phase = "waiting" /\ reader[r].load = l THEN NoRead ELSE reader[r]]
  /\ failures' = failures + 1
  /\ UNCHANGED <<db, book, generation, call, writes, acked>>

(* A reader resumes with the map its load built -- the very object the     *)
(* memory keeps, so with what has been folded into it since.               *)
Answer(r) ==
  /\ reader[r].phase = "waiting" /\ loads[reader[r].load].state = "done"
  /\ reader' = [reader EXCEPT ![r].phase = "answered", ![r].answer = loads[reader[r].load].map]
  /\ UNCHANGED <<db, loads, loading, book, generation, call, writes, failures, acked>>

(* The caller has read its answer.                                         *)
Return(r) ==
  /\ reader[r].phase = "answered"
  /\ reader' = [reader EXCEPT ![r] = NoRead]
  /\ UNCHANGED <<db, loads, loading, book, generation, call, writes, failures, acked>>

Next ==
  \/ \E id \in Ids, row \in Rows \cup {Absent} : Send(id, row)
  \/ \E id \in Ids : Execute(id) \/ Reply(id) \/ Resume(id) \/ Fail(id)
  \/ \E r \in Readers : Read(r) \/ Answer(r) \/ Return(r)
  \/ \E l \in DOMAIN loads : Query(l) \/ LoadLands(l) \/ LoadFails(l)

Spec == Init /\ [][Next]_vars

-----------------------------------------------------------------------------
Loads == [state : {"asked", "read", "done", "failed"}, generation : Nat, map : Contents]
Calls == [phase : {"idle", "sent", "executed", "waiting"}, row : Rows \cup {Absent}, load : Nat]
Reads == [phase : {"idle", "waiting", "answered"}, load : Nat, answer : Contents,
          seen : [Ids -> SUBSET (Rows \cup {Absent})]]

(* A reader that waits, waits for a load.                                  *)
JoinedLoad(read) ==
  read.load \in 0..Len(loads) /\ (read.phase = "waiting" => read.load # 0)

(* Type correctness: the load in flight is unsettled and of this           *)
(* generation, and the memory is a load that landed.                       *)
TypeOK ==
  /\ db \in Contents /\ acked \in Contents
  /\ loads \in Seq(Loads) /\ generation \in Nat
  /\ loading \in 0..Len(loads) /\ book \in 0..Len(loads)
  /\ loading # 0 => ~Settled(loading) /\ loads[loading].generation = generation
  /\ book # 0 => loads[book].state = "done"
  /\ call \in [Ids -> Calls] /\ reader \in [Readers -> Reads]
  /\ \A id \in Ids : call[id].load \in 0..Len(loads)
  /\ \A r \in Readers : JoinedLoad(reader[r])
  /\ writes \in 0..MaxWrites /\ failures \in 0..MaxFailures

(* The memory never holds a row the database disagrees with, except while  *)
(* a write to that very row is still under way.                            *)
MemoryIsTheDatabase ==
  book # 0 => \A id \in Ids : call[id].phase = "idle" => loads[book].map[id] = db[id]

(* No read answers with something older than the last write that had       *)
(* returned when it began, nor with a row the table never held: each row   *)
(* is one the table held between the two.                                  *)
AnswersAreCurrent ==
  \A r \in Readers : reader[r].phase = "answered" =>
    \A id \in Ids : reader[r].answer[id] \in reader[r].seen[id]

(* The database is asked for the whole table once, and once more for each  *)
(* call that failed, however many readers there are.                       *)
ReadOncePerFailure == Len(loads) <= 1 + failures
=============================================================================
