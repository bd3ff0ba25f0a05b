---------------------------- MODULE ControlSync ----------------------------
(***************************************************************************)
(* The engine whose state is a file, and the phone that orders it about.   *)
(*                                                                         *)
(* The engine works on a store in memory. Every pass (application/         *)
(* orchestrator.ts, runtime/loop.ts) reads the kill switch when it starts  *)
(* and writes the checkpoint when it ends. After each pass, and without    *)
(* waiting for it, the engine fetches the phone's order from a second file *)
(* and applies it to the store, then publishes the store if it is time     *)
(* (application/state-sync.ts, runtime/main.ts). Stopped, it publishes     *)
(* once more; killed, the next process starts from the last publication.   *)
(*                                                                         *)
(* The book is a set of positions; what a position holds is Settlement's   *)
(* subject. Phone and engine read the same clock.                          *)
(***************************************************************************)
EXTENDS Integers, FiniteSets

CONSTANTS
  EveryTicks,   \* STATE_EVERY_MS, in ticks of the clock
  Actions,      \* bound: the orders the phone may give in a run
  MaxClock,     \* bound: the last instant of a run
  MaxOrders,    \* bound: how many orders the phone gives
  MaxReads,     \* bound: control reads in flight at once
  MaxOpens,     \* bound: how many positions may be on the book
  MaxCrashes,   \* bound: how many times the process may die
  MaxFailures   \* bound: failed passes, reads and publications

ASSUME ControlSyncAssumption ==
  /\ Actions \subseteq {"kill", "resume", "reset"}
  /\ {EveryTicks, MaxClock, MaxOrders, MaxReads, MaxOpens, MaxCrashes, MaxFailures} \subseteq Nat

VARIABLES
  clock,
  file,       \* the control file: the phone's last order
  sent,       \* how many orders the phone gave
  store,      \* the MemoryStore of the running process
  saved,      \* the published state: what the next process starts from
  engine,     \* the loop and the pass it is in
  reads,      \* control reads in flight, by slot
  publisher,  \* periodicPublisher's locals
  crashes, failures

vars == <<clock, file, sent, store, saved, engine, reads, publisher, crashes, failures>>

NoOrder == [action |-> "none", at |-> 0, down |-> FALSE]
Never == -1

(* checkpoint null is savedAt = Never. `last` and `wiped` are history: the *)
(* last order marked applied, and the positions a reset wiped.             *)
EmptyStore == [savedAt |-> Never, engaged |-> FALSE, appliedAt |-> 0,
               book |-> {}, last |-> NoOrder, wiped |-> {}]

Down == [pc |-> "down", at |-> 0, killed |-> FALSE, held |-> {}]

NoRead == [phase |-> "free", order |-> NoOrder]
Slots == 1..MaxReads
NoReads == [r \in Slots |-> NoRead]

NoContent == [at |-> Never, state |-> EmptyStore]
Quiet == [lastAt |-> Never, busy |-> NoContent, flush |-> NoContent]

Init ==
  /\ clock = 1 /\ file = NoOrder /\ sent = 0
  /\ store = EmptyStore /\ saved = EmptyStore
  /\ engine = Down /\ reads = NoReads /\ publisher = Quiet
  /\ crashes = 0 /\ failures = 0

Running == engine.pc # "down"

-----------------------------------------------------------------------------
(* applyControl                                                            *)

(* An order older than the checkpoint's own last word flips nothing, but   *)
(* is marked applied all the same.                                         *)
Stale(s, o) == s.savedAt # Never /\ s.savedAt > o.at

Flip(s, o) ==
  LET engaged == o.action = "kill" IN
  IF Stale(s, o) \/ (s.savedAt # Never /\ s.engaged = engaged) THEN s
  ELSE [s EXCEPT !.savedAt = o.at, !.engaged = engaged]

(* MemoryStore.reset keeps the stamp of the last order applied.            *)
Wipe(s) ==
  [s EXCEPT !.savedAt = Never, !.engaged = FALSE, !.book = {}, !.wiped = @ \cup s.book]

AlreadyApplied(s, o) == o = NoOrder \/ o.at <= s.appliedAt

ApplyControl(s, o) ==
  IF AlreadyApplied(s, o) THEN s
  ELSE [(IF o.action = "reset" THEN Wipe(s) ELSE Flip(s, o))
          EXCEPT !.appliedAt = o.at, !.last = o]

(* The phone writes the file whole: an order not yet read is replaced.     *)
PhoneOrders(action) ==
  /\ sent < MaxOrders /\ clock > file.at
  /\ sent' = sent + 1
  /\ file' = [action |-> action, at |-> clock, down |-> ~Running]
  /\ UNCHANGED <<clock, store, saved, engine, reads, publisher, crashes, failures>>

-----------------------------------------------------------------------------
(* The process                                                             *)

(* Mutant of Restored: the file does not keep the stamp of the last order. *)
RestoredUnstamped == [saved EXCEPT !.appliedAt = 0]

(* exportState, then fromState in the process that follows.                *)
Restored == saved

(* Mutant of BootStore: the file is read after the first pass only.        *)
BootUnread(s) == s

(* main: read the state, then the control file, before the first pass. A   *)
(* control file that cannot be read is not fatal.                          *)
BootStore(s) == ApplyControl(s, file)

Boot ==
  /\ ~Running
  /\ engine' = [Down EXCEPT !.pc = "idle"]
  /\ \/ store' = BootStore(Restored) /\ UNCHANGED failures
     \/ failures < MaxFailures /\ failures' = failures + 1 /\ store' = Restored
  /\ UNCHANGED <<clock, file, sent, saved, reads, publisher, crashes>>

(* runCycle reads the switch once, at its start, and the book with it.     *)
StartPass ==
  /\ engine.pc = "idle"
  /\ engine' = [engine EXCEPT !.pc = "pass", !.at = clock, !.killed = store.engaged,
                              !.held = store.book]
  /\ UNCHANGED <<clock, file, sent, store, saved, reads, publisher, crashes, failures>>

(* The pass advances a position it holds and saves the row it computed.    *)
Tick(p) ==
  /\ engine.pc = "pass"
  /\ store' = [store EXCEPT !.book = @ \cup {p}]
  /\ UNCHANGED <<clock, file, sent, saved, engine, reads, publisher, crashes, failures>>

(* A sweep or the allocator closes a position of the store's own book.     *)
ClosePosition(p) ==
  /\ engine.pc = "pass"
  /\ store' = [store EXCEPT !.book = @ \ {p}]
  /\ engine' = [engine EXCEPT !.held = @ \ {p}]
  /\ UNCHANGED <<clock, file, sent, saved, reads, publisher, crashes, failures>>

(* Step 3 opens positions, unless the pass found the switch engaged. A     *)
(* position is named by the pass that opened it; `era` is history: the     *)
(* orders applied by then.                                                 *)
Open ==
  /\ engine.pc = "pass" /\ ~engine.killed
  /\ Cardinality(store.book) < MaxOpens
  /\ LET p == [at |-> engine.at, era |-> store.appliedAt] IN
     /\ store' = [store EXCEPT !.book = @ \cup {p}]
     /\ engine' = [engine EXCEPT !.held = @ \cup {p}]
  /\ UNCHANGED <<clock, file, sent, saved, reads, publisher, crashes, failures>>

(* The switch the pass started with goes back on the checkpoint, stamped   *)
(* with the pass's start.                                                  *)
Checkpoint == [store EXCEPT !.savedAt = engine.at, !.engaged = engine.killed]

(* Mutant of LaunchRead: the file is read at the start of a run only.      *)
NeverReads(r) == UNCHANGED reads

(* onPass: the control file is read, and nobody waits for it.              *)
LaunchRead(r) ==
  /\ reads[r].phase = "free"
  /\ reads' = [reads EXCEPT ![r].phase = "asked"]

EndPass ==
  /\ engine.pc = "pass"
  /\ store' = Checkpoint
  /\ engine' = [engine EXCEPT !.pc = "idle", !.at = 0, !.killed = FALSE, !.held = {}]
  /\ \E r \in Slots : LaunchRead(r)
  /\ UNCHANGED <<clock, file, sent, saved, publisher, crashes, failures>>

(* A pass that throws writes no checkpoint and reads no control file.      *)
FailPass ==
  /\ engine.pc = "pass" /\ failures < MaxFailures
  /\ failures' = failures + 1
  /\ engine' = [engine EXCEPT !.pc = "idle", !.at = 0, !.killed = FALSE, !.held = {}]
  /\ UNCHANGED <<clock, file, sent, store, saved, reads, publisher, crashes>>

-----------------------------------------------------------------------------
(* readControl().then(maybePublish)                                        *)

(* GitHub answers with the file as it stands.                              *)
Fetch(r) ==
  /\ reads[r].phase = "asked"
  /\ reads' = [reads EXCEPT ![r] = [phase |-> "answered", order |-> file]]
  /\ UNCHANGED <<clock, file, sent, store, saved, engine, publisher, crashes, failures>>

(* maybePublish: not while one is going, and not again within EveryTicks.  *)
(* The content carries the instant it was taken, so it always differs from *)
(* the last.                                                               *)
MaybePublish(state) ==
  IF publisher.busy # NoContent
     \/ (publisher.lastAt # Never /\ clock - publisher.lastAt < EveryTicks)
  THEN publisher
  ELSE [publisher EXCEPT !.busy = [at |-> clock, state |-> state]]

(* The answer arrives and the order is applied to the store as it is then. *)
Land(r) ==
  /\ reads[r].phase = "answered"
  /\ store' = ApplyControl(store, reads[r].order)
  /\ publisher' = MaybePublish(store')
  /\ reads' = [reads EXCEPT ![r] = NoRead]
  /\ UNCHANGED <<clock, file, sent, saved, engine, crashes, failures>>

(* A read that fails is swallowed, and the publication it leads to is not. *)
FailRead(r) ==
  /\ reads[r].phase = "asked" /\ failures < MaxFailures
  /\ failures' = failures + 1
  /\ publisher' = MaybePublish(store)
  /\ reads' = [reads EXCEPT ![r] = NoRead]
  /\ UNCHANGED <<clock, file, sent, store, saved, engine, crashes>>

(* The branch is moved onto the content whole; the last to move it wins.   *)
Lands(slot) ==
  /\ publisher[slot] # NoContent
  /\ saved' = publisher[slot].state
  /\ publisher' = [publisher EXCEPT ![slot] = NoContent, !.lastAt = publisher[slot].at]

PublishLands ==
  /\ Lands("busy")
  /\ UNCHANGED <<clock, file, sent, store, engine, reads, crashes, failures>>

(* A publication that fails is swallowed; the next pass tries again.       *)
PublishFails ==
  /\ publisher.busy # NoContent /\ failures < MaxFailures
  /\ failures' = failures + 1
  /\ publisher' = [publisher EXCEPT !.busy = NoContent]
  /\ UNCHANGED <<clock, file, sent, store, saved, engine, reads, crashes>>

-----------------------------------------------------------------------------
(* The end of a run                                                        *)

(* The loop ends between passes: on the signal, or out of passes.          *)
Stop ==
  /\ engine.pc = "idle"
  /\ engine' = [engine EXCEPT !.pc = "stopping"]
  /\ UNCHANGED <<clock, file, sent, store, saved, reads, publisher, crashes, failures>>

(* Mutant of FlushReady: it does not wait.                                 *)
FlushAtOnce == TRUE

(* flush: wait for the publication in flight, then publish now.            *)
FlushReady == publisher.busy = NoContent

Flush ==
  /\ engine.pc = "stopping" /\ FlushReady
  /\ engine' = [engine EXCEPT !.pc = "flushing"]
  /\ publisher' = [publisher EXCEPT !.flush = [at |-> clock, state |-> store]]
  /\ UNCHANGED <<clock, file, sent, store, saved, reads, crashes, failures>>

FlushLands ==
  /\ engine.pc = "flushing" /\ Lands("flush")
  /\ engine' = [engine EXCEPT !.pc = "stopped"]
  /\ UNCHANGED <<clock, file, sent, store, reads, crashes, failures>>

FlushFails ==
  /\ engine.pc = "flushing" /\ failures < MaxFailures
  /\ failures' = failures + 1
  /\ engine' = [engine EXCEPT !.pc = "stopped"]
  /\ publisher' = [publisher EXCEPT !.flush = NoContent]
  /\ UNCHANGED <<clock, file, sent, store, saved, reads, crashes>>

Drained == reads = NoReads /\ publisher.busy = NoContent

(* The process lives until its last request has been answered.             *)
Exit ==
  /\ engine.pc = "stopped" /\ Drained
  /\ engine' = Down /\ store' = EmptyStore /\ publisher' = Quiet
  /\ UNCHANGED <<clock, file, sent, saved, reads, crashes, failures>>

Crash ==
  /\ Running /\ crashes < MaxCrashes
  /\ crashes' = crashes + 1
  /\ engine' = Down /\ store' = EmptyStore /\ publisher' = Quiet /\ reads' = NoReads
  /\ UNCHANGED <<clock, file, sent, saved, failures>>

AdvanceClock ==
  /\ clock < MaxClock
  /\ clock' = clock + 1
  /\ UNCHANGED <<file, sent, store, saved, engine, reads, publisher, crashes, failures>>

Next ==
  \/ \E a \in Actions : PhoneOrders(a)
  \/ Boot \/ StartPass \/ Open \/ EndPass \/ FailPass
  \/ \E p \in engine.held : Tick(p)
  \/ \E p \in store.book : ClosePosition(p)
  \/ \E r \in Slots : Fetch(r) \/ Land(r) \/ FailRead(r)
  \/ PublishLands \/ PublishFails
  \/ Stop \/ Flush \/ FlushLands \/ FlushFails \/ Exit
  \/ Crash \/ AdvanceClock

Spec == Init /\ [][Next]_vars

(* The loop goes round, every request is answered, and the scheduler       *)
(* starts the next run.                                                    *)
Fairness ==
  /\ WF_vars(Boot) /\ WF_vars(StartPass) /\ WF_vars(EndPass)
  /\ \A r \in Slots : WF_vars(Fetch(r)) /\ WF_vars(Land(r))
  /\ WF_vars(PublishLands) /\ WF_vars(Flush) /\ WF_vars(FlushLands) /\ WF_vars(Exit)

FairSpec == Spec /\ Fairness
-----------------------------------------------------------------------------
(* Properties                                                              *)

Orders == [action : Actions \cup {"none"}, at : Nat, down : BOOLEAN]
Positions == [at : Nat, era : Nat]
Stores == [savedAt : Int, engaged : BOOLEAN, appliedAt : Nat, book : SUBSET Positions,
           last : Orders, wiped : SUBSET Positions]
Contents == [at : Int, state : Stores]
Engines == [pc : {"down", "idle", "pass", "stopping", "flushing", "stopped"}, at : Nat,
            killed : BOOLEAN, held : SUBSET Positions]

(* Every variable holds a value of its kind.                               *)
TypeOK ==
  /\ clock \in Nat /\ file \in Orders /\ sent \in Nat
  /\ store \in Stores /\ saved \in Stores
  /\ engine \in Engines
  /\ reads \in [Slots -> [phase : {"free", "asked", "answered"}, order : Orders]]
  /\ publisher \in [lastAt : Int, busy : Contents, flush : Contents]
  /\ crashes \in Nat /\ failures \in Nat

(* "A reset must never wipe the book a second time" (applyControl): what   *)
(* was opened after an order was applied outlives that order, read again   *)
(* by a late request or by the next process.                               *)
ResetWipesOnce ==
  [][\A p \in store'.wiped \ store.wiped : p.era < store'.appliedAt]_vars

(* "A phone can stop a machine it cannot reach" (kill-switch.ts): an       *)
(* engine that was down when the order was given comes back stopped, and   *)
(* runs no pass in which it may buy until the phone gives another.         *)
ComesBackStopped ==
  engine.pc = "pass" /\ file.down /\ file.action = "kill" => engine.killed

(* A run that was asked to stop leaves its last book published, unless an  *)
(* order it applied meanwhile is still in the file for the next run.       *)
FlushKeepsTheBook ==
  engine.pc = "stopped" /\ Drained => saved.book = store.book \/ file.at > saved.appliedAt

(* Every order is read, or replaced by a later one.                        *)
EveryOrderIsRead ==
  \A t \in 1..MaxClock : (file.at = t) ~> (file.at # t \/ store.appliedAt >= t)

(* "An order takes effect on the engine's next pass" (control/route.ts):   *)
(* the switch stands as the last order applied left it.                    *)
OrderTakesEffect ==
  store.last.action \in {"kill", "resume"} => store.engaged = (store.last.action = "kill")
=============================================================================
