-------------------------------- MODULE Scan --------------------------------
(***************************************************************************)
(* One scan of one chain (application/scan.ts, scanOnce): the universe,    *)
(* the free gates, the paid stage as far as the free slots need, the       *)
(* registry of everything ever priced, the cut, and the candles of what    *)
(* survived.  Every question to a provider may fail or come back short.    *)
(*                                                                         *)
(* What a token's market says is a look: what the free gates say of it,    *)
(* whether its provisional score passes the door, whether it moves, whether*)
(* its report is remembered, the verdict the paid questions lead to and    *)
(* whether its candles pass.  The gates themselves are Gates, the score    *)
(* and the order Ranking; here a smaller token is served first.  This is   *)
(* the scan of BSC; Solana's asks for no candles.                          *)
(***************************************************************************)
EXTENDS Integers, FiniteSets, FiniteSetsExt

CONSTANTS
  Ours, Strangers,      \* tokens held, and tokens that are not; numbers
  MarketLooks,          \* the looks a market may have
  MaxTokens,            \* how many tokens the universe may hold
  Wanted,               \* how many strangers have to pass the paid stage
  MaxChecks,            \* the budget of security checks
  WatchSlots,           \* how many candidates the ranking keeps
  CandleBudget,         \* how many candle downloads have to survive
  RegistryPages, PageSize,
  Reserve               \* whether taste alone may be forgiven

ASSUME ScanAssumption ==
  /\ Ours \cup Strangers \subseteq Nat /\ IsFiniteSet(Ours \cup Strangers) /\ Ours \cap Strangers = {}
  /\ MarketLooks \subseteq [cheap : {"passed", "forgiven", "refused"}, door : BOOLEAN, moves : BOOLEAN,
                            cached : BOOLEAN, paid : {"passed", "forgiven", "refused"}, bars : BOOLEAN]
  /\ \A l \in MarketLooks : l.paid = "passed" => l.cheap = "passed"
  /\ Reserve \in BOOLEAN /\ {MaxTokens, Wanted, MaxChecks, WatchSlots, CandleBudget, RegistryPages, PageSize} \subseteq Nat

VARIABLES
  at,          \* where the scan is
  look,        \* token -> its look, of the tokens some provider priced
  asked,       \* tokens ever put into the universe, and asked about
  roomLeft,    \* how many the universe still takes
  queue,       \* tokens that wait for the paid stage
  examined,    \* those it has looked at
  remembered,  \* those whose report was still known
  unexamined,  \* those on the screen unchecked
  spent,       \* checks paid for
  page,        \* registry pages read
  attempted,   \* candidates whose candles were asked for
  barred       \* those whose candles failed their gates

scanVars == <<at, look, asked, roomLeft, queue, examined, remembered, unexamined, spent, page,
              attempted, barred>>

Universe == Ours \cup Strangers
NoLook == [t \in {} |-> [cheap |-> "refused"]]

ScanInit ==
  /\ at = "discover" /\ look = NoLook /\ asked = {} /\ roomLeft = 0
  /\ queue = {} /\ examined = {} /\ remembered = {} /\ unexamined = {}
  /\ spent = 0 /\ page = 0 /\ attempted = {} /\ barred = {}

\* The n first of a set in the order tokens are served.
FirstOf(tokens, n) == {t \in tokens : Cardinality({u \in tokens : u < t}) < n}

Positive0(n) == IF n > 0 THEN n ELSE 0

-----------------------------------------------------------------------------
(* What has passed.                                                        *)

\* A verdict needs an examination, of today or remembered.
Judged == examined \cup remembered
\* Examined, and refused by no gate, floor or score; the reserve, where there is
\* one, is served behind what qualified.
Passes(l) == l.paid = "passed" \/ (Reserve /\ l.paid = "forgiven")
\* As a bug would have it: what was never looked at passes.
PassedUnseen == {t \in DOMAIN look \ barred : Passes(look[t])}

Passed == {t \in Judged \ barred : Passes(look[t])}
Qualified == {t \in Passed : look[t].paid = "passed"}

ServedBefore(t, u) ==
  IF (t \in Qualified) # (u \in Qualified) THEN t \in Qualified ELSE t < u

\* cutToFreeSlots over them.
Candidates ==
  {t \in Passed : t \in Ours
     \/ Cardinality({u \in Passed \ Ours : ServedBefore(u, t)}) < WatchSlots}

\* As a bug would have it: what is held fills a slot that is free.
PassedAnyone == Passed

PassedStrangers == Passed \ Ours
Shortfall0 == Positive0(Wanted - Cardinality(PassedStrangers))

-----------------------------------------------------------------------------
(* The universe.                                                           *)

\* Ours first, past the cap; the rest by arrival, any of them.
Capped(found) == Ours \cup found

\* Each source adds what it found, or fails and adds nothing; what the cap
\* leaves out is dropped by arrival.  A scan of what is held finds nothing and
\* reads no registry.
Discover ==
  /\ at = "discover" /\ at' = "intake"
  /\ LET room == Positive0(MaxTokens - Cardinality(Ours)) IN
     \/ \E discovered \in SUBSET Strangers : \E taken \in SUBSET discovered :
          /\ Cardinality(taken) = Min({room, Cardinality(discovered)})
          /\ asked' = Capped(taken)
          /\ roomLeft' = Positive0(room - Cardinality(discovered))
          /\ page' = 0
     \/ asked' = Capped({}) /\ roomLeft' = room /\ page' = RegistryPages
  /\ UNCHANGED <<look, queue, examined, remembered, unexamined, spent, attempted, barred>>

\* What the free gates leave: passed, or refused by taste alone.
Affordable(l) == l.cheap # "refused"

\* A stranger whose provisional score fails the door, or that does not move, is
\* not paid for.  Ours is never refused by the score.
WorthPaying(t, l) == Affordable(l) /\ (t \in Ours \/ (l.door /\ l.moves))

\* Those whose report is still fresh in the cache cost nothing.
Reported(tokens, l) == {t \in tokens : l[t].cached}

\* intake of a batch: the market of those some provider could price, the free
\* gates, and what is remembered.  A pair's base token may be one nobody asked
\* about: it goes the same way, past the cap.  What was priced so is not priced
\* again by a page: the source that does it is BSC's, the registry lists Solana's.
Intake ==
  /\ at = "intake" /\ at' = "paid"
  /\ \E priced \in SUBSET (Universe \ DOMAIN look) : \E seen \in [priced -> MarketLooks] :
       LET worth == {t \in priced : WorthPaying(t, seen[t])}
           known == Reported(worth, seen)
       IN /\ look' = [t \in DOMAIN look \cup priced |-> IF t \in priced THEN seen[t] ELSE look[t]]
          /\ remembered' = remembered \cup known
          /\ queue' = queue \cup (worth \ known)
          /\ unexamined' = unexamined \cup (priced \ worth)
  /\ UNCHANGED <<asked, roomLeft, examined, spent, page, attempted, barred>>

-----------------------------------------------------------------------------
(* The paid stage.                                                         *)

Pending == queue \ examined
Budget == Positive0(MaxChecks - spent)

\* As a bug would have it: the whole queue at once.
WholeQueue == FirstOf(Pending \ Ours, Budget)

\* The batch: ours first and always; then as many strangers as still have to
\* pass, in the order they are served.
NextBatch ==
  IF Pending \cap Ours # {} THEN FirstOf(Pending \cap Ours, Budget)
  ELSE FirstOf(Pending, Min({Shortfall0, Budget}))

\* examine: a token is marked as examined before anything of it is asked, so
\* an answer that fails is an answer.
Examine ==
  /\ at = "paid" /\ NextBatch # {}
  /\ examined' = examined \cup NextBatch
  /\ spent' = spent + Cardinality(NextBatch)
  /\ UNCHANGED <<at, look, asked, roomLeft, queue, remembered, unexamined, page, attempted, barred>>

\* One page of the registry, while the slots are short and there is room; the
\* fresh ones of it are taken in as the discovered ones were.
ReadPage ==
  /\ at = "paid" /\ NextBatch = {}
  /\ page < RegistryPages /\ roomLeft > 0 /\ Shortfall0 > 0
  /\ page' = page + 1
  /\ \E listed \in SUBSET Strangers :
       /\ Cardinality(listed) <= PageSize
       /\ \E fresh \in SUBSET (listed \ asked) :
            /\ Cardinality(fresh) = Min({roomLeft, Cardinality(listed \ asked)})
            /\ asked' = asked \cup fresh
            /\ roomLeft' = roomLeft - Cardinality(fresh)
            /\ at' = IF fresh = {} THEN "paid" ELSE "intake"
  /\ UNCHANGED <<look, queue, examined, remembered, unexamined, spent, attempted, barred>>

\* The registry cannot be read, or had no more.
RegistryEnds ==
  /\ at = "paid" /\ NextBatch = {} /\ page < RegistryPages
  /\ page' = RegistryPages
  /\ UNCHANGED <<at, look, asked, roomLeft, queue, examined, remembered, unexamined, spent,
                 attempted, barred>>

\* What the paid stage did not reach goes on the screen unchecked.
EndPaid ==
  /\ at = "paid" /\ NextBatch = {}
  /\ page = RegistryPages \/ roomLeft = 0 \/ Shortfall0 = 0
  /\ at' = "candles"
  /\ unexamined' = unexamined \cup Pending
  /\ UNCHANGED <<look, asked, roomLeft, queue, examined, remembered, spent, page, attempted, barred>>

\* The pairs cannot be discovered, or the reports not read or written.
ScanFails ==
  /\ at \in {"discover", "intake", "paid"} /\ at' = "failed"
  /\ UNCHANGED <<look, asked, roomLeft, queue, examined, remembered, unexamined, spent, page,
                 attempted, barred>>

-----------------------------------------------------------------------------
(* The candles of what survived.                                           *)

Survivors == (Candidates \cap attempted) \ Ours

\* The next candidates to download, as many as are short.
NextCandles == FirstOf(Candidates \ attempted, Positive0(CandleBudget - Cardinality(Survivors)))

\* The candles of each, and the ranking again: the bars of some fail their
\* gates.  A request that threw is an attempt all the same, and says nothing.
Download ==
  /\ at = "candles" /\ NextCandles # {}
  /\ \E failed \in SUBSET NextCandles :
       /\ attempted' = attempted \cup NextCandles
       /\ barred' = barred \cup {t \in NextCandles \ failed : ~look[t].bars}
  /\ UNCHANGED <<at, look, asked, roomLeft, queue, examined, remembered, unexamined, spent, page>>

EndScanOnce ==
  /\ at = "candles" /\ NextCandles = {} /\ at' = "done"
  /\ UNCHANGED <<look, asked, roomLeft, queue, examined, remembered, unexamined, spent, page,
                 attempted, barred>>

\* Only what was paid to check is vouched for; what is held takes no slot.
Vouched == Candidates \cap (attempted \cup Ours)

ScanNext ==
  Discover \/ Intake \/ Examine \/ ReadPage \/ RegistryEnds \/ EndPaid \/ ScanFails \/ Download
  \/ EndScanOnce

ScanSpec == ScanInit /\ [][ScanNext]_scanVars

-----------------------------------------------------------------------------
(* Properties.                                                             *)

\* What the scan hands the allocator was looked at: every candidate has a
\* verdict of the paid stage and, if it may be bought, candles that were asked
\* for and did not fail ("we only vouch for what we PAID to check").  There are
\* never more to buy than there are slots.
OnlyVouchedFor ==
  at = "done" =>
    /\ Vouched \subseteq Judged \ unexamined
    /\ Vouched \ Ours \subseteq attempted \ barred
    /\ Cardinality(Vouched \ Ours) <= WatchSlots

\* The paid stage spends only while slots are short, never twice on a token,
\* and never on a stranger while one of ours waits: a rate-limited provider
\* must not become an endless loop (scan.ts, untilFilled).
PaidForNeed ==
  [][/\ examined' \ examined # {} =>
          /\ Pending \cap Ours = {} \/ examined' \ examined \subseteq Ours
          /\ Cardinality((examined' \ examined) \ Ours) <= Shortfall0
          /\ spent' <= MaxChecks
     /\ at = "candles" /\ at' = "candles" => attempted' \ attempted # {}]_scanVars

\* The paid stage leaves nobody out while slots are short: it ends with as many
\* as were wanted, or with its budget spent, or with the queue empty; and the
\* universe cap never leaves out what is held.
NobodyLeftOut ==
  at \in {"candles", "done"} =>
    /\ Ours \subseteq asked
    /\ barred = {} => \/ Cardinality(Passed \ Ours) >= Wanted
                      \/ Budget = 0 \/ Pending = {}

=============================================================================
