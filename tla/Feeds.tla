------------------------------- MODULE Feeds -------------------------------
(* What the engine remembers of its providers, and how long it waits for   *)
(* one. It asks one thing at a time, and time passes while it waits:       *)
(*   the sweep asks how the book's pools moved (liquidity-change.ts) and   *)
(*   how a token moved in the last hour (recent-volatility.ts);            *)
(*   the cycle asks for prices through the tokens Jupiter told of          *)
(*   (jupiter-tokens.ts); the door asks what a sale would pay, patiently   *)
(*   (patient-sell-probe.ts, jupiter.ts), through the restarted request    *)
(*   (hedged-get.ts) at the pace the provider sets (adaptive-throttle.ts). *)
(* A provider answers, refuses, or does not answer before the request is   *)
(* aborted; its answer tells of an instant between the request and it.     *)
(* The candles of the last hour come from one of two providers in turn,    *)
(* so that nothing but their answer bounds the wait.                       *)
EXTENDS Integers, Sequences, FiniteSetsExt

CONSTANTS
  Mints,
  Minute,        \* how long a reading of a pool, or what is told of a token, stands
  Bar,           \* the width of a candle
  Abort,         \* timeoutMs
  Samples,       \* SAMPLES
  FirstBackoff, MaxInterval, CleanRun,
  Patience, Backoff,     \* of a patient probe: its budget, and its first wait
  MaxTries,              \* of one quote that is told to slow down
  Callers,               \* the callers of one behaviour: those that share a memory
  MaxInstant, MaxAsks    \* bounds

ASSUME FeedsAssumption ==
  /\ {Minute, Bar, Abort, Samples, FirstBackoff, CleanRun, Backoff, MaxTries} \subseteq Nat \ {0}
  /\ {Patience, MaxInstant, MaxAsks} \subseteq Nat /\ MaxInterval >= FirstBackoff

VARIABLES
  instant,
  pools,    \* liquidity-change.ts: the reading kept of each token
  hours,    \* recent-volatility.ts: the answer kept of each token
  infos,    \* jupiter-tokens.ts: what it told of each token
  pace,     \* the throttle: the pause between two requests, its clean answers,
            \* and when the last request went out
  recent,   \* what the last quotes took
  call,     \* what is being asked
  handed,   \* history: the last answer, and to whom
  asks,     \* bound: the questions so far
  callers   \* who asks in this behaviour, of Callers

feedsVars == <<instant, pools, hours, infos, pace, recent, call, handed, asks, callers>>

Never  == [at |-> -1, taken |-> -1]
NoHour == [bar |-> -1, measuredAt |-> -1]
NoCall == [who |-> "nobody"]
Unhurried == [interval |-> 0, clean |-> 0, last |-> 0]
BarOf(t) == t \div Bar

Fresh(memory, t) == memory[t].at >= 0 /\ instant - memory[t].at <= Minute

-----------------------------------------------------------------------------
(* The pace of a provider, and an answer that takes longer than usual.      *)

PushedBack(p) ==
  [p EXCEPT !.interval = Min({IF @ = 0 THEN FirstBackoff ELSE @ * 2, MaxInterval}), !.clean = 0]

WentThrough(p) ==
  IF p.interval = 0 THEN p
  ELSE IF p.clean + 1 < CleanRun THEN [p EXCEPT !.clean = @ + 1]
  ELSE [p EXCEPT !.interval = IF @ <= FirstBackoff THEN 0 ELSE @ \div 2, !.clean = 0]

\* A quarter over the slowest of the last answers, once there are enough.
InTime(took) == Len(recent) < Samples \/ \E i \in DOMAIN recent : 4 * took <= 5 * recent[i]
Recorded(took) == IF Len(recent) < Samples THEN Append(recent, took) ELSE Append(Tail(recent), took)

-----------------------------------------------------------------------------
(* Asking. What memory answers costs no request.                            *)

Hand(who, at, waited, out) == handed' = [who |-> who, at |-> at, waited |-> waited, out |-> out]

Ask(who, of, missing, out) ==
  /\ who \in callers /\ call.who = "nobody" /\ asks < MaxAsks /\ asks' = asks + 1
  /\ IF missing = {} THEN Hand(who, instant, 0, out) /\ UNCHANGED call
     ELSE /\ call' = [who |-> who, of |-> of, asked |-> missing, at |-> instant, flying |-> FALSE,
                      since |-> instant, again |-> FALSE, tries |-> 0, pause |-> Backoff, waited |-> 0]
          /\ UNCHANGED handed
  /\ UNCHANGED <<instant, pools, hours, infos, pace, recent, callers>>

AskPools(of) ==
  LET fresh == {t \in of : Fresh(pools, t)} IN
  Ask("pools", of, of \ fresh, [t \in fresh |-> pools[t].taken])

AskHour(t) ==
  Ask("hour", {t}, IF hours[t].bar = BarOf(instant) THEN {} ELSE {t}, [x \in {t} |-> hours[t].measuredAt])

\* A token it knows nothing of is remembered, and has no price.
Told(memory, of) ==
  [t \in {x \in of : Fresh(memory, x) /\ memory[x].taken >= 0} |-> memory[t].taken]

AskPrices(of, refresh) ==
  Ask("prices", of, {t \in of : refresh \/ ~Fresh(infos, t)}, Told(infos, of))

AskQuote(t) == Ask("quote", {t}, {t}, << >>)

-----------------------------------------------------------------------------
(* The request goes out after its pause, and time passes while it waits.    *)

\* The candles are asked of others, at no pace.
Send ==
  /\ call.who # "nobody" /\ ~call.flying
  /\ call' = [call EXCEPT !.flying = TRUE, !.since = instant]
  /\ IF call.who = "hour" THEN UNCHANGED pace
     ELSE instant >= pace.last + pace.interval /\ pace' = [pace EXCEPT !.last = instant]
  /\ UNCHANGED <<instant, pools, hours, infos, recent, handed, asks, callers>>

TimePasses ==
  /\ instant < MaxInstant
  /\ call.who # "nobody" =>
       IF call.flying THEN call.who = "hour" \/ instant - call.since < Abort ELSE call.who # "hour"
  /\ instant' = instant + 1
  /\ UNCHANGED <<pools, hours, infos, pace, recent, call, handed, asks, callers>>

Took     == instant - call.since
Instants == call.since..instant
Flying(who) == call.who = who /\ call.flying
Answer(out) == Hand(call.who, call.at, call.waited, out) /\ call' = NoCall

-----------------------------------------------------------------------------
(* What the tokens' provider answers: what it found, and that it knows     *)
(* nothing of the others.                                                  *)

Remembered(found, taken) ==
  [t \in Mints |->
     IF t \in call.asked THEN [at |-> instant, taken |-> IF t \in found THEN taken ELSE -1] ELSE infos[t]]

\* Mutant: stamped with the instant it arrived.
KeptFromArrival(found, taken) ==
  [t \in Mints |->
     IF t \in found THEN [at |-> instant, taken |-> taken]
     ELSE IF call.at - pools[t].at > Minute THEN Never ELSE pools[t]]
\* A reading is stamped with the instant it was asked for; the stale ones go.
Kept(found, taken) ==
  [t \in Mints |->
     IF t \in found THEN [at |-> call.at, taken |-> taken]
     ELSE IF call.at - pools[t].at > Minute THEN Never ELSE pools[t]]

\* What was fresh when the sweep asked.
InHand == [t \in call.of \ call.asked |-> pools[t].taken]

PoolsAnswered ==
  /\ Flying("pools")
  /\ \E found \in SUBSET call.asked, taken \in Instants :
       /\ infos' = Remembered(found, taken)
       /\ pools' = Kept(found, taken)
       /\ Answer([t \in call.of \ (call.asked \ found) |-> IF t \in found THEN taken ELSE pools[t].taken])
  /\ UNCHANGED <<instant, hours, pace, recent, asks, callers>>

\* A refused search answers about no token, and a thrown one ends the asking.
PoolsRefused ==
  /\ Flying("pools")
  /\ pools' \in {Kept({}, instant), pools}
  /\ Answer(InHand)
  /\ UNCHANGED <<instant, hours, infos, pace, recent, asks, callers>>

PricesAnswered ==
  /\ Flying("prices")
  /\ \E found \in SUBSET call.asked, taken \in Instants :
       LET memory == Remembered(found, taken) IN infos' = memory /\ Answer(Told(memory, call.of))
  /\ UNCHANGED <<instant, pools, hours, pace, recent, asks, callers>>

\* A refused search leaves what was told before to be handed; a thrown one, nothing.
PricesRefused ==
  /\ Flying("prices")
  /\ \E out \in {Told(infos, call.of), << >>} : Answer(out)
  /\ UNCHANGED <<instant, pools, hours, infos, pace, recent, asks, callers>>

\* Of the bars closed when it was asked: a volatility, or too few to tell one.
HourKept(t, measured) ==
  [x \in Mints |->
     IF x = t THEN [bar |-> BarOf(call.at), measuredAt |-> measured]
     ELSE IF hours[x].bar = BarOf(call.at) THEN hours[x] ELSE NoHour]

HourAnswered ==
  /\ Flying("hour")
  /\ \E t \in call.asked, measured \in {call.at, -1} :
       hours' = HourKept(t, measured) /\ Answer([x \in {t} |-> measured])
  /\ UNCHANGED <<instant, pools, infos, pace, recent, asks, callers>>

HourRefused ==
  /\ Flying("hour")
  /\ Answer(<< >>)
  /\ UNCHANGED <<instant, pools, hours, infos, pace, recent, asks, callers>>

-----------------------------------------------------------------------------
(* The quote of a sale. A request slower than usual is made once more; one *)
(* told to slow down, at the new pace; and silence is listened to until    *)
(* the budget is spent.                                                    *)

Verdict(told) == Answer([t \in call.asked |-> told]) /\ UNCHANGED <<instant, pools, hours, infos, asks, callers>>

\* Mutant: never trimmed to what is left.
NextWaitWhole(waited, pause) == pause
\* How long the door waits to ask again: a pause that doubles with every attempt.
NextWait(waited, pause) == Min({pause, Patience - waited})

Silent ==
  /\ IF call.waited >= Patience THEN Answer(<< >>)
     ELSE /\ call' = [call EXCEPT !.flying = FALSE, !.again = FALSE, !.tries = 0, !.pause = 2 * @,
                                  !.waited = @ + NextWait(call.waited, call.pause)]
          /\ UNCHANGED handed
  /\ UNCHANGED <<instant, pools, hours, infos, asks, callers>>

QuoteAnswered ==
  /\ Flying("quote") /\ InTime(Took)
  /\ recent' = Recorded(Took) /\ pace' = WentThrough(pace)
  /\ \/ \E told \in {"ok", "implausible", "failed"} : Verdict(told)
     \/ Silent   \* malformed

\* No route is a verdict; any other error says nothing.
QuoteFailed ==
  /\ Flying("quote") /\ InTime(Took)
  /\ pace' = WentThrough(pace) /\ UNCHANGED recent
  /\ Verdict("failed") \/ Silent

QuotePushedBack ==
  /\ Flying("quote") /\ InTime(Took)
  /\ pace' = PushedBack(pace) /\ UNCHANGED recent
  /\ IF call.tries < MaxTries - 1
     THEN /\ call' = [call EXCEPT !.flying = FALSE, !.again = FALSE, !.tries = @ + 1]
          /\ UNCHANGED <<instant, pools, hours, infos, handed, asks, callers>>
     ELSE Silent

QuoteTooSlow ==
  /\ Flying("quote") /\ ~InTime(Took) /\ ~call.again
  /\ call' = [call EXCEPT !.again = TRUE, !.since = instant]
  /\ UNCHANGED <<instant, pools, hours, infos, pace, recent, handed, asks, callers>>

\* Slow twice, or aborted, or the network's own error.
QuoteLost ==
  /\ Flying("quote")
  /\ Silent /\ UNCHANGED <<pace, recent>>

-----------------------------------------------------------------------------
FeedsInit ==
  /\ callers \in Callers /\ instant = 0 /\ asks = 0 /\ recent = << >> /\ pace = Unhurried
  /\ pools = [t \in Mints |-> Never] /\ infos = pools /\ hours = [t \in Mints |-> NoHour]
  /\ call = NoCall /\ handed = [who |-> "nobody", at |-> 0, waited |-> 0, out |-> << >>]

FeedsNext ==
  \/ \E of \in SUBSET Mints \ {{}} :
       AskPools(of) \/ \E refresh \in BOOLEAN : AskPrices(of, refresh)
  \/ \E t \in Mints : AskHour(t) \/ AskQuote(t)
  \/ Send \/ TimePasses
  \/ PoolsAnswered \/ PoolsRefused \/ PricesAnswered \/ PricesRefused \/ HourAnswered \/ HourRefused
  \/ QuoteAnswered \/ QuoteFailed \/ QuotePushedBack \/ QuoteTooSlow \/ QuoteLost

FeedsSpec == FeedsInit /\ [][FeedsNext]_feedsVars

-----------------------------------------------------------------------------
(* Properties                                                              *)

(* Whatever a caller is handed was true within what it stands for, counted *)
(* from its asking: a pool's reading a minute, a volatility its bar, a     *)
(* price a minute and the time of the request that brought it. However     *)
(* long the providers took, and whichever of the memories answered         *)
(* (liquidity-change.ts:25-26, recent-volatility.ts:28-30,                 *)
(* jupiter-tokens.ts:140-142).                                             *)
ReadingsAreCurrent ==
  \A t \in DOMAIN handed.out :
    /\ handed.who = "pools"  => handed.at - handed.out[t] <= Minute
    /\ handed.who = "prices" => handed.at - handed.out[t] <= Minute + Abort
    /\ handed.who = "hour" /\ handed.out[t] >= 0 => BarOf(handed.out[t]) = BarOf(handed.at)

(* The door hears silence only after its whole budget, and never waits     *)
(* beyond it (patient-sell-probe.ts:18-26).                                *)
PatientToTheEnd ==
  handed.who = "quote" =>
    IF handed.out = << >> THEN handed.waited = Patience ELSE handed.waited <= Patience
=============================================================================
