----------------------------- MODULE RateLimiter -----------------------------
(***************************************************************************)
(* The bot's rate limiter (middleware/rateLimiter.cjs): a rolling window of *)
(* the times of a user's updates, and a timer that forgets what is stale.   *)
(* Time is counted in ticks. A user is one who is not a bot.                *)
(***************************************************************************)
EXTENDS Integers, Sequences, FiniteSets

CONSTANTS
  Users, windowMs, maxRequests,
  MaxTime, MaxUpdates     \* bounds: ticks; updates of a user let through

ASSUME LimiterAssumption == windowMs \in Nat \ {0} /\ maxRequests \in Nat \ {0}

VARIABLES
  time,
  buckets,                \* user -> times of the updates it remembers
  passed                  \* user -> times of the updates let through (history)

limiter_vars == <<time, buckets, passed>>

LimiterInit ==
  /\ time = 0
  /\ buckets = [u \in Users |-> <<>>]
  /\ passed = [u \in Users |-> <<>>]

\* Variant: the window is a fixed one.
FreshToday(times) == SelectSeq(times, LAMBDA t : t \div windowMs = time \div windowMs)

\* filter: times are pushed as they pass, so that the stale ones come first.
Stale(times) == {i \in 1 .. Len(times) : times[i] <= time - windowMs}
Fresh(times) == SubSeq(times, Cardinality(Stale(times)) + 1, Len(times))

Tick == time < MaxTime /\ time' = time + 1 /\ UNCHANGED <<buckets, passed>>

\* The middleware: next() is called, or the update is answered and dropped.
LetThrough(u) ==
  /\ Len(Fresh(buckets[u])) < maxRequests /\ Len(passed[u]) < MaxUpdates
  /\ buckets' = [buckets EXCEPT ![u] = Append(Fresh(@), time)]
  /\ passed' = [passed EXCEPT ![u] = Append(@, time)]
  /\ UNCHANGED time

Prune ==
  /\ buckets' = [u \in Users |-> Fresh(buckets[u])]
  /\ UNCHANGED <<time, passed>>

LimiterNext == Tick \/ Prune \/ \E u \in Users : LetThrough(u)

LimiterSpec == LimiterInit /\ [][LimiterNext]_limiter_vars

(* In no window of windowMs, wherever it begins, are more than maxRequests *)
(* updates of a user let through, whenever the timer prunes.                *)
WindowRespected ==
  \A u \in Users : \A t \in 0 .. time :
    Cardinality({i \in 1 .. Len(passed[u]) : t - windowMs < passed[u][i] /\ passed[u][i] <= t})
      <= maxRequests
=============================================================================
