----------------------------- MODULE RetryDelay -----------------------------
(***************************************************************************)
(* src/httpclient/retry.go: how long the retry loop waits.  One action per *)
(* retry: the default policy's Backoff, with the answer's Retry-After      *)
(* header when there was an answer and it parses.                          *)
(*                                                                         *)
(* A time.Duration is an int64 of nanoseconds: here a signed integer of    *)
(* Width bits with Second units to the second, and time.Duration(secs) *   *)
(* time.Second wraps around as the multiplication in Go does.  The factor  *)
(* of the jitter is any value rand.Float64 can give, and a float too large *)
(* for a Duration converts to whatever the processor makes of it.          *)
(***************************************************************************)
EXTENDS Integers

CONSTANTS
  Second,      \* units of a second
  Width,       \* bits of a Duration
  Waits,       \* the values of MinWait and MaxWait considered
  MaxRetries   \* RetryConfig.MaxRetries

ASSUME DelayAssumption ==
  /\ Second \in Nat \ {0} /\ Width \in Nat \ {0} /\ MaxRetries \in Nat
  /\ Waits \subseteq 0 .. 2 ^ (Width - 1) - 1

VARIABLES minWait, maxWait, attempt, header, wait

delayVars == <<minWait, maxWait, attempt, header, wait>>

MaxDuration == 2 ^ (Width - 1) - 1
MinDuration == -(2 ^ (Width - 1))
Wrap(n) == ((n + 2 ^ (Width - 1)) % (2 ^ Width)) - 2 ^ (Width - 1)

(* Retry-After: no header or one that does not parse, a number of seconds  *)
(* or an HTTP date that lies `value` units ahead.                          *)
NoHeader == [is |-> "none", value |-> 0]
RetryAfters == {NoHeader}
             \cup [is : {"seconds"}, value : -1 .. MaxDuration]
             \cup [is : {"date"}, value : -1 .. MaxDuration]

-----------------------------------------------------------------------------
(* parseRetryAfter: negative seconds are refused, a past date is zero.     *)
Parses(h) == h.is = "date" \/ (h.is = "seconds" /\ h.value >= 0)
parseRetryAfter(h) ==
  IF h.is = "seconds" THEN Wrap(h.value * Second)
  ELSE IF h.value > 0 THEN h.value ELSE 0

(* Wrong: only the upper bound is applied.                                 *)
clampAbove(d, lo, hi) == IF d > hi THEN hi ELSE d

clampDuration(d, lo, hi) == IF d < lo THEN lo ELSE IF d > hi THEN hi ELSE d

(* minWait * 2^attempt, at most maxWait, computed in floating point.       *)
Exponential(lo, hi, n) == IF lo * 2 ^ n > hi THEN hi ELSE lo * 2 ^ n

(* backoff + (rand - 0.5) * backoff, truncated: rand is in [0, 1).         *)
Jittered(b) == {d \in b \div 2 .. (3 * b) \div 2 : b = 0 \/ 2 * d < 3 * b}

(* time.Duration(d) of a float.  What does not fit is implementation-      *)
(* dependent in Go: the least Duration on amd64, the greatest on arm64.    *)
(* The greatest itself is no float64 and rounds up to one that is too      *)
(* large.                                                                  *)
ToDuration(d) == IF d < MaxDuration THEN {d} ELSE {MinDuration, MaxDuration}

Backoff(lo, hi, n, h) ==
  IF Parses(h) THEN {clampDuration(parseRetryAfter(h), lo, hi)}
  ELSE {clampDuration(c, lo, hi) : c \in UNION {ToDuration(d) : d \in Jittered(Exponential(lo, hi, n))}}

-----------------------------------------------------------------------------
DelayInit ==
  /\ minWait \in Waits /\ maxWait \in Waits
  /\ attempt = 0 /\ header = NoHeader /\ wait = 0

DelayIdle ==
  /\ minWait = 0 /\ maxWait = 0
  /\ attempt = MaxRetries /\ header = NoHeader /\ wait = 0

(* One retry; a transport failure has no answer and so no header.          *)
Retry ==
  /\ attempt < MaxRetries
  /\ header' \in RetryAfters
  /\ wait' \in Backoff(minWait, maxWait, attempt, header')
  /\ attempt' = attempt + 1
  /\ UNCHANGED <<minWait, maxWait>>

-----------------------------------------------------------------------------
(* A wait stays within the configured bounds whatever the peer asks for,   *)
(* a wrapped number of seconds and a backoff too large for a Duration      *)
(* included; the peer gets the wait it asked for, up to the maximum, when  *)
(* it can be represented; and without a usable header the wait is at least *)
(* half of the exponential one, if one and a half times that one fits a    *)
(* Duration: above it a retry may come after MinWait already (retry.go     *)
(* Backoff, parseRetryAfter, clampDuration).                               *)
WaitHonoured ==
  attempt > 0 /\ minWait <= maxWait =>
    LET atMost(d) == IF d > maxWait THEN maxWait ELSE d
        backoff == atMost(minWait * 2 ^ (attempt - 1))
    IN  /\ minWait <= wait /\ wait <= maxWait
        /\ header.is = "date" => wait >= atMost(header.value)
        /\ header.is = "seconds" /\ header.value * Second <= MaxDuration =>
             wait >= atMost(header.value * Second)
        /\ ~Parses(header) /\ 3 * backoff < 2 * MaxDuration => 2 * wait + 1 >= backoff
=============================================================================
