----------------------- MODULE HyperliquidRateLimiter -----------------------
(***************************************************************************)
(* The token bucket that all Hyperliquid fetch jobs share                  *)
(* (hyperliquid_rate_limiter.py) and the threads that call it around every *)
(* request (hyperliquid_fetcher.py).  Each `with self._lock` block of      *)
(* wait(), on_rate_limit_error() and on_success() is one action; sleeps    *)
(* happen between the actions, outside the lock.                           *)
(*                                                                         *)
(* Time.  The code only compares and subtracts clock readings, so the      *)
(* clock is kept as ages and remaining times that Tick moves together.     *)
(* One tick is the time in which the bucket replenishes one unit of        *)
(* weight (1/20 s in the default configuration).                           *)
(***************************************************************************)
EXTENDS Integers

CONSTANTS
    Threads,        \* threads of concurrent fetch jobs
    Weights,        \* weights of the requests they make
    MaxWeight,      \* self.max_weight, the size of the bucket
    MinInterval,    \* self.min_interval, in ticks
    Second,         \* ticks in a second
    MaxBackoff,     \* the cap on the base of the backoff, in ticks
    ErrorCap,       \* bound on the error count, see ErrorsAssumption
    MaxRequests,    \* bound: requests made by one thread
    WindowLength    \* bound: age at which the observed window is closed

\* Every weight the fetcher asks for (10, 40, 20 + candles/60 with at most
\* 5000 candles) fits in the bucket of 960.
ASSUME LimiterAssumption ==
    /\ MaxWeight \in Nat /\ MinInterval \in Nat
    /\ Second \in Nat /\ MaxBackoff \in Nat
    /\ ErrorCap \in Nat /\ ErrorCap > 0
    /\ MaxRequests \in Nat /\ WindowLength \in Nat
    /\ Weights \subseteq 1..MaxWeight

\* The error count matters as 2^count, which is capped, and as count > 0:
\* counts from ErrorCap on behave alike.
ASSUME ErrorsAssumption ==
    /\ 2^ErrorCap * Second >= MaxBackoff
    /\ \A n \in 1..(ErrorCap + 1) : 2^n \in Nat

VARIABLES
    weight,     \* _current_weight, as of the last update
    updated,    \* age of _last_update, saturated at MaxWeight
    last,       \* age of _last_request_time, saturated at MinInterval
    errors,     \* _consecutive_429_errors, saturated at ErrorCap
    backoff,    \* _backoff_until - now, or 0 when it has passed
    phase,      \* where each thread is in _fetch_chunk and wait
    asked,      \* the weight each thread is asking for
    sleep,      \* what is left of each thread's time.sleep
    todo,       \* requests each thread has left
    winAge,     \* observer: age of a window of time opened at any moment
    winWeight   \* observer: weight admitted since it was opened

bucket == <<weight, updated, last>>
window == <<winAge, winWeight>>
vars == <<weight, updated, last, errors, backoff, phase, asked, sleep, todo,
          winAge, winWeight>>

Capped(n, cap) == IF n > cap THEN cap ELSE n
Positive(n) == IF n < 0 THEN 0 ELSE n

TypeOK ==
    /\ weight \in 0..MaxWeight
    /\ updated \in 0..MaxWeight
    /\ last \in 0..MinInterval
    /\ errors \in 0..ErrorCap
    /\ backoff \in Nat
    /\ phase \in [Threads -> {"idle", "backoff", "admit", "sent"}]
    /\ asked \in [Threads -> Weights]
    /\ sleep \in [Threads -> Nat]
    /\ todo \in [Threads -> 0..MaxRequests]
    /\ winAge \in 0..WindowLength
    /\ winWeight \in Nat

\* __init__: an empty bucket updated now, the last request and the backoff
\* deadline at the clock's zero.
Init ==
    /\ weight = 0
    /\ updated = 0
    /\ last = MinInterval
    /\ errors = 0
    /\ backoff = 0
    /\ phase = [t \in Threads |-> "idle"]
    /\ asked \in [Threads -> Weights]
    /\ sleep = [t \in Threads |-> 0]
    /\ todo = [t \in Threads |-> MaxRequests]
    /\ winAge = 0
    /\ winWeight = 0

Awake(t, p) == phase[t] = p /\ sleep[t] = 0

\* A fetch asks for a chunk, the tickers or the DEX list: it calls wait(w).
Call(t, w) ==
    /\ Awake(t, "idle")
    /\ todo[t] > 0
    /\ phase' = [phase EXCEPT ![t] = "backoff"]
    /\ asked' = [asked EXCEPT ![t] = w]
    /\ todo' = [todo EXCEPT ![t] = @ - 1]
    /\ UNCHANGED <<bucket, errors, backoff, sleep, window>>

\* The backoff loop of wait: read the deadline, sleep for what remains and
\* look again; leave the loop once the deadline has passed.
CheckBackoff(t) ==
    /\ Awake(t, "backoff")
    /\ IF backoff > 0
         THEN /\ sleep' = [sleep EXCEPT ![t] = backoff]
              /\ UNCHANGED phase
         ELSE /\ phase' = [phase EXCEPT ![t] = "admit"]
              /\ UNCHANGED sleep
    /\ UNCHANGED <<bucket, errors, backoff, asked, todo, window>>

\* Mutant: any elapsed time empties the bucket.
MutReplenished == IF updated > 0 THEN 0 ELSE weight

\* The weight that is left in the bucket at this moment.
Replenished == Positive(weight - updated)

\* Mutant: the request's own weight is left out of the capacity check.
MutFits(t) == Replenished < MaxWeight

Fits(t) == Replenished + asked[t] <= MaxWeight

\* Mutant: a pass that has to wait moves the date of the last update and
\* loses the weight replenished until then.
MutWaitForCapacity(t) ==
    /\ Awake(t, "admit")
    /\ ~Fits(t)
    /\ updated' = 0
    /\ sleep' = [sleep EXCEPT ![t] = Replenished + asked[t] - MaxWeight]
    /\ UNCHANGED <<weight, last, errors, backoff, phase, asked, todo, window>>

\* The admission loop of wait, one action per branch.  Every pass
\* replenishes the bucket.
WaitForCapacity(t) ==
    /\ Awake(t, "admit")
    /\ ~Fits(t)
    /\ weight' = Replenished
    /\ updated' = 0
    /\ sleep' = [sleep EXCEPT ![t] = Replenished + asked[t] - MaxWeight]
    /\ UNCHANGED <<last, errors, backoff, phase, asked, todo, window>>

WaitForSpacing(t) ==
    /\ Awake(t, "admit")
    /\ Fits(t)
    /\ last < MinInterval
    /\ weight' = Replenished
    /\ updated' = 0
    /\ sleep' = [sleep EXCEPT ![t] = MinInterval - last]
    /\ UNCHANGED <<last, errors, backoff, phase, asked, todo, window>>

Grant(t) ==
    /\ Awake(t, "admit")
    /\ Fits(t)
    /\ last >= MinInterval
    /\ weight' = Replenished + asked[t]
    /\ updated' = 0
    /\ last' = 0
    /\ phase' = [phase EXCEPT ![t] = "sent"]
    /\ winWeight' = winWeight + asked[t]
    /\ UNCHANGED <<errors, backoff, asked, sleep, todo, winAge>>

\* The request succeeded and _fetch_chunk calls on_success.
OnSuccess(t) ==
    /\ Awake(t, "sent")
    /\ phase' = [phase EXCEPT ![t] = "idle"]
    /\ errors' = 0
    /\ backoff' = IF errors > 0 THEN 0 ELSE backoff
    /\ UNCHANGED <<bucket, asked, sleep, todo, window>>

BaseBackoff(count) == Capped(2^count * Second, MaxBackoff)

\* The request failed with a 429 and _fetch_chunk calls on_rate_limit_error,
\* which overwrites the deadline; the jitter is at most a quarter.
OnRateLimitError(t) ==
    /\ Awake(t, "sent")
    /\ phase' = [phase EXCEPT ![t] = "idle"]
    /\ errors' = Capped(errors + 1, ErrorCap)
    /\ \E jitter \in 0 .. (BaseBackoff(errors + 1) \div 4) :
           backoff' = BaseBackoff(errors + 1) + jitter
    /\ UNCHANGED <<bucket, asked, sleep, todo, window>>

\* The request ended and the limiter is not told: any other error, and the
\* ticker and DEX-list requests.  A chunk that first needs the DEX list has
\* its own weight granted, asks for that of the list inside _get_info, and
\* reports one outcome for both: an EndSilently followed by a Call.
EndSilently(t) ==
    /\ Awake(t, "sent")
    /\ phase' = [phase EXCEPT ![t] = "idle"]
    /\ UNCHANGED <<bucket, errors, backoff, asked, sleep, todo, window>>

\* One tick passes; a sleeping thread may wake late, never early.
Tick ==
    /\ updated' = Capped(updated + 1, MaxWeight)
    /\ last' = Capped(last + 1, MinInterval)
    /\ backoff' = Positive(backoff - 1)
    /\ sleep' = [t \in Threads |-> Positive(sleep[t] - 1)]
    /\ IF winAge < WindowLength
         THEN winAge' = winAge + 1 /\ UNCHANGED winWeight
         ELSE winAge' = 0 /\ winWeight' = 0
    /\ UNCHANGED <<weight, errors, phase, asked, todo>>

\* The observer opens a new window.
OpenWindow ==
    /\ winAge' = 0
    /\ winWeight' = 0
    /\ UNCHANGED <<bucket, errors, backoff, phase, asked, sleep, todo>>

Step(t) ==
    \/ \E w \in Weights : Call(t, w)
    \/ CheckBackoff(t)
    \/ WaitForCapacity(t)
    \/ WaitForSpacing(t)
    \/ Grant(t)
    \/ OnSuccess(t)
    \/ OnRateLimitError(t)
    \/ EndSilently(t)

Next ==
    \/ \E t \in Threads : Step(t)
    \/ Tick
    \/ OpenWindow

Spec == Init /\ [][Next]_vars

\* Time passes and the operating system runs every thread that is awake.
FairSpec == Spec /\ WF_vars(Tick) /\ \A t \in Threads : WF_vars(Step(t))

-----------------------------------------------------------------------------
(***************************************************************************)
(* Properties                                                              *)
(***************************************************************************)

\* In any window of time, whenever it starts, the threads together are
\* granted at most a full bucket plus what the bucket replenishes meanwhile:
\* no interleaving of wait() calls and no idle period lets them exceed it.
WindowEnvelope == winWeight <= MaxWeight + winAge

\* Every request is served: a thread never waits for ever for the backoff,
\* for capacity that the others keep taking, or for the spacing.
AllServed == \A t \in Threads : <>[](phase[t] = "idle" /\ todo[t] = 0)

=============================================================================
