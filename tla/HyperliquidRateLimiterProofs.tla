-------------------- MODULE HyperliquidRateLimiterProofs --------------------
(***************************************************************************)
(* The envelope of the shared token bucket, for every number of threads,   *)
(* every bucket and every schedule.  WindowEnvelope is not inductive: it   *)
(* says nothing of the weight left in the bucket.  Envelope relates the    *)
(* two: what a window has been granted is either still in the bucket or    *)
(* has been replenished since the window was opened.                       *)
(***************************************************************************)
EXTENDS HyperliquidRateLimiter, TLAPS

Envelope ==
    \/ winWeight = 0
    \/ /\ updated <= winAge
       /\ winWeight <= weight + winAge - updated

IInv == TypeOK /\ Envelope

\* The base of the backoff is a natural number for every count reached.
LEMMA BaseBackoffNat ==
    ASSUME NEW n \in 0..ErrorCap
    PROVE  BaseBackoff(n + 1) \in Nat
<1>1. n + 1 \in 1..(ErrorCap + 1)
  BY LimiterAssumption
<1>2. 2^(n + 1) \in Nat
  BY <1>1, ErrorsAssumption
<1>3. 2^(n + 1) * Second \in Nat
  BY <1>2, LimiterAssumption
<1> QED
  BY <1>3, LimiterAssumption DEF BaseBackoff, Capped

(* Before any call the bucket is empty and no window is open. *)
LEMMA InitIInv == Init => IInv
BY LimiterAssumption DEF Init, IInv, TypeOK, Envelope

\* Every step keeps the types: in particular no schedule overfills the
\* bucket.
LEMMA TypeStep == TypeOK /\ [Next]_vars => TypeOK'
<1> SUFFICES ASSUME TypeOK, [Next]_vars
             PROVE  TypeOK'
  OBVIOUS
<1> USE LimiterAssumption DEF TypeOK, bucket, window
<1>1. ASSUME NEW t \in Threads, NEW w \in Weights, Call(t, w)
      PROVE  TypeOK'
  BY <1>1 DEF Call, Awake
<1>2. ASSUME NEW t \in Threads, CheckBackoff(t)
      PROVE  TypeOK'
  BY <1>2 DEF CheckBackoff, Awake
<1>3. ASSUME NEW t \in Threads, WaitForCapacity(t)
      PROVE  TypeOK'
  <2>1. asked[t] \in 1..MaxWeight
    OBVIOUS
  <2> QED
    BY <1>3, <2>1 DEF WaitForCapacity, Awake, Fits, Replenished, Positive
<1>4. ASSUME NEW t \in Threads, WaitForSpacing(t)
      PROVE  TypeOK'
  BY <1>4 DEF WaitForSpacing, Awake, Replenished, Positive
<1>5. ASSUME NEW t \in Threads, Grant(t)
      PROVE  TypeOK'
  <2>1. asked[t] \in 1..MaxWeight
    OBVIOUS
  <2> QED
    BY <1>5, <2>1 DEF Grant, Awake, Fits, Replenished, Positive
<1>6. ASSUME NEW t \in Threads, OnSuccess(t)
      PROVE  TypeOK'
  BY <1>6 DEF OnSuccess, Awake
<1>7. ASSUME NEW t \in Threads, OnRateLimitError(t)
      PROVE  TypeOK'
  <2>1. BaseBackoff(errors + 1) \in Nat
    BY BaseBackoffNat
  <2>2. PICK jitter \in 0 .. (BaseBackoff(errors + 1) \div 4) :
            backoff' = BaseBackoff(errors + 1) + jitter
    BY <1>7 DEF OnRateLimitError
  <2>3. jitter \in Nat
    BY <2>1, <2>2
  <2>4. backoff' \in Nat
    BY <2>1, <2>2, <2>3
  <2> QED
    BY <1>7, <2>4 DEF OnRateLimitError, Awake, Capped
<1>8. ASSUME NEW t \in Threads, EndSilently(t)
      PROVE  TypeOK'
  BY <1>8 DEF EndSilently, Awake
<1>9. CASE Tick
  BY <1>9 DEF Tick, Capped, Positive
<1>10. CASE OpenWindow
  BY <1>10 DEF OpenWindow
<1>11. CASE UNCHANGED vars
  BY <1>11 DEF vars
<1> QED
  BY <1>1, <1>2, <1>3, <1>4, <1>5, <1>6, <1>7, <1>8, <1>9, <1>10, <1>11
     DEF Next, Step

\* Every step keeps the relation between a window and the bucket.
LEMMA EnvelopeStep == IInv /\ [Next]_vars => Envelope'
<1> SUFFICES ASSUME IInv, [Next]_vars
             PROVE  Envelope'
  OBVIOUS
<1> USE LimiterAssumption DEF IInv, TypeOK, Envelope
<1>1. ASSUME NEW t \in Threads,
             WaitForCapacity(t) \/ WaitForSpacing(t)
      PROVE  Envelope'
  BY <1>1 DEF WaitForCapacity, WaitForSpacing, Replenished, Positive, window
<1>2. ASSUME NEW t \in Threads, Grant(t)
      PROVE  Envelope'
  <2>1. asked[t] \in 1..MaxWeight
    OBVIOUS
  <2> QED
    BY <1>2, <2>1 DEF Grant, Replenished, Positive
<1>3. ASSUME NEW t \in Threads,
             \/ \E w \in Weights : Call(t, w)
             \/ CheckBackoff(t) \/ OnSuccess(t)
             \/ OnRateLimitError(t) \/ EndSilently(t)
      PROVE  Envelope'
  BY <1>3 DEF Call, CheckBackoff, OnSuccess, OnRateLimitError, EndSilently,
              bucket, window
<1>4. CASE Tick
  BY <1>4 DEF Tick, Capped
<1>5. CASE OpenWindow
  BY <1>5 DEF OpenWindow
<1>6. CASE UNCHANGED vars
  BY <1>6 DEF vars
<1> QED
  BY <1>1, <1>2, <1>3, <1>4, <1>5, <1>6 DEF Next, Step

(* The strengthened invariant holds in every state the threads can reach. *)
LEMMA Invariance == Spec => []IInv
<1>1. IInv /\ [Next]_vars => IInv'
  BY TypeStep, EnvelopeStep DEF IInv
<1> QED
  BY InitIInv, <1>1, PTL DEF Spec

\* The bucket of the rate limiter is never overfilled and its variables keep
\* their types, whatever the threads and the schedule.
THEOREM LimiterTypeCorrect == Spec => []TypeOK
<1>1. IInv => TypeOK
  BY DEF IInv
<1> QED
  BY Invariance, <1>1, PTL

\* Over any window of time the threads that share the rate limiter are
\* granted at most a full bucket plus what is replenished meanwhile.
THEOREM LimiterEnvelope == Spec => []WindowEnvelope
<1>1. IInv => WindowEnvelope
  BY LimiterAssumption DEF IInv, TypeOK, Envelope, WindowEnvelope
<1> QED
  BY Invariance, <1>1, PTL
=============================================================================
