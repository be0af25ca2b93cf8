--------------------------- MODULE DestroyProofs ---------------------------
(***************************************************************************)
(* Proofs about Destroy and about WithSandbox, which runs its loop, for    *)
(* any number of 429 resends, exchange times, Retry-After values, late     *)
(* wake-ups and ends of the context: IInv and SandboxIInv are inductive,   *)
(* and they imply the properties the runs check.                           *)
(***************************************************************************)
EXTENDS WithSandbox, TLAPS

-----------------------------------------------------------------------------
(* The tables and helpers.                                                 *)

(* Six delays.                                                             *)
LEMMA DelayCount == Len(DestroyRetryDelays) = 6
BY DEF DestroyRetryDelays

(* Elapsed adds up the delays, and all seven make up the deadline.         *)
LEMMA DelayTable ==
  ASSUME NEW k \in 0 .. 5
  PROVE  /\ DestroyRetryDelays[k + 1] \in Nat
         /\ Elapsed[k + 1] \in Nat /\ Elapsed[k + 2] \in Nat
         /\ Elapsed[k + 2] = Elapsed[k + 1] + DestroyRetryDelays[k + 1]
BY DEF DestroyRetryDelays, Elapsed

(* The first and the last of the sums.                                     *)
LEMMA DelayEnds == Elapsed[1] = 0 /\ Elapsed[7] = 61000
BY DEF Elapsed

(* retryDelay never exceeds its cap and never falls below what was asked,  *)
(* up to that cap.                                                         *)
LEMMA RetryDelayBound ==
  ASSUME NEW a \in Nat, NEW n \in Nat
  PROVE  /\ Capped(n) \in Nat /\ Capped(n) <= RetryDelay(a, n)
         /\ RetryDelay(a, n) \in Nat /\ RetryDelay(a, n) <= 8000
<1>1. Exponential(a) \in Nat /\ Exponential(a) <= 8000
  BY DEF Exponential, Backoffs, MaxDelay, Overflow
<1>2. Capped(n) \in Nat /\ Capped(n) <= 8000
  BY DEF Capped, MaxDelay
<1> QED BY <1>1, <1>2 DEF RetryDelay, Longer

(* retryDelay for every attempt number and every Retry-After: never above  *)
(* its cap, never below what was asked up to that cap, and, until the      *)
(* exponential overflows at attempt 36, never below 250 milliseconds       *)
(* (client.go:308-326).                                                    *)
THEOREM RetryDelayRange ==
  ASSUME NEW a \in Nat, NEW n \in Nat
  PROVE  /\ RetryDelay(a, n) <= MaxDelay
         /\ Capped(n) <= RetryDelay(a, n)
         /\ a < Overflow => 250 <= RetryDelay(a, n)
<1>1. a < Overflow => Exponential(a) \in Nat /\ 250 <= Exponential(a)
  BY DEF Exponential, Backoffs, MaxDelay, Overflow
<1>2. a < Overflow => 250 <= RetryDelay(a, n)
  BY <1>1, RetryDelayBound DEF RetryDelay, Longer, Capped, MaxDelay
<1>3. Capped(n) <= RetryDelay(a, n) /\ RetryDelay(a, n) <= 8000
  BY RetryDelayBound
<1>4. MaxDelay = 8000
  BY DEF MaxDelay
<1> QED BY <1>2, <1>3, <1>4

(* Both bounds on an overrun are times.                                    *)
LEMMA ResendTimeType == ResendTime \in Nat /\ Overrun \in Nat
BY ConstantsAssumption DEF ResendTime, Overrun, MaxDelay

(* Before any resend, what has been spent is the deadline.                 *)
LEMMA SpentNothing == Spent(0) = DestroyDeadline
BY ResendTimeType DEF Spent, DestroyDeadline

(* One more resend costs one more ResendTime.                              *)
LEMMA SpentStep ==
  ASSUME NEW i \in 0 .. Retries
  PROVE  /\ Spent(i) \in Nat
         /\ Spent(i + 1) = Spent(i) + ResendTime
BY ResendTimeType, ConstantsAssumption DEF Spent, DestroyDeadline

(* The resends still possible after the i-th fit in Overrun.               *)
LEMMA SpentBound ==
  ASSUME NEW i \in 0 .. Retries
  PROVE  /\ Spent(i) + MaxDuration + MaxLateness <= DestroyDeadline + Overrun
         /\ i < Retries => Spent(i) + ResendTime <= DestroyDeadline + Overrun
<1>1. Retries \in Nat /\ ResendTime \in Nat /\ MaxDuration \in Nat /\ MaxLateness \in Nat
  BY ConstantsAssumption, ResendTimeType
<1>2. i * ResendTime \in Nat /\ (Retries - i) * ResendTime \in Nat
  BY <1>1
<1>3. Retries * ResendTime = i * ResendTime + (Retries - i) * ResendTime
  BY <1>1
<1>4. i < Retries => (Retries - i) * ResendTime >= ResendTime
  <2>1. i < Retries => (Retries - i) * ResendTime = ResendTime + (Retries - i - 1) * ResendTime
    BY <1>1
  <2>2. i < Retries => (Retries - i - 1) * ResendTime \in Nat
    BY <1>1
  <2> QED BY <1>1, <2>1, <2>2
<1> QED BY <1>1, <1>2, <1>3, <1>4 DEF Spent, Overrun, DestroyDeadline

-----------------------------------------------------------------------------
(* The invariant.                                                          *)

(* The invariant holds when the call starts.                               *)
THEOREM InitIInv == Init => IInv
BY ConstantsAssumption, DelayCount, DelayEnds, ResendTimeType
   DEF Init, IInv, TypeOK, Counting, Timing, Gone, Waiting, Steps, Results,
       Replies, DestroyDeadline, TransportRetryLimit

(* Every step of the loop, of the network and of the clock preserves it,   *)
(* and so does the start, under whatever context.                          *)
LEMMA StepIInv ==
  ASSUME IInv, NEW end \in Nat, Start(end) \/ DestroyStep \/ UNCHANGED vars
  PROVE  IInv'
<1> USE ConstantsAssumption DEF IInv
<1> DEFINE LastTime == DestroyDeadline + Overrun
<1>a. /\ inner \in 0 .. Retries /\ now \in Nat /\ wake \in Nat
      /\ attempts \in Nat /\ coded \in 0 .. 6 /\ transports \in 0 .. 3
      /\ reply.after \in Nat /\ notBefore \in Nat /\ ctxEnd \in Nat
  BY DelayCount DEF TypeOK, TransportRetryLimit
<1>b. /\ Spent(inner) \in Nat
      /\ Spent(0) = DestroyDeadline
      /\ Spent(inner + 1) = Spent(inner) + ResendTime
      /\ Spent(inner) + MaxDuration + MaxLateness <= LastTime
      /\ inner < Retries => Spent(inner) + ResendTime <= LastTime
      /\ LastTime \in Nat /\ DestroyDeadline + MaxLateness <= LastTime
  <2>1. DestroyDeadline + MaxLateness <= LastTime
    BY ResendTimeType DEF Overrun, DestroyDeadline
  <2> QED
    BY <1>a, <2>1, SpentNothing, SpentStep, SpentBound, ResendTimeType DEF DestroyDeadline
<1>c. /\ ResendTime = MaxDuration + MaxDelay + MaxLateness
      /\ MaxDelay = 8000 /\ DestroyDeadline = 61000
      /\ MaxDuration \in Nat /\ MaxLateness \in Nat
  BY DEF ResendTime, MaxDelay, DestroyDeadline
<1> HIDE DEF LastTime
<1>1. CASE Start(end)
  <2>a. Elapsed[1] = 0
    BY DelayEnds
  <2>1. TypeOK'
    BY <1>1, <2>a, DelayCount DEF Start, TypeOK, Steps, Results,
       Replies, TransportRetryLimit
  <2>2. Counting'
    BY <1>1, <2>a, <1>a, DelayCount DEF Start, Counting,
       TransportRetryLimit
  <2>3. Timing'
    BY <1>1, <2>a, <1>a, <1>b, <1>c DEF Start, Timing, LastTime
  <2>4. Gone'
    BY <1>1, <2>a DEF Start, TypeOK, Gone, Waiting
  <2>5. Waiting'
    BY <1>1, <2>a, <1>a DEF Start, Waiting
  <2> QED
    BY <2>1, <2>2, <2>3, <2>4, <2>5
<1>2. CASE Top
  <2>a. pc' = "send" => coded < 6 /\ Elapsed[coded + 1] <= now
    BY <1>2, <1>a, DelayEnds DEF Top, Return, Counting, DestroyDeadline
  <2>1. TypeOK'
    BY <1>2, <2>a, DelayCount DEF Top, Return, TypeOK, Steps, Results,
       Replies, TransportRetryLimit
  <2>2. Counting'
    BY <1>2, <2>a, <1>a, DelayCount DEF Top, Return, Counting,
       TransportRetryLimit
  <2>3. Timing'
    BY <1>2, <2>a, <1>a, <1>b, <1>c DEF Top, Return, Timing, LastTime
  <2>4. Gone'
    BY <1>2, <2>a DEF Top, Return, TypeOK, Gone, Waiting
  <2>5. Waiting'
    BY <1>2, <2>a, <1>a DEF Top, Return, Waiting
  <2> QED
    BY <2>1, <2>2, <2>3, <2>4, <2>5
<1>3. ASSUME NEW d \in Durations, NEW kind \in Replies,
             NEW after \in RetryAfters \cup {0}, Exchange(d, kind, after)
      PROVE  IInv'
  <2>a. d \in Nat /\ d <= MaxDuration /\ after \in Nat /\ Elapsed[coded + 1] \in Nat
    BY <1>a, DelayTable, DelayEnds
  <2>1. TypeOK'
    BY <1>3, <2>a, DelayCount DEF Exchange, Outcome, TypeOK, Steps,
       Results, Replies, TransportRetryLimit
  <2>2. Counting'
    BY <1>3, <2>a, <1>a, DelayCount DEF Exchange, Outcome, Counting,
       TransportRetryLimit
  <2>3. Timing'
    BY <1>3, <2>a, <1>a, <1>b, <1>c DEF Exchange, Outcome, Timing,
       LastTime
  <2>4. Gone'
    BY <1>3, <2>a DEF Exchange, Outcome, TypeOK, Gone, Waiting
  <2>5. Waiting'
    BY <1>3, <2>a, <1>a DEF Exchange, Outcome, Waiting
  <2> QED
    BY <2>1, <2>2, <2>3, <2>4, <2>5
<1>4. ASSUME NEW d \in Durations, ExchangeCut(d) PROVE IInv'
  <2>a. d \in Nat /\ d <= MaxDuration
    OBVIOUS
  <2>1. TypeOK'
    BY <1>4, <2>a, DelayCount DEF ExchangeCut, Return, TypeOK, Steps,
       Results, Replies, TransportRetryLimit
  <2>2. Counting'
    BY <1>4, <2>a, <1>a, DelayCount DEF ExchangeCut, Return, Counting,
       TransportRetryLimit
  <2>3. Timing'
    BY <1>4, <2>a, <1>a, <1>b, <1>c DEF ExchangeCut, Return, Timing,
       LastTime
  <2>4. Gone'
    BY <1>4, <2>a DEF ExchangeCut, Return, TypeOK, Gone, Waiting
  <2>5. Waiting'
    BY <1>4, <2>a, <1>a DEF ExchangeCut, Return, Waiting
  <2> QED
    BY <2>1, <2>2, <2>3, <2>4, <2>5
<1>5. CASE HandleLimited
  <2>z. inner \in Nat /\ reply.after \in Nat
    BY <1>a
  <2>y. PICK n \in Nat, i \in Nat : n = reply.after /\ i = inner
    BY <2>z
  <2>x. /\ Capped(n) \in Nat /\ Capped(n) <= RetryDelay(i, n)
        /\ RetryDelay(i, n) \in Nat /\ RetryDelay(i, n) <= 8000
    BY RetryDelayBound
  <2>a. PICK r \in Nat, c \in Nat :
          /\ r = RetryDelay(i, n) /\ r <= 8000
          /\ c = Capped(n) /\ c <= r
    BY <2>x
  <2>b. /\ pc = "answered" /\ inner < Retries
        /\ pc' = "limited" /\ wake' = now + r /\ notBefore' = now + c
        /\ UNCHANGED <<ctxEnd, now, attempts, inner, coded, transports, reply,
                       result, sent, remote>>
    BY <1>5, <2>y, <2>a DEF HandleLimited
  <2>c. notBefore' \in Nat /\ notBefore' <= wake'
    BY <1>a, <2>a, <2>b
  <2>1. TypeOK'
    BY <2>a, <2>b, <2>c, DelayCount DEF TypeOK, Steps, Results, Replies,
       TransportRetryLimit
  <2>2. Counting'
    BY <2>a, <2>b, <2>c, <1>a, DelayCount DEF Counting,
       TransportRetryLimit
  <2>3. Timing'
    BY <2>a, <2>b, <2>c, <1>a, <1>b, <1>c DEF Timing, LastTime
  <2>4. Gone'
    BY <2>a, <2>b, <2>c DEF TypeOK, Gone, Waiting
  <2>5. Waiting'
    BY <2>a, <2>b, <2>c, <1>a DEF Waiting
  <2> QED
    BY <2>1, <2>2, <2>3, <2>4, <2>5
<1>6. CASE HandleGone
  <2>1. TypeOK'
    BY <1>6, DelayCount DEF HandleGone, Return, TypeOK, Steps, Results,
       Replies, TransportRetryLimit
  <2>2. Counting'
    BY <1>6, <1>a, DelayCount DEF HandleGone, Return, Counting,
       TransportRetryLimit
  <2>3. Timing'
    BY <1>6, <1>a, <1>b, <1>c DEF HandleGone, Return, Timing, LastTime
  <2>4. Gone'
    BY <1>6 DEF HandleGone, Return, TypeOK, Gone, Waiting
  <2>5. Waiting'
    BY <1>6, <1>a DEF HandleGone, Return, Waiting
  <2> QED
    BY <2>1, <2>2, <2>3, <2>4, <2>5
<1>7. CASE HandleFinal
  <2>1. TypeOK'
    BY <1>7, DelayCount DEF HandleFinal, Return, TypeOK, Steps, Results,
       Replies, TransportRetryLimit
  <2>2. Counting'
    BY <1>7, <1>a, DelayCount DEF HandleFinal, Return, Counting,
       TransportRetryLimit
  <2>3. Timing'
    BY <1>7, <1>a, <1>b, <1>c DEF HandleFinal, Return, Timing, LastTime
  <2>4. Gone'
    BY <1>7 DEF HandleFinal, Return, TypeOK, Gone, Waiting
  <2>5. Waiting'
    BY <1>7, <1>a DEF HandleFinal, Return, Waiting
  <2> QED
    BY <2>1, <2>2, <2>3, <2>4, <2>5
<1>8. CASE HandleTransport
  <2>c. pc = "answered" /\ transports <= 2
    BY <1>8 DEF HandleTransport, Counting, TransportRetryLimit
  <2>a. transports < 3 /\ DestroyRetryDelays[transports + 1] \in Nat
    BY <1>a, <2>c, DelayTable
  <2>b. Elapsed[coded + 1] \in Nat
    BY <1>8, <1>a, DelayTable, DelayCount DEF HandleTransport, Counting
  <2>1. TypeOK'
    BY <1>8, <2>a, <2>b, DelayCount DEF HandleTransport, Return,
       SleepOrGiveUp, TypeOK, Steps, Results, Replies,
       TransportRetryLimit
  <2>2. Counting'
    BY <1>8, <2>a, <2>b, <1>a, DelayCount DEF HandleTransport, Return,
       SleepOrGiveUp, Counting, TransportRetryLimit
  <2>3. Timing'
    BY <1>8, <2>a, <2>b, <1>a, <1>b, <1>c DEF HandleTransport, Return,
       SleepOrGiveUp, Timing, LastTime
  <2>4. Gone'
    BY <1>8, <2>a, <2>b DEF HandleTransport, Return, SleepOrGiveUp,
       TypeOK, Gone, Waiting
  <2>5. Waiting'
    BY <1>8, <2>a, <2>b, <1>a DEF HandleTransport, Return,
       SleepOrGiveUp, Waiting
  <2> QED
    BY <2>1, <2>2, <2>3, <2>4, <2>5
<1>9. CASE HandleCoded
  <2>a. /\ coded < 6
        /\ DestroyRetryDelays[coded + 1] \in Nat /\ Elapsed[coded + 1] \in Nat
        /\ Len(DestroyRetryDelays) = 6
        /\ Elapsed[coded + 2] = Elapsed[coded + 1] + DestroyRetryDelays[coded + 1]
    BY <1>9, <1>a, DelayTable, DelayCount DEF HandleCoded, Counting
  <2>1. TypeOK'
    BY <1>9, <2>a, DelayCount DEF HandleCoded, Longer, Return, SleepOrGiveUp,
       TypeOK, Steps, Results, Replies, TransportRetryLimit
  <2>2. Counting'
    <3>1. PICK delay \in Nat :
            /\ DestroyRetryDelays[coded + 1] <= delay
            /\ SleepOrGiveUp(delay)
      BY <1>9, <1>a, <2>a DEF HandleCoded, Longer
    <3>2. /\ coded' = coded + 1
          /\ UNCHANGED <<now, attempts, transports>>
          /\ pc = "answered"
      BY <1>9, <1>a, <2>a DEF HandleCoded
    <3>3. Elapsed[coded' + 1] = Elapsed[coded + 1] + DestroyRetryDelays[coded + 1]
      BY <1>a, <2>a, <3>2
    <3>4. pc' = "backoff" => wake' = now + delay
      BY <3>1 DEF SleepOrGiveUp, Return
    <3>5. pc' \in {"backoff", "returned"}
      BY <3>1 DEF SleepOrGiveUp, Return
    <3>6. attempts = 1 + coded + transports /\ Elapsed[coded + 1] <= now
          /\ transports <= 2 /\ attempts <= 8
      BY <3>2 DEF Counting, TransportRetryLimit
    <3>7. pc' = "backoff" => Elapsed[coded' + 1] <= wake'
      BY <1>a, <2>a, <3>1, <3>3, <3>4, <3>6
    <3> QED
      BY <1>a, <3>2, <3>5, <3>6, <3>7 DEF Counting, TransportRetryLimit
  <2>3. Timing'
    <3>1. PICK delay \in Nat : SleepOrGiveUp(delay)
      BY <1>9, <1>a, <2>a DEF HandleCoded, Longer
    <3>2. UNCHANGED <<now, inner>>
      BY <1>9 DEF HandleCoded
    <3> QED
      BY <1>a, <1>b, <1>c, <3>1, <3>2 DEF SleepOrGiveUp, Return, Timing, LastTime
  <2>4. Gone'
    BY <1>9, <2>a DEF HandleCoded, Longer, Return, SleepOrGiveUp, TypeOK, Gone,
       Waiting
  <2>5. Waiting'
    BY <1>9, <2>a, <1>a DEF HandleCoded, Longer, Return, SleepOrGiveUp, Waiting
  <2> QED
    BY <2>1, <2>2, <2>3, <2>4, <2>5
<1>10. ASSUME NEW late \in Lateness, Wake(late) PROVE IInv'
  <2>a. late \in Nat /\ late <= MaxLateness /\ Elapsed[coded + 1] \in Nat
    BY <1>a, DelayTable, DelayEnds
  <2>1. TypeOK'
    BY <1>10, <2>a, DelayCount DEF Wake, TypeOK, Steps, Results,
       Replies, TransportRetryLimit, Timing
  <2>2. Counting'
    <3>1. /\ UNCHANGED <<attempts, coded, transports>>
          /\ pc = "limited" => pc' = "send"
          /\ pc = "backoff" => pc' = "top"
          /\ pc \in {"limited", "backoff"} /\ now' = wake + late
      BY <1>10 DEF Wake
    <3>2. pc = "backoff" => Elapsed[coded + 1] <= now'
      BY <1>a, <2>a, <3>1 DEF Counting
    <3>3. pc = "limited" => now <= now'
      BY <1>a, <2>a, <3>1 DEF Timing
    <3> QED BY <1>a, <2>a, <3>1, <3>2, <3>3 DEF Counting
  <2>3. Timing'
    <3>1. CASE pc = "limited"
      <4>1. /\ pc' = "send" /\ inner' = inner + 1 /\ now' = wake + late
            /\ inner < Retries
        BY <1>10, <3>1 DEF Wake, Timing
      <4>2. now' <= Spent(inner) + ResendTime
        BY <1>a, <1>b, <1>c, <2>a, <3>1, <4>1 DEF Timing
      <4>3. now' <= LastTime
        BY <1>a, <1>b, <1>c, <2>a, <4>1, <4>2
      <4> QED BY <1>b, <4>1, <4>2, <4>3 DEF Timing, LastTime
    <3>2. CASE pc = "backoff"
      <4>1. pc' = "top" /\ now' = wake + late /\ attempts' = attempts /\ attempts > 0
        BY <1>10, <3>2 DEF Wake, Counting
      <4>2. now' <= DestroyDeadline + MaxLateness /\ now' <= LastTime
        BY <1>a, <1>b, <1>c, <2>a, <3>2, <4>1 DEF Timing
      <4> QED BY <1>a, <4>1, <4>2 DEF Timing, LastTime
    <3> QED BY <1>10, <3>1, <3>2 DEF Wake
  <2>4. Gone'
    BY <1>10, <2>a DEF Wake, TypeOK, Gone, Waiting
  <2>5. Waiting'
    BY <1>10, <2>a, <1>a DEF Wake, Waiting
  <2> QED
    BY <2>1, <2>2, <2>3, <2>4, <2>5
<1>11. ASSUME NEW late \in Lateness, SleepCut(late) PROVE IInv'
  <2>a. late \in Nat /\ late <= MaxLateness
    OBVIOUS
  <2>1. TypeOK'
    BY <1>11, <2>a, DelayCount DEF SleepCut, Return, TypeOK, Steps,
       Results, Replies, TransportRetryLimit
  <2>2. Counting'
    BY <1>11 DEF SleepCut, Return, Counting
  <2>3. Timing'
    <3>1. pc' = "returned" /\ now' <= wake + late
      BY <1>11, <1>a, <2>a DEF SleepCut, Return
    <3>2. CASE pc = "limited"
      <4>1. now' <= Spent(inner) + ResendTime /\ inner < Retries
        BY <1>11, <1>a, <1>b, <1>c, <2>a, <3>1, <3>2 DEF Timing, SleepCut
      <4>2. now' <= LastTime
        BY <1>11, <1>a, <1>b, <1>c, <4>1 DEF SleepCut
      <4> QED BY <3>1, <4>2 DEF Timing, LastTime
    <3>3. CASE pc = "backoff"
      <4>1. now' <= LastTime
        BY <1>11, <1>a, <1>b, <1>c, <2>a, <3>1, <3>3 DEF Timing, SleepCut
      <4> QED BY <3>1, <4>1 DEF Timing, LastTime
    <3> QED BY <1>11, <3>2, <3>3 DEF SleepCut
  <2>4. Gone'
    BY <1>11, <2>a DEF SleepCut, Return, TypeOK, Gone, Waiting
  <2>5. Waiting'
    BY <1>11, <2>a, <1>a DEF SleepCut, Return, Waiting
  <2> QED
    BY <2>1, <2>2, <2>3, <2>4, <2>5
<1>12. CASE UNCHANGED vars
    BY <1>12 DEF vars, TypeOK, Counting, Timing, Gone, Waiting
<1> QED
    BY <1>1, <1>2, <1>3, <1>4, <1>5, <1>6, <1>7, <1>8, <1>9, <1>10,
       <1>11, <1>12 DEF DestroyStep

(* Whatever context the caller brings.                                     *)
THEOREM NextIInv == IInv /\ [Next]_vars => IInv'
BY ConstantsAssumption, StepIInv DEF Next, Done

(* IInv holds of every reachable state of destroy's loop.                  *)
THEOREM Invariant == Spec => []IInv
BY InitIInv, NextIInv, PTL DEF Spec

(* The loop's state stays in its types: the indices into the table of      *)
(* delays and the three counters never leave their ranges.                 *)
THEOREM TypeCorrect == Spec => []TypeOK
<1>1. IInv => TypeOK
  BY DEF IInv
<1> QED BY <1>1, Invariant, PTL

(* destroy returns nil only for a sandbox that is gone.                    *)
THEOREM NilGone == Spec => []NilMeansGone
<1>1. IInv => NilMeansGone
  BY DEF IInv, Gone, NilMeansGone
<1> QED BY <1>1, Invariant, PTL

(* destroy makes at most eight attempts, whatever the service answers and  *)
(* however long it takes, and overruns its deadline by no more than the    *)
(* resends of its last attempt and a late wake-up.                         *)
THEOREM Bounded == Spec => []DestroyBounded
<1>1. IInv => DestroyBounded
  BY DEF IInv, Counting, Timing, DestroyBounded
<1> QED BY <1>1, Invariant, PTL

(* No DELETE is sent before the time the service asked for.                *)
THEOREM RetryAfterHonoured == Spec => HonoursRetryAfter
<1>1. IInv /\ [Next]_vars => [sent' > sent => now >= notBefore]_vars
  <2> SUFFICES ASSUME IInv, Next, sent' > sent PROVE now >= notBefore
    BY DEF vars
  <2>1. pc = "send"
    <3>1. sent \in Nat
      BY DEF IInv, TypeOK
    <3>2. sent' # sent
      BY <3>1
    <3> QED
      BY <3>2 DEF Next, DestroyStep, Done, vars, Start, Top, Exchange, ExchangeCut,
         HandleLimited, HandleGone, HandleFinal, HandleTransport, HandleCoded,
         Wake, SleepCut
  <2> QED BY <2>1 DEF IInv, Waiting, TypeOK
<1> QED BY <1>1, Invariant, PTL DEF Spec, HonoursRetryAfter

-----------------------------------------------------------------------------
(* WithSandbox: the start of the destruction, and what it keeps.           *)

(* Before the destruction starts, the sandbox may come and go.             *)
LEMMA CleanupIdle ==
  ASSUME IInv, pc = "idle", remote' \in {"present", "gone"},
         UNCHANGED <<pc, ctxEnd, now, attempts, inner, coded, transports, reply,
                     wake, result, sent, notBefore>>
  PROVE  IInv'
BY DEF IInv, TypeOK, Counting, Timing, Gone,
       Waiting

(* A step of the loop keeps to its context, and the first one that leaves  *)
(* the loop's head puts a DELETE on the wire.                              *)
LEMMA CleanupStepKeeps ==
  ASSUME IInv, Clock, FirstDelete, pc # "idle", DestroyStep
  PROVE  Clock' /\ FirstDelete' /\ pc' # "idle"
<1> USE ConstantsAssumption DEF CleanupTime, Clock, FirstDelete
<1>a. /\ now \in Nat /\ wake \in Nat /\ sent \in Nat /\ attempts \in Nat
      /\ ctxEnd = 30000 /\ MaxLateness \in Nat
      /\ now <= 30000 + MaxLateness
      /\ pc \in {"answered", "limited", "backoff"} => now < 30000 /\ sent > 0
  BY DEF IInv, TypeOK
<1>1. CASE Top
  BY <1>a, <1>1 DEF Top, Return
<1>2. ASSUME NEW d \in Durations, NEW kind \in Replies,
             NEW after \in RetryAfters \cup {0}, Exchange(d, kind, after)
      PROVE  Clock' /\ FirstDelete' /\ pc' # "idle"
  BY <1>a, <1>2 DEF Exchange
<1>3. ASSUME NEW d \in Durations, ExchangeCut(d)
      PROVE  Clock' /\ FirstDelete' /\ pc' # "idle"
  BY <1>a, <1>3 DEF ExchangeCut, Return
<1>4. CASE HandleLimited
  BY <1>a, <1>4 DEF HandleLimited
<1>5. CASE HandleGone \/ HandleFinal
  BY <1>a, <1>5 DEF HandleGone, HandleFinal, Return
<1>6. CASE HandleTransport \/ HandleCoded
  <2>1. /\ pc = "answered" /\ pc' \in {"backoff", "returned"}
        /\ UNCHANGED <<now, ctxEnd, sent>>
    BY <1>6 DEF HandleTransport, HandleCoded, SleepOrGiveUp,
                Return
  <2> QED BY <1>a, <2>1
<1>7. ASSUME NEW late \in Lateness, Wake(late)
      PROVE  Clock' /\ FirstDelete' /\ pc' # "idle"
  <2>1. late \in Nat /\ late <= MaxLateness
    OBVIOUS
  <2>2. /\ pc \in {"limited", "backoff"} /\ pc' \in {"send", "top"}
        /\ wake < ctxEnd /\ now' = wake + late
        /\ UNCHANGED <<ctxEnd, sent>>
    BY <1>7 DEF Wake
  <2> QED BY <1>a, <2>1, <2>2
<1>8. ASSUME NEW late \in Lateness, SleepCut(late)
      PROVE  Clock' /\ FirstDelete' /\ pc' # "idle"
  BY <1>a, <1>8 DEF SleepCut, Return
<1> QED
  BY <1>1, <1>2, <1>3, <1>4, <1>5, <1>6, <1>7, <1>8 DEF DestroyStep

-----------------------------------------------------------------------------
(* The invariant.                                                          *)

(* Nothing has been created: the invariant holds.                          *)
THEOREM SandboxInitial == SandboxInit => SandboxIInv
<1> SUFFICES ASSUME SandboxInit PROVE SandboxIInv
  OBVIOUS
<1>1. IInv
  BY InitIInv DEF SandboxInit
<1>2. /\ pc = "idle" /\ now = 0 /\ phase = "create" /\ callback = "none"
      /\ err = {} /\ cancelled = FALSE
  BY DEF SandboxInit, Init
<1>3. SandboxTypeOK
  BY <1>1, <1>2 DEF SandboxTypeOK, IInv
<1>4. Clock
  BY <1>2, ConstantsAssumption DEF Clock, CleanupTime
<1>5. Sequenced /\ FirstDelete /\ Joined
  BY <1>2 DEF Sequenced, FirstDelete, Joined, OwnError, Ends
<1> QED
  BY <1>1, <1>3, <1>4, <1>5 DEF SandboxIInv

(* Creating, running the callback, destroying and joining the errors       *)
(* preserve it, whenever the caller's context ends.                        *)
THEOREM SandboxPreserved == SandboxIInv /\ [SandboxNext]_sandboxVars => SandboxIInv'
<1> SUFFICES ASSUME SandboxIInv, [SandboxNext]_sandboxVars PROVE SandboxIInv'
  OBVIOUS
<1>a. ASSUME IInv' PROVE TypeOK'
  BY <1>a DEF IInv
<1>1. CASE CreateSucceeds
  <2>1. IInv'
    BY <1>1, CleanupIdle DEF CreateSucceeds, SandboxIInv, Sequenced
  <2> QED
    BY <1>1, <1>a, <2>1
    DEF CreateSucceeds, SandboxIInv, SandboxTypeOK, Sequenced, Clock, FirstDelete, Joined,
        OwnError, Ends
<1>2. CASE CreateFails
  <2>1. IInv'
    BY <1>2, CleanupIdle DEF CreateFails, SandboxIInv, Sequenced
  <2> QED
    BY <1>2, <1>a, <2>1
    DEF CreateFails, SandboxIInv, SandboxTypeOK, Sequenced, Clock, FirstDelete, Joined,
        OwnError, Ends, Failures
<1>3. ASSUME NEW outcome \in {"nil", "error", "panic"}, CallbackEnds(outcome)
      PROVE  SandboxIInv'
  <2>1. remote' \in {"present", "gone"}
    BY <1>3 DEF CallbackEnds, SandboxIInv, IInv, TypeOK
  <2>2. IInv'
    BY <1>3, <2>1, CleanupIdle DEF CallbackEnds, SandboxIInv, Sequenced
  <2> QED
    BY <1>3, <1>a, <2>2
    DEF CallbackEnds, SandboxIInv, SandboxTypeOK, Sequenced, Clock, FirstDelete, Joined,
        OwnError, Ends, Failures
<1>4. CASE CleanupStart
  <2>1. IInv'
    BY <1>4, StepIInv DEF CleanupStart, CleanupTime, SandboxIInv
  <2>2. attempts = 0 /\ now = 0
    BY <1>4 DEF CleanupStart, SandboxIInv, Sequenced, IInv, Counting
  <2> QED
    BY <1>4, <1>a, <2>1, <2>2
    DEF CleanupStart, Start, SandboxIInv, SandboxTypeOK, Sequenced, Clock, FirstDelete,
        Joined, OwnError, Ends
<1>5. CASE CleanupStep
  <2>1. IInv'
    BY <1>5, StepIInv DEF CleanupStep, SandboxIInv
  <2>2. Clock' /\ FirstDelete' /\ pc' # "idle"
    BY <1>5, CleanupStepKeeps DEF CleanupStep, SandboxIInv, Sequenced
  <2> QED
    BY <1>5, <1>a, <2>1, <2>2
    DEF CleanupStep, ownVars, SandboxIInv, SandboxTypeOK, Sequenced, Joined, OwnError, Ends
<1>6. CASE Finish
  <2>1. IInv'
    BY <1>6
    DEF Finish, vars, SandboxIInv, IInv, TypeOK, Counting,
        Timing, Gone, Waiting
  <2> QED
    BY <1>6, <1>a, <2>1
    DEF Finish, vars, SandboxIInv, SandboxTypeOK, Sequenced, Clock, FirstDelete, Joined,
        OwnError, Ends, Failures
<1>7. CASE Cancel \/ UNCHANGED sandboxVars
  <2>1. UNCHANGED <<phase, callback, err, vars>> /\ cancelled' \in BOOLEAN
    BY <1>7 DEF Cancel, sandboxVars, ownVars, SandboxIInv, SandboxTypeOK
  <2>2. IInv'
    BY <2>1
    DEF vars, SandboxIInv, IInv, TypeOK, Counting,
        Timing, Gone, Waiting
  <2> QED
    BY <1>a, <2>1, <2>2
    DEF vars, SandboxIInv, SandboxTypeOK, Sequenced, Clock, FirstDelete, Joined,
        OwnError, Ends
<1> QED
  BY <1>1, <1>2, <1>3, <1>4, <1>5, <1>6, <1>7 DEF SandboxNext, Ended

(* SandboxIInv holds of every reachable state of WithSandbox.                     *)
THEOREM SandboxInvariant == SandboxSpec => []SandboxIInv
BY SandboxInitial, SandboxPreserved, PTL DEF SandboxSpec

(* A sandbox that is left behind is always reported.                       *)
THEOREM NoLeak == SandboxSpec => []NoSilentLeak
<1>1. SandboxIInv => NoSilentLeak
  BY DEF SandboxIInv, SandboxTypeOK, Sequenced, Joined, OwnError, Ends, NoSilentLeak, IInv, Gone
<1> QED BY <1>1, SandboxInvariant, PTL

(* The callback's error and the destruction's reach the caller together.   *)
THEOREM BothErrors == SandboxSpec => []ErrorsKept
<1>1. SandboxIInv => ErrorsKept
  BY DEF SandboxIInv, Joined, OwnError, Ends, ErrorsKept
<1> QED BY <1>1, SandboxInvariant, PTL

(* The cleanup ends with its own 30-second deadline, and a sandbox that    *)
(* was created is asked to go at least once by then.                       *)
THEOREM CleanupDetached == SandboxSpec => []DetachedCleanup
<1>1. SandboxIInv => now <= CleanupTime + MaxLateness
  BY DEF SandboxIInv, Clock
<1>2. SandboxIInv => (phase \in Ends /\ callback # "none" => sent > 0)
  BY DEF SandboxIInv, Sequenced, FirstDelete, Ends
<1>3. SandboxIInv => DetachedCleanup
  BY <1>1, <1>2 DEF DetachedCleanup
<1> QED BY <1>3, SandboxInvariant, PTL

(* The state of WithSandbox, the loop's included, keeps its types.         *)
THEOREM SandboxTypes == SandboxSpec => []SandboxTypeOK
<1>1. SandboxIInv => SandboxTypeOK
  BY DEF SandboxIInv
<1> QED BY <1>1, SandboxInvariant, PTL

-----------------------------------------------------------------------------
(* The abstract specification.                                             *)

(* A step of the destruction takes the sandbox away or leaves it alone.    *)
LEMMA CleanupTakesAway ==
  ASSUME IInv, DestroyStep
  PROVE  remote' \in {remote, "gone"}
BY DEF DestroyStep, Top, Exchange, ExchangeCut, Outcome, HandleLimited, HandleGone,
       HandleFinal, HandleTransport, HandleCoded, Wake, SleepCut

(* Every step of WithSandbox is a step of ScopedUse, or changes nothing    *)
(* that it speaks of.                                                      *)
LEMMA StepScoped ==
  ASSUME SandboxIInv, [SandboxNext]_sandboxVars
  PROVE  [Scoped!Next]_Scoped!vars
<1>1. CASE CreateSucceeds
  <2>1. callback = "none"
    BY <1>1 DEF SandboxIInv, Sequenced, CreateSucceeds
  <2>. QED  BY <1>1, <2>1 DEF CreateSucceeds, Stage, Report, Ends, Scoped!Next, Scoped!Open
<1>2. CASE CreateFails
  <2>1. callback = "none"
    BY <1>2 DEF SandboxIInv, Sequenced, CreateFails
  <2>. QED  BY <1>2, <2>1 DEF CreateFails, Stage, Report, Ends, Scoped!Next, Scoped!Fail
<1>3. ASSUME NEW outcome \in {"nil", "error", "panic"}, CallbackEnds(outcome)
      PROVE  Scoped!Next
  <2>1. CASE outcome = "panic"
    BY <1>3, <2>1 DEF CallbackEnds, Stage, Report, Ends, Scoped!Next, Scoped!Panic
  <2>2. CASE outcome # "panic"
    BY <1>3, <2>2 DEF CallbackEnds, Stage, Report, Ends, Scoped!Next, Scoped!Leave
  <2>. QED  BY <2>1, <2>2
<1>4. CASE CleanupStart
  BY <1>4 DEF CleanupStart, Start, Stage, Report, Ends, Scoped!vars
<1>5. CASE CleanupStep
  <2>1. remote' \in {remote, "gone"}
    BY <1>5, CleanupTakesAway DEF CleanupStep, SandboxIInv
  <2>. QED  BY <1>5, <2>1
            DEF CleanupStep, ownVars, Stage, Report, Ends,
                Scoped!Next, Scoped!Vanish, Scoped!vars
<1>6. CASE Finish
  <2>1. result = "nil" => remote = "gone"
    BY DEF SandboxIInv, IInv, Gone
  <2>2. UNCHANGED remote
    BY <1>6 DEF Finish, vars
  <2>3. CASE callback = "panic"
    BY <1>6, <2>2, <2>3 DEF Finish, Stage, Report, Ends, Scoped!Next, Scoped!GoOn
  <2>4. CASE callback # "panic"
    BY <1>6, <2>1, <2>2, <2>4 DEF Finish, Stage, Report, Ends, Scoped!Next, Scoped!Close
  <2>. QED  BY <2>3, <2>4
<1>7. CASE Cancel \/ UNCHANGED sandboxVars
  BY <1>7 DEF Cancel, sandboxVars, ownVars, vars, Stage, Report, Scoped!vars
<1>. QED
  BY <1>1, <1>2, <1>3, <1>4, <1>5, <1>6, <1>7 DEF SandboxNext, Ended

(* What the caller of WithSandbox sees is a sandbox that is there while    *)
(* the callback runs, and which afterwards is gone or reported; after a    *)
(* panic it sees the panic alone, and the sandbox may have stayed behind.  *)
THEOREM SandboxImplementation == SandboxSpec => ImplementsScopedUse
<1>1. SandboxInit => Scoped!Init
  BY DEF SandboxInit, Stage, Report, Ends, Scoped!Init
<1>. QED  BY <1>1, StepScoped, SandboxInvariant, PTL
          DEF SandboxSpec, ImplementsScopedUse, Scoped!Spec
=============================================================================
