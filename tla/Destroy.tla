------------------------------ MODULE Destroy ------------------------------
(***************************************************************************)
(* transport.destroy of client.go: the DELETE of a sandbox, repeated on    *)
(* ambiguous failures under a deadline, a table of delays and two retry    *)
(* counters, on top of requestInto, whose own loop re-sends a DELETE only  *)
(* on 429.  Time is in milliseconds since the call.                        *)
(*                                                                         *)
(* The environment is the service, which may be done with the sandbox or   *)
(* not when it fails, the network, the context, which ends at ctxEnd, and  *)
(* the scheduler, which may wake a sleeper late.                           *)
(***************************************************************************)
EXTENDS RetryPolicy

CONSTANTS Retries,     \* t.retries, the 429 resends inside one attempt
          Durations,   \* how long one HTTP exchange may take
          MaxDuration, \* the longest of them
          RetryAfters, \* what a Retry-After may ask for
          Lateness,    \* how late a sleeper may be woken
          MaxLateness, \* the latest
          CtxEnds      \* when the caller's context may end

ASSUME ConstantsAssumption ==
  /\ Retries \in Nat
  /\ RetryAfters \subseteq Nat
  /\ CtxEnds \subseteq Nat
  /\ MaxDuration \in Nat /\ Durations \subseteq 0 .. MaxDuration
  /\ MaxLateness \in Nat /\ Lateness \subseteq 0 .. MaxLateness

DestroyDeadline     == 61000
DestroyRetryDelays  == <<1000, 2000, 4000, 8000, 16000, 30000>>
TransportRetryLimit == 2

VARIABLES
  pc,         \* where the call is
  ctxEnd,     \* when its context ends
  now,        \* the clock
  attempts,   \* requestInto calls so far
  inner,      \* the loop counter of the current requestInto
  coded,      \* codedRetries
  transports, \* transportRetries
  reply,      \* what the last exchange ended with, and its Retry-After
  wake,       \* when the current sleep is due
  result,     \* what destroy returned
  sent,       \* DELETE requests put on the wire
  notBefore,  \* the service asked not to be called before this time
  remote      \* the sandbox, at the service

vars == <<pc, ctxEnd, now, attempts, inner, coded, transports, reply, wake,
          result, sent, notBefore, remote>>

Steps   == {"idle", "top", "send", "answered", "limited", "backoff", "returned"}
Results == {"none", "nil", "refused", "exhausted", "cancelled"}

(* How an exchange ends: 2xx, 404, 429, 504 with one of the codes of       *)
(* destroyRetryableCodes, any other status, a connection error, the        *)
(* http.Client's own timeout.                                              *)
Replies == {"ok", "notfound", "limited", "coded", "refused", "transport", "timeout"}

TypeOK ==
  /\ pc \in Steps
  /\ ctxEnd \in Nat
  /\ now \in Nat
  /\ attempts \in Nat
  /\ inner \in 0 .. Retries
  /\ coded \in 0 .. Len(DestroyRetryDelays)
  /\ transports \in 0 .. TransportRetryLimit + 1
  /\ reply \in [kind : Replies, after : Nat]
  /\ wake \in Nat
  /\ result \in Results
  /\ sent \in Nat
  /\ notBefore \in Nat
  /\ remote \in {"present", "gone"}

Init ==
  /\ pc = "idle"
  /\ ctxEnd = 0
  /\ now = 0
  /\ attempts = 0
  /\ inner = 0
  /\ coded = 0
  /\ transports = 0
  /\ reply = [kind |-> "ok", after |-> 0]
  /\ wake = 0
  /\ result = "none"
  /\ sent = 0
  /\ notBefore = 0
  /\ remote \in {"present", "gone"}

-----------------------------------------------------------------------------
Start(end) ==
  /\ pc = "idle"
  /\ pc' = "top"
  /\ ctxEnd' = end
  /\ UNCHANGED <<now, attempts, inner, coded, transports, reply, wake, result,
                 sent, notBefore, remote>>

Return(r) ==
  /\ pc' = "returned"
  /\ result' = r

(* The head of the loop: no attempt but the first starts at or after the   *)
(* deadline.                                                               *)
Top ==
  /\ pc = "top"
  /\ IF attempts > 0 /\ now >= DestroyDeadline
     THEN Return("exhausted") /\ UNCHANGED <<attempts, inner>>
     ELSE /\ pc' = "send"
          /\ attempts' = attempts + 1
          /\ inner' = 0
          /\ UNCHANGED result
  /\ UNCHANGED <<ctxEnd, now, coded, transports, reply, wake, sent, notBefore, remote>>

(* What an end says of the sandbox: 2xx that it is gone now, 404 that it   *)
(* was gone before, 429 that nothing was done; any other leaves it open    *)
(* whether the request was served.                                         *)
Outcome(kind) ==
  /\ remote' \in {remote, "gone"}
  /\ kind = "ok" => remote' = "gone"
  /\ kind = "notfound" => remote = "gone"
  /\ kind = "limited" => remote' = remote

(* One exchange that ends before the context does.  Only a 429 or a coded  *)
(* 504 carries a Retry-After that the loop reads.                          *)
Exchange(d, kind, after) ==
  /\ pc = "send"
  /\ now + d < ctxEnd
  /\ after # 0 => kind \in {"limited", "coded"}
  /\ Outcome(kind)
  /\ pc' = "answered"
  /\ now' = now + d
  /\ sent' = sent + 1
  /\ reply' = [kind |-> kind, after |-> after]
  /\ UNCHANGED <<ctxEnd, attempts, inner, coded, transports, wake, result, notBefore>>

(* The context ends during the exchange, or had ended before it: then      *)
(* nothing is sent.                                                        *)
ExchangeCut(d) ==
  /\ pc = "send"
  /\ now + d >= ctxEnd
  /\ IF now < ctxEnd
     THEN now' = ctxEnd /\ sent' = sent + 1 /\ remote' \in {remote, "gone"}
     ELSE UNCHANGED <<now, sent, remote>>
  /\ Return("cancelled")
  /\ UNCHANGED <<ctxEnd, attempts, inner, coded, transports, reply, wake, notBefore>>

(* HandleLimited without the bound on resends.                             *)
EndlessLimited ==
  /\ pc = "answered"
  /\ reply.kind = "limited"
  /\ pc' = "limited"
  /\ wake' = now + RetryDelay(inner, reply.after)
  /\ notBefore' = now + Capped(reply.after)
  /\ UNCHANGED <<ctxEnd, now, attempts, inner, coded, transports, reply, result, sent, remote>>

(* requestInto re-sends after 429: at most Retries times, without a look   *)
(* at destroy's deadline.                                                  *)
HandleLimited ==
  /\ pc = "answered"
  /\ reply.kind = "limited" /\ inner < Retries
  /\ pc' = "limited"
  /\ wake' = now + RetryDelay(inner, reply.after)
  /\ notBefore' = now + Capped(reply.after)
  /\ UNCHANGED <<ctxEnd, now, attempts, inner, coded, transports, reply, result, sent, remote>>

(* HandleGone that takes any answer below 500 for "not there".             *)
GoneOnRefusal ==
  /\ pc = "answered"
  /\ reply.kind \in {"ok", "notfound", "refused"}
  /\ Return("nil")
  /\ UNCHANGED <<ctxEnd, now, attempts, inner, coded, transports, reply, wake,
                 sent, notBefore, remote>>

HandleGone ==
  /\ pc = "answered"
  /\ reply.kind \in {"ok", "notfound"}
  /\ Return("nil")
  /\ UNCHANGED <<ctxEnd, now, attempts, inner, coded, transports, reply, wake,
                 sent, notBefore, remote>>

(* Errors that are not retried: any answer but a coded 504, the last 429   *)
(* included, and the client's own timeout, which counts as the end of the  *)
(* context (errors.Is(err, context.DeadlineExceeded)).                     *)
HandleFinal ==
  /\ pc = "answered"
  /\ \/ reply.kind = "refused" /\ Return("refused")
     \/ reply.kind = "limited" /\ inner >= Retries /\ Return("refused")
     \/ reply.kind = "timeout" /\ Return("cancelled")
  /\ UNCHANGED <<ctxEnd, now, attempts, inner, coded, transports, reply, wake,
                 sent, notBefore, remote>>

(* Sleep for delay, unless that would cross the deadline.                  *)
SleepOrGiveUp(delay) ==
  IF now + delay > DestroyDeadline
  THEN Return("exhausted") /\ UNCHANGED wake
  ELSE pc' = "backoff" /\ wake' = now + delay /\ UNCHANGED result

(* HandleTransport that compares before it counts.                         *)
LateTransportLimit ==
  /\ pc = "answered"
  /\ reply.kind = "transport"
  /\ IF transports > TransportRetryLimit
     THEN Return("exhausted") /\ UNCHANGED <<transports, wake>>
     ELSE /\ transports' = transports + 1
          /\ SleepOrGiveUp(DestroyRetryDelays[transports + 1])
  /\ UNCHANGED <<ctxEnd, now, attempts, inner, coded, reply, sent, notBefore, remote>>

HandleTransport ==
  /\ pc = "answered"
  /\ reply.kind = "transport"
  /\ transports' = transports + 1
  /\ IF transports + 1 > TransportRetryLimit
     THEN Return("exhausted") /\ UNCHANGED wake
     ELSE SleepOrGiveUp(DestroyRetryDelays[transports + 1])
  /\ UNCHANGED <<ctxEnd, now, attempts, inner, coded, reply, sent, notBefore, remote>>

(* HandleCoded that does not look at Retry-After.                          *)
DeafHandleCoded ==
  /\ pc = "answered"
  /\ reply.kind = "coded"
  /\ IF coded >= Len(DestroyRetryDelays)
     THEN Return("exhausted") /\ UNCHANGED <<coded, wake>>
     ELSE coded' = coded + 1 /\ SleepOrGiveUp(DestroyRetryDelays[coded + 1])
  /\ notBefore' = now + reply.after
  /\ UNCHANGED <<ctxEnd, now, attempts, inner, transports, reply, sent, remote>>

HandleCoded ==
  /\ pc = "answered"
  /\ reply.kind = "coded"
  /\ IF coded >= Len(DestroyRetryDelays)
     THEN Return("exhausted") /\ UNCHANGED <<coded, wake>>
     ELSE /\ coded' = coded + 1
          /\ SleepOrGiveUp(Longer(reply.after, DestroyRetryDelays[coded + 1]))
  /\ notBefore' = now + reply.after
  /\ UNCHANGED <<ctxEnd, now, attempts, inner, transports, reply, sent, remote>>

(* Wake that counts a resend for every sleep.                              *)
WakeCountsTwice(late) ==
  /\ pc \in {"limited", "backoff"}
  /\ wake < ctxEnd
  /\ now' = wake + late
  /\ pc' = IF pc = "limited" THEN "send" ELSE "top"
  /\ inner' = inner + 1
  /\ UNCHANGED <<ctxEnd, attempts, coded, transports, reply, wake, result,
                 sent, notBefore, remote>>

(* A sleep ends: the next resend of this attempt, or the next attempt.     *)
(* When the sleeper is woken after the end of the context as well, the     *)
(* select may still take the timer.                                        *)
Wake(late) ==
  /\ pc \in {"limited", "backoff"}
  /\ wake < ctxEnd
  /\ now' = wake + late
  /\ IF pc = "limited"
     THEN pc' = "send" /\ inner' = inner + 1
     ELSE pc' = "top" /\ UNCHANGED inner
  /\ UNCHANGED <<ctxEnd, attempts, coded, transports, reply, wake, result,
                 sent, notBefore, remote>>

(* The context ends first, or at once with the timer.                      *)
SleepCut(late) ==
  /\ pc \in {"limited", "backoff"}
  /\ ctxEnd <= wake + late
  /\ now' = ctxEnd
  /\ Return("cancelled")
  /\ UNCHANGED <<ctxEnd, attempts, inner, coded, transports, reply, wake,
                 sent, notBefore, remote>>

DestroyStep ==
  \/ Top
  \/ \E d \in Durations, kind \in Replies, after \in RetryAfters \cup {0} :
       Exchange(d, kind, after)
  \/ \E d \in Durations : ExchangeCut(d)
  \/ HandleLimited \/ HandleGone \/ HandleFinal \/ HandleTransport \/ HandleCoded
  \/ \E late \in Lateness : Wake(late) \/ SleepCut(late)

(* destroy has returned.                                                   *)
Done == pc = "returned" /\ UNCHANGED vars

Next == (\E end \in CtxEnds : Start(end)) \/ DestroyStep \/ Done

Spec == Init /\ [][Next]_vars

-----------------------------------------------------------------------------
(* Properties.                                                             *)

(* destroy returns nil only for a sandbox that is gone: neither an         *)
(* ambiguous 504 nor a lost connection is taken for success                *)
(* (client.go:345-360).                                                    *)
NilMeansGone == result = "nil" => remote = "gone"

(* How far destroy may overrun its deadline: by one attempt, with the 429  *)
(* resends that requestInto makes in it, or by one late wake-up.           *)
ResendTime == MaxDuration + MaxDelay + MaxLateness

Overrun == Retries * ResendTime + MaxDuration + MaxLateness

(* The deadline, the table of delays and the two limits together: six      *)
(* attempts after coded answers (the seventh entry into the loop always    *)
(* finds the deadline reached, since the delays add up to it) and two      *)
(* more after connection errors (client.go:289-294, 340-389), and no more  *)
(* time than the deadline and that overrun.                                *)
DestroyBounded ==
  /\ attempts <= 8
  /\ now <= DestroyDeadline + Overrun

(* No DELETE is sent before the time the service asked for, up to the cap  *)
(* of retryDelay on the 429 of an attempt (client.go:316-323, 381-386).    *)
HonoursRetryAfter == [][sent' > sent => now >= notBefore]_vars

(* The inductive invariant behind these properties, by conjuncts.          *)

(* The sum of the first coded delays: the least time that has passed.      *)
Elapsed == <<0, 1000, 3000, 7000, 15000, 31000, 61000>>

(* Each attempt but the first follows a counted failure and its delay, and *)
(* an attempt in progress started before the deadline, hence with a delay  *)
(* of the table to spare.                                                  *)
Counting ==
  /\ pc = "idle" => attempts = 0 /\ coded = 0 /\ transports = 0 /\ now = 0
  /\ pc = "top" => attempts = coded + transports /\ Elapsed[coded + 1] <= now
  /\ pc \in {"send", "answered", "limited"} =>
       /\ attempts = 1 + coded + transports
       /\ Elapsed[coded + 1] <= now
       /\ coded < Len(DestroyRetryDelays)
  /\ pc = "backoff" =>
       /\ attempts = coded + transports /\ attempts > 0
       /\ Elapsed[coded + 1] <= wake
  /\ pc # "returned" => transports <= TransportRetryLimit
  /\ attempts <= 8

(* The clock, against the deadline and the resends made so far.            *)
Spent(resends) == DestroyDeadline + resends * ResendTime

Timing ==
  /\ pc = "idle" => now = 0
  /\ pc = "top" => /\ now <= DestroyDeadline + MaxLateness
                   /\ attempts = 0 => now = 0
  /\ pc = "send" => now <= Spent(inner)
  /\ pc = "answered" => now <= Spent(inner) + MaxDuration
  /\ pc = "limited" => /\ inner < Retries
                       /\ now <= wake
                       /\ wake <= Spent(inner) + MaxDuration + MaxDelay
  /\ pc = "backoff" => now <= wake /\ wake <= DestroyDeadline
  /\ now <= DestroyDeadline + Overrun

(* 2xx and 404 were said of a sandbox that is gone.                        *)
Gone ==
  /\ pc = "answered" /\ reply.kind \in {"ok", "notfound"} => remote = "gone"
  /\ result = "nil" => remote = "gone"

(* No step is taken before the time the service asked for.                 *)
Waiting ==
  /\ pc # "returned" => result = "none"
  /\ pc \in {"limited", "backoff"} => notBefore <= wake
  /\ pc \notin {"limited", "backoff", "returned"} => notBefore <= now

IInv == TypeOK /\ Counting /\ Timing /\ Gone /\ Waiting

(* sdk_test.go:290-308: a service that only answers destroy_incomplete is  *)
(* asked seven times, with six sleeps between, before destroy gives up.    *)
SevenAttempts ==
  (result = "exhausted" /\ coded = Len(DestroyRetryDelays) /\ transports = 0)
    => attempts = 7
=============================================================================
