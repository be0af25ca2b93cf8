---------------------------- MODULE RetryPolicy ----------------------------
(***************************************************************************)
(* The retry policy of client.go: which calls the SDK may send again, on   *)
(* which answers, and how long it waits between two attempts.  The module  *)
(* holds constant operators only; the state machines are built from them.  *)
(*                                                                         *)
(* A call site is a record: the HTTP method, the route (the path with its  *)
(* identifiers replaced by {id} and its query dropped, which is all the    *)
(* two regular expressions look at) and whether the caller wants the body  *)
(* of the answer decoded (requestInto's output # nil).                     *)
(***************************************************************************)
EXTENDS Integers, Sequences

CallSite == [method : {"GET", "HEAD", "PUT", "POST", "PATCH", "DELETE"},
             route  : STRING,
             output : BOOLEAN]

(* replayablePattern: the POST routes that create something under an       *)
(* idempotency key.                                                        *)
KeyedRoutes ==
  { "/v1/sandboxes", "/v1/sandboxes/async", "/v1/run", "/v1/volumes",
    "/v1/environments", "/v1/snapshots/{id}/replicas",
    "/v1/sandboxes/{id}/fork", "/v1/sandboxes/{id}/snapshots",
    "/v1/sandboxes/{id}/previews", "/v1/sandboxes/{id}/fanout" }

(* idempotentPostPattern: the POST route re-sent without a key.            *)
IdempotentPostRoutes == { "/v1/sandboxes/{id}/resume" }

(* Variants of the definitions below, named after the mistake: what a run  *)
(* is expected to notice.                                                  *)
ReplayableAnyPost(site) == site.method \in {"GET", "HEAD", "POST"}

(* replayable(method, path): may a failed call be sent again although the  *)
(* failed attempt may have been executed?                                  *)
Replayable(site) ==
  \/ site.method \in {"GET", "HEAD"}
  \/ site.method = "PUT" /\ site.route = "/v1/sandboxes"
  \/ site.method = "POST" /\ site.route \in KeyedRoutes \cup IdempotentPostRoutes

(* The call sites for which requestInto draws an idempotency key when the  *)
(* caller gave none.                                                       *)
GeneratesKey(site) == site.method = "POST" /\ site.route \in KeyedRoutes

(* The answers requestInto tells apart:                                    *)
(*   "ok"        2xx whose body is empty or decodes                        *)
(*   "malformed" 2xx whose body does not decode into the output            *)
(*   "limited"   429                                                       *)
(*   "failed"    500, 502, 503, 504                                        *)
(*   "inflight"  another status whose error code is                        *)
(*               idempotency_key_in_flight or reattach_in_flight           *)
(*   "refused"   any other status                                          *)
Answers == {"ok", "malformed", "limited", "failed", "inflight", "refused"}

Success == {"ok", "malformed"}

(* retryable(status, body)                                                 *)
Retryable(answer) == answer \in {"limited", "failed", "inflight"}

(* CanRetry that re-sends every call, and CanRetry with one attempt more.  *)
CanRetryAnyRetryable(site, answer, attempt, retries) ==
  attempt < retries /\ Retryable(answer)

CanRetryOnceMore(site, answer, attempt, retries) ==
  /\ attempt <= retries
  /\ answer = "limited" \/ (Replayable(site) /\ Retryable(answer))

(* canRetry: attempts are numbered from 0, retries is the configured bound.*)
CanRetry(site, answer, attempt, retries) ==
  /\ attempt < retries
  /\ \/ answer = "limited"
     \/ Replayable(site) /\ Retryable(answer)

(* The same decision after a transport error or an unreadable body.        *)
CanRetryTransport(site, attempt, retries) ==
  attempt < retries /\ Replayable(site)

MaxDelay == 8000

Backoffs == <<250, 500, 1000, 2000, 4000>>

(* 250ms are 2^7 * 5^9 nanoseconds, and 250ms * 2^attempt are              *)
(* 5^9 * 2^(7 + attempt), of which a Duration keeps 64 bits.  From attempt *)
(* 36 on that cuts into 5^9: Kept is what is left of it, and the highest   *)
(* of its 57 - attempt bits is the sign.                                   *)
Overflow == 36

Kept(attempt) == IF attempt <= 56 THEN 1953125 % 2^(57 - attempt) ELSE 0

Positive(attempt) == Kept(attempt) # 0 /\ Kept(attempt) < 2^(56 - attempt)

(* The exponential part of retryDelay in milliseconds.  A delay that is    *)
(* not positive is no delay.                                               *)
Exponential(attempt) ==
  CASE attempt < Len(Backoffs)                         -> Backoffs[attempt + 1]
    [] attempt >= Len(Backoffs) /\ attempt < Overflow  -> MaxDelay
    [] attempt >= Overflow /\ Positive(attempt)        -> MaxDelay
    [] OTHER                                           -> 0

Longer(d, e) == IF d > e THEN d ELSE e

(* What a Retry-After counts for: no more than the cap.                    *)
Capped(after) == IF after > MaxDelay THEN MaxDelay ELSE after

(* retryDelay(attempt, retryAfter): a Retry-After longer than the backoff  *)
(* replaces it, up to the same cap; retryAfter = 0 stands for an absent,   *)
(* unreadable or negative header, and for one beyond what a Duration holds *)
(* where that converts to a negative one.                                  *)
RetryDelay(attempt, retryAfter) == Longer(Capped(retryAfter), Exponential(attempt))
=============================================================================
