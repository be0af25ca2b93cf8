----------------------------- MODULE Transport -----------------------------
(***************************************************************************)
(* transport.requestInto of client.go, run by any number of concurrent     *)
(* calls against a service behind an unreliable network.                   *)
(*                                                                         *)
(* The client half is the loop of requestInto: draw an idempotency key     *)
(* once, send, read the answer or the connection's error, decide, sleep,   *)
(* send again.  The other half is the environment the loop is written      *)
(* for: requests are lost, overtaken by their own retry, served after      *)
(* their call has returned, and, when they carry a key, delivered twice    *)
(* (net/http re-sends those on its own); answers are lost with their       *)
(* connection; the service remembers the keys of the work it has done.     *)
(*                                                                         *)
(* A call's generated key is a fresh UUID and is represented by the call.  *)
(***************************************************************************)
EXTENDS RetryPolicy

CONSTANTS Calls,      \* invocations of requestInto
          CallerKeys, \* idempotency keys an application passes
          NoKey,      \* the empty key
          Sites,      \* the call sites the invocations come from
          Cancellable,\* the calls whose context can end before they return
          Retries     \* t.retries

ASSUME RetriesAssumption == Retries \in Nat

ASSUME SitesAssumption == Sites \subseteq CallSite /\ Cancellable \subseteq Calls

(* A UUID never equals a key the application chose.                        *)
ASSUME KeysAssumption ==
  /\ Calls \cap CallerKeys = {}
  /\ NoKey \notin Calls \cup CallerKeys

Ops      == Calls \cup CallerKeys
Attempts == 0 .. Retries
Requests == Calls \X Attempts

NoAnswer  == "none"
NoOutcome == "none"

VARIABLES
  pc,        \* pc[c]: where the loop of call c is
  site,      \* site[c]: the call site c comes from
  key,       \* key[c]: the Idempotency-Key header of c, or NoKey
  attempt,   \* attempt[c]: the loop counter
  cancelled, \* cancelled[c]: c's context is done
  answer,    \* answer[c]: the answer on the connection of c's attempt
  outcome,   \* outcome[c]: what requestInto returned
  net,       \* requests on their way to the service
  executing, \* requests the service is working on
  effects,   \* effects[o]: how many times operation o took effect
  remembered \* keys whose result the service has stored

clientVars  == <<pc, site, key, attempt, cancelled, outcome>>
serviceVars == <<executing, effects, remembered>>
vars == <<pc, site, key, attempt, cancelled, answer, outcome,
          net, executing, effects, remembered>>

Phases   == {"idle", "ready", "waiting", "backoff", "done"}
Outcomes == {"none", "local", "transport", "cancelled", "undecodable", "ok",
             "limited", "failed", "inflight", "refused"}

(* The operation a call stands for: the one its caller's key names, or the *)
(* call itself.                                                            *)
Op(c) == IF key[c] = NoKey THEN c ELSE key[c]

Keyed(c) == key[c] # NoKey

TypeOK ==
  /\ pc \in [Calls -> Phases]
  /\ site \in [Calls -> Sites]
  /\ key \in [Calls -> Ops \cup {NoKey}]
  /\ attempt \in [Calls -> Attempts]
  /\ cancelled \in [Calls -> BOOLEAN]
  /\ answer \in [Calls -> Answers \cup {NoAnswer}]
  /\ outcome \in [Calls -> Outcomes]
  /\ net \subseteq Requests
  /\ executing \subseteq Requests
  /\ effects \in [Ops -> Nat]
  /\ remembered \subseteq Ops

Init ==
  /\ pc = [c \in Calls |-> "idle"]
  /\ site \in [Calls -> Sites]
  /\ key = [c \in Calls |-> NoKey]
  /\ attempt = [c \in Calls |-> 0]
  /\ cancelled = [c \in Calls |-> FALSE]
  /\ answer = [c \in Calls |-> NoAnswer]
  /\ outcome = [c \in Calls |-> NoOutcome]
  /\ net = {}
  /\ executing = {}
  /\ effects = [o \in Ops |-> 0]
  /\ remembered = {}

-----------------------------------------------------------------------------
(* The client: one call of requestInto.                                    *)

(* ChooseKey without the generated key.                                    *)
OnlyCallerKey(c, s, callerKey) == callerKey

(* The key of a call: the caller's, else a fresh one when the route is one *)
(* the service deduplicates, else none.                                    *)
ChooseKey(c, s, callerKey) ==
  IF callerKey = NoKey /\ GeneratesKey(s) THEN c ELSE callerKey

(* The sites that hand an IdempotencyKey of their options to requestInto.  *)
TakesCallerKey(s) ==
  GeneratesKey(s) \/ (s.method = "PUT" /\ s.route = "/v1/sandboxes")

Issue(c) ==
  /\ pc[c] = "idle"
  /\ \E k \in CallerKeys \cup {NoKey} :
       /\ k # NoKey => TakesCallerKey(site[c])
       /\ key' = [key EXCEPT ![c] = ChooseKey(c, site[c], k)]
  /\ pc' = [pc EXCEPT ![c] = "ready"]
  /\ UNCHANGED <<site, attempt, cancelled, answer, outcome, net, serviceVars>>

Return(c, o) ==
  /\ pc' = [pc EXCEPT ![c] = "done"]
  /\ outcome' = [outcome EXCEPT ![c] = o]
  /\ UNCHANGED <<site, key, attempt, cancelled>>

Backoff(c) ==
  /\ pc' = [pc EXCEPT ![c] = "backoff"]
  /\ UNCHANGED <<site, key, attempt, cancelled, outcome>>

(* The key generator, json.Marshal or http.NewRequest failed.              *)
FailLocally(c) ==
  /\ pc[c] = "ready"
  /\ attempt[c] = 0
  /\ Return(c, "local")
  /\ UNCHANGED <<answer, net, serviceVars>>

(* client.Do puts the attempt's request on the wire.                       *)
Send(c) ==
  /\ pc[c] = "ready"
  /\ ~cancelled[c]
  /\ pc' = [pc EXCEPT ![c] = "waiting"]
  /\ net' = net \cup {<<c, attempt[c]>>}
  /\ UNCHANGED <<site, key, attempt, cancelled, answer, outcome, serviceVars>>

(* TransportError of a request that is not tied to the context.            *)
DetachedTransportError(c) ==
  /\ pc[c] = "waiting" /\ ~cancelled[c]
  /\ IF CanRetryTransport(site[c], attempt[c], Retries)
     THEN Backoff(c)
     ELSE Return(c, "transport")
  /\ answer' = [answer EXCEPT ![c] = NoAnswer]
  /\ UNCHANGED <<net, serviceVars>>

(* client.Do failed, or the body could not be read: the connection broke,  *)
(* the context ended while the request was out, or it had ended before.    *)
(* Whether the request is served is unknown, and its answer is lost.       *)
TransportError(c) ==
  /\ \/ pc[c] = "waiting"
     \/ pc[c] = "ready" /\ cancelled[c]
  /\ IF CanRetryTransport(site[c], attempt[c], Retries)
     THEN Backoff(c)
     ELSE Return(c, "transport")
  /\ answer' = [answer EXCEPT ![c] = NoAnswer]
  /\ UNCHANGED <<net, serviceVars>>

(* A 2xx answer: decoded only for a call that asked for its body.          *)
HandleSuccess(c) ==
  /\ pc[c] = "waiting"
  /\ answer[c] \in Success
  /\ Return(c, IF answer[c] = "malformed" /\ site[c].output
               THEN "undecodable" ELSE "ok")
  /\ answer' = [answer EXCEPT ![c] = NoAnswer]
  /\ UNCHANGED <<net, serviceVars>>

(* HandleError that loses the error of the last attempt.                   *)
SwallowError(c) ==
  /\ pc[c] = "waiting"
  /\ answer[c] \in Answers \ Success
  /\ IF CanRetry(site[c], answer[c], attempt[c], Retries)
     THEN Backoff(c)
     ELSE Return(c, "ok")
  /\ answer' = [answer EXCEPT ![c] = NoAnswer]
  /\ UNCHANGED <<net, serviceVars>>

(* Any other answer: retried when the policy allows it, else returned.     *)
HandleError(c) ==
  /\ pc[c] = "waiting"
  /\ answer[c] \in Answers \ Success
  /\ IF CanRetry(site[c], answer[c], attempt[c], Retries)
     THEN Backoff(c)
     ELSE Return(c, answer[c])
  /\ answer' = [answer EXCEPT ![c] = NoAnswer]
  /\ UNCHANGED <<net, serviceVars>>

(* Wake that does not count the attempt.                                   *)
UncountedWake(c) ==
  /\ pc[c] = "backoff"
  /\ pc' = [pc EXCEPT ![c] = "ready"]
  /\ UNCHANGED <<site, key, attempt, cancelled, answer, outcome, net, serviceVars>>

(* The sleep ended: the next attempt.  A timer that fires together with    *)
(* the end of the context may win the select of sleepContext.              *)
Wake(c) ==
  /\ pc[c] = "backoff"
  /\ pc' = [pc EXCEPT ![c] = "ready"]
  /\ attempt' = [attempt EXCEPT ![c] = @ + 1]
  /\ UNCHANGED <<site, key, cancelled, answer, outcome, net, serviceVars>>

(* The context ended during the sleep, and sleepContext said so.           *)
SleepCancelled(c) ==
  /\ pc[c] = "backoff"
  /\ cancelled[c]
  /\ Return(c, "cancelled")
  /\ UNCHANGED <<answer, net, serviceVars>>

(* The application cancels the call's context, or its deadline passes.     *)
Cancel(c) ==
  /\ c \in Cancellable
  /\ pc[c] \notin {"idle", "done"}
  /\ ~cancelled[c]
  /\ cancelled' = [cancelled EXCEPT ![c] = TRUE]
  /\ UNCHANGED <<pc, site, key, attempt, answer, outcome, net, serviceVars>>

-----------------------------------------------------------------------------
(* The environment: network and service (not in this repository).          *)

(* The request reaches the service; the network may still hold a copy of a *)
(* request that carries a key.                                             *)
Take(m) ==
  net' = net \ {m} \/ (Keyed(m[1]) /\ net' = net)

(* The service's answer travels back on the connection of the request's    *)
(* own attempt: once the client has left it, nobody reads the answer.      *)
Answer(m, a) ==
  LET c == m[1]
  IN answer' = IF pc[c] = "waiting" /\ attempt[c] = m[2] /\ answer[c] = NoAnswer
               THEN [answer EXCEPT ![c] = a]
               ELSE answer

Lose(m) ==
  /\ m \in net
  /\ net' = net \ {m}
  /\ UNCHANGED <<clientVars, answer, serviceVars>>

(* Turned away before any work is done: rate limit, validation, a gateway  *)
(* that is down.                                                           *)
Refuse(m) ==
  /\ m \in net
  /\ Take(m)
  /\ \E a \in {"limited", "failed", "refused"} : Answer(m, a)
  /\ UNCHANGED <<clientVars, serviceVars>>

(* Another request for the same operation is being served.                 *)
InFlight(m) ==
  /\ m \in net
  /\ \E x \in executing : Op(x[1]) = Op(m[1])
  /\ Take(m)
  /\ Answer(m, "inflight")
  /\ UNCHANGED <<clientVars, serviceVars>>

(* The key is known: the stored result is sent again.                      *)
ReplayResult(m) ==
  /\ m \in net
  /\ key[m[1]] \in remembered
  /\ Take(m)
  /\ \E a \in Success : Answer(m, a)
  /\ UNCHANGED <<clientVars, serviceVars>>

(* The service starts to work.  Keyed work is started only if neither      *)
(* finished nor running.                                                   *)
Begin(m) ==
  /\ m \in net
  /\ m \notin executing
  /\ Keyed(m[1]) => /\ key[m[1]] \notin remembered
                    /\ \A x \in executing : key[x[1]] # key[m[1]]
  /\ Take(m)
  /\ executing' = executing \cup {m}
  /\ UNCHANGED <<clientVars, answer, effects, remembered>>

(* The work takes effect; the answer may still be a gateway's error.       *)
Commit(m) ==
  /\ m \in executing
  /\ executing' = executing \ {m}
  /\ effects' = [effects EXCEPT ![Op(m[1])] = @ + 1]
  /\ remembered' = IF Keyed(m[1]) THEN remembered \cup {key[m[1]]} ELSE remembered
  /\ \E a \in Success \cup {"failed"} : Answer(m, a)
  /\ UNCHANGED <<clientVars, net>>

(* The work fails without effect, and its key is forgotten.                *)
Abort(m) ==
  /\ m \in executing
  /\ executing' = executing \ {m}
  /\ \E a \in {"failed", "refused"} : Answer(m, a)
  /\ UNCHANGED <<clientVars, net, effects, remembered>>

-----------------------------------------------------------------------------
ClientNext(c) ==
  \/ Issue(c) \/ FailLocally(c) \/ Send(c) \/ TransportError(c)
  \/ HandleSuccess(c) \/ HandleError(c) \/ Wake(c) \/ SleepCancelled(c)
  \/ Cancel(c)

ServiceNext(m) ==
  \/ Lose(m) \/ Refuse(m) \/ InFlight(m) \/ ReplayResult(m)
  \/ Begin(m) \/ Commit(m) \/ Abort(m)

Next ==
  \/ \E c \in Calls : ClientNext(c)
  \/ \E m \in Requests : ServiceNext(m)

Spec == Init /\ [][Next]_vars

(* The steps of a call that the Go runtime takes without the network's     *)
(* help once its context is done: client.Do returns, a sleep ends, an      *)
(* answer that was read is handled.                                        *)
CancelledStep(c) ==
  cancelled[c] /\ (TransportError(c) \/ SleepCancelled(c) \/ Wake(c)
                   \/ HandleSuccess(c) \/ HandleError(c))

CancelFairness == \A c \in Calls : WF_vars(CancelledStep(c))

(* The network answers or breaks every connection in the end: each attempt *)
(* ends, each sleep ends, a request that can be sent is sent.              *)
CallFairness ==
  \A c \in Calls :
    WF_vars(Send(c) \/ TransportError(c) \/ HandleSuccess(c) \/ HandleError(c) \/ Wake(c))

CancelSpec == Spec /\ CancelFairness

-----------------------------------------------------------------------------
(* Properties.                                                             *)

(* The call sites whose repetition the service makes harmless: reads,      *)
(* get-or-create, resume.  Written from what the calls do, not from the    *)
(* policy that is checked against it.                                      *)
Harmless(s) ==
  \/ s.method \in {"GET", "HEAD"}
  \/ s.method = "PUT" /\ s.route = "/v1/sandboxes"
  \/ s.method = "POST" /\ s.route = "/v1/sandboxes/{id}/resume"

(* Calls that may be performed again: harmless and with nothing to tell    *)
(* the service that two requests are one.                                  *)
Repeatable(c) == Harmless(site[c]) /\ ~Keyed(c)

(* An operation takes effect at most once, however many attempts, calls    *)
(* and copies of its requests there are, unless it is a call that is       *)
(* re-sent without a key (reads, get-or-create, resume): the reason        *)
(* requestInto draws one key before its loop and re-sends nothing else on  *)
(* an ambiguous failure (client.go:405-414, 436, 457).                     *)
AtMostOnceEffect ==
  \A c \in Calls : pc[c] # "idle" /\ ~Repeatable(c) => effects[Op(c)] <= 1

(* A call that reports success has taken effect: a result is never         *)
(* fabricated from an answer to another attempt (client.go:455-478).       *)
OkMeansPerformed ==
  \A c \in Calls : outcome[c] \in {"ok", "undecodable"} => effects[Op(c)] >= 1

(* A call that is not replayable and comes back refused (429 after the     *)
(* last resend, or a definite refusal) has had no effect and leaves        *)
(* nothing behind that could still have one: what makes the resend after   *)
(* a 429 of exec, pause or a file chunk safe (client.go:457).              *)
RefusedMeansNever ==
  \A c \in Calls :
    outcome[c] \in {"limited", "refused"} /\ ~Replayable(site[c])
      => /\ effects[c] = 0
         /\ \A m \in net \cup executing : m[1] # c

(* Cancelling a call's context ends it, whatever the network does.         *)
CancelReturns == \A c \in Calls : cancelled[c] ~> (pc[c] = "done")

(* A call ends provided every attempt of it ends: the loop, which has no   *)
(* condition, does not go round for ever (client.go:422-480).              *)
CallReturns ==
  CallFairness => \A c \in Calls : (pc[c] = "ready") ~> (pc[c] = "done")

(* How many steps a call has before it at most: three in each attempt.     *)
StepsLeft(c) ==
  3 * (Retries - attempt[c])
    + [idle |-> 4, ready |-> 3, waiting |-> 2, backoff |-> 1, done |-> 0][pc[c]]

(* Every step of a call's loop brings it nearer to its end, and nothing    *)
(* sets it back, a cancellation or an answer out of turn included: the     *)
(* loop, which has no condition, is left after 3 * Retries + 4 steps       *)
(* (client.go:422-480).                                                    *)
NearerToReturn ==
  [][\A c \in Calls : IF pc'[c] = pc[c] THEN StepsLeft(c)' = StepsLeft(c)
                      ELSE StepsLeft(c)' < StepsLeft(c)]_vars

(* The inductive invariant behind the properties above, by conjuncts.      *)

(* Requests of call c that are on the wire or being served.                *)
Open(c) == {m \in net \cup executing : m[1] = c}

(* Answers exist only while an attempt waits, outcomes only after the      *)
(* return; whoever sleeps has an attempt left; a key is the caller's or    *)
(* the call's own, and only a replayable call has one.                     *)
Shape ==
  \A c \in Calls :
    /\ answer[c] # NoAnswer => pc[c] = "waiting"
    /\ outcome[c] # NoOutcome <=> pc[c] = "done"
    /\ pc[c] = "backoff" => attempt[c] < Retries
    /\ key[c] \in {NoKey, c} \cup CallerKeys
    /\ Keyed(c) => TakesCallerKey(site[c])
    /\ GeneratesKey(site[c]) => (Keyed(c) <=> pc[c] # "idle")

(* Before its first attempt, and after a local failure, a call has left    *)
(* no trace.                                                               *)
Unsent(c) ==
  \/ pc[c] = "idle"
  \/ pc[c] = "ready" /\ attempt[c] = 0
  \/ outcome[c] = "local"

Fresh ==
  \A c \in Calls :
    /\ pc[c] = "idle" => key[c] = NoKey /\ attempt[c] = 0
    /\ Unsent(c) => effects[c] = 0 /\ Open(c) = {}

(* Keyed work runs once at a time and is not started again.                *)
OneWorker ==
  \A x \in executing :
    Keyed(x[1]) =>
      /\ key[x[1]] \notin remembered
      /\ \A y \in executing : key[y[1]] = key[x[1]] => y = x

KeyedOnce ==
  \A o \in Ops :
    (o \in CallerKeys \/ \E c \in Calls : key[c] = o) =>
      effects[o] <= 1 /\ (effects[o] > 0 => o \in remembered)

(* A call that is not replayable has one request at a time, and makes      *)
(* another only while nothing was done: the effect, the request, and the   *)
(* answer that nothing was done exclude one another.                       *)
SingleShot ==
  \A c \in Calls :
    ~Replayable(site[c]) =>
      /\ effects[c] <= 1
      /\ Open(c) # {} =>
           /\ effects[c] = 0
           /\ Open(c) = {<<c, attempt[c]>>}
           /\ ~(<<c, attempt[c]>> \in net /\ <<c, attempt[c]>> \in executing)
           /\ pc[c] \in {"waiting", "done"}
           /\ answer[c] = NoAnswer
           /\ outcome[c] \in {NoOutcome, "transport"}
      /\ (\/ pc[c] \in {"ready", "backoff"}
          \/ answer[c] \in {"limited", "refused"}
          \/ outcome[c] \in {"limited", "refused"}) => effects[c] = 0

(* Success is answered and returned only for work that was done.           *)
Performed ==
  /\ \A o \in remembered : effects[o] >= 1
  /\ \A c \in Calls :
       answer[c] \in Success \/ outcome[c] \in {"ok", "undecodable"}
         => effects[Op(c)] >= 1

IInv == TypeOK /\ Shape /\ Fresh /\ OneWorker /\ KeyedOnce /\ SingleShot /\ Performed

(* Seen by its callers, the loop over this network is AtMostOnce.          *)
Refused(c) ==
  /\ Op(c) = c
  /\ \/ outcome[c] = "local"
     \/ outcome[c] \in {"limited", "refused"} /\ ~Replayable(site[c])

PhaseOf(c) ==
  IF pc[c] = "idle" THEN "idle"
  ELSE IF pc[c] # "done" THEN "pending"
  ELSE IF outcome[c] \in {"ok", "undecodable"} THEN "ok"
  ELSE IF Refused(c) THEN "refused" ELSE "error"

Abstract == INSTANCE AtMostOnce
  WITH phase      <- [c \in Calls |-> PhaseOf(c)],
       target     <- [c \in Calls |-> Op(c)],
       repeatable <- {c \in Calls : pc[c] # "idle" /\ Repeatable(c)},
       performed  <- effects

ImplementsAtMostOnce == Abstract!Spec
=============================================================================
