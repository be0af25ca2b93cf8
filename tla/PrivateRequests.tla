-------------------------- MODULE PrivateRequests --------------------------
(***************************************************************************)
(* The requests that carry a secret: privateInvocation of                  *)
(* invocation_secrets.go, whose body holds private values, and             *)
(* ConnectionGrant.Request of connections.go, with a grant's credential.   *)
(* They do not go through requestInto.  Each uses an http.Client derived   *)
(* from the configured one, which the application owns and may change at   *)
(* any time: an invocation derives its client when it starts, a grant when *)
(* it has been issued, and the requests on a grant keep to that one.       *)
(* Issuing a grant is an ordinary request, over the configured client; its *)
(* resends on a 429 are left to Transport.                                 *)
(*                                                                         *)
(* net/http is external: unless the client forbids it, it follows          *)
(* redirects, uses the proxy of the environment and sends again what a     *)
(* stale pooled connection has swallowed.  So is the service.  Times are   *)
(* in seconds.                                                             *)
(***************************************************************************)
EXTENDS Integers

CONSTANTS
  Invocations,  \* calls of privateInvocation
  Issuances,    \* calls of IssueConnectionGrant
  Requests,     \* calls of ConnectionGrant.Request
  HTTPClients,  \* the http.Clients the application uses; timeout 0 for none
  CommandTimes, \* values of timeout_ms, 0 if it is absent
  Durations,    \* bound: how long an exchange may take
  MaxSends      \* bound: how often net/http sends on its own

Calls == Invocations \cup Issuances \cup Requests

ASSUME CallsAssumption ==
  /\ Invocations \cap Issuances = {}
  /\ (Invocations \cup Issuances) \cap Requests = {}
  /\ MaxSends \in Nat

ASSUME TimesAssumption ==
  CommandTimes \subseteq Nat /\ Durations \subseteq Nat

(* The transport of net/http; the same, with a hook of the application     *)
(* that makes its TLS connections (DialTLSContext); and one that does not  *)
(* verify certificates or is of another make.                              *)
Transports == {"standard", "hooked", "unfit"}

ASSUME ClientsAssumption ==
  HTTPClients \subseteq [transport : Transports, timeout : Nat]

(* https or the machine itself, and http.                                  *)
Endpoints == {"protected", "open"}

(* Who verifies the other end: net/http, the application's hook, if it     *)
(* does, or nobody.                                                        *)
Verifiers == {"net/http", "application", "nobody"}

(* The settings of a client that matter to net/http.                       *)
Settings == [redirects : BOOLEAN, pooled : BOOLEAN, proxied : BOOLEAN,
             verifier : Verifiers, timeout : Nat]

(* How a call goes out: the client, where to, the configured timeout at    *)
(* the time, and the command's.  A grant is the plan of its requests.      *)
Origins == {"endpoint", "elsewhere"}
Plans   == [client : Settings, origin : Origins,
            timeout : Nat, command : Nat]
NoPlan  == [client |-> [redirects |-> FALSE, pooled |-> FALSE, proxied |-> FALSE,
                        verifier |-> "nobody", timeout |-> 0],
            origin |-> "endpoint", timeout |-> 0, command |-> 0]

(* "echo" and "encoded" stand for output with a private value in it, plain *)
(* or in base64, "oversize" for a body that is too long or breaks off,     *)
(* "expired" and "broken" for no answer.                                   *)
Answers == {"good", "echo", "encoded", "error", "redirect", "oversize", "malformed"}

Outcomes == {"none", "refused", "transport", "limit", "failed", "redirect_blocked",
             "suppressed", "ok"}

VARIABLES
  endpoint, \* the configured endpoint
  client,   \* the configured http.Client
  grants,   \* the grants the application holds
  pc,       \* where each call is
  plan,     \* how it goes out
  home,     \* how often its secret was sent to the endpoint
  stray,    \* how often it was sent to anyone else
  answer,   \* the answer on its connection
  took,     \* how long its exchange took
  outcome   \* what it returned

vars == <<endpoint, client, grants, pc, plan, home, stray, answer, took, outcome>>

TypeOK ==
  /\ endpoint \in Endpoints
  /\ client \in HTTPClients
  /\ grants \subseteq Plans
  /\ pc \in [Calls -> {"idle", "ready", "waiting", "answered", "done"}]
  /\ plan \in [Calls -> Plans]
  /\ home \in [Calls -> Nat] /\ stray \in [Calls -> Nat]
  /\ answer \in [Calls -> Answers \cup {"none", "expired", "broken"}]
  /\ took \in [Calls -> Nat]
  /\ outcome \in [Calls -> Outcomes]

Init ==
  /\ endpoint \in Endpoints
  /\ client \in HTTPClients
  /\ grants = {}
  /\ pc = [c \in Calls |-> "idle"]
  /\ plan = [c \in Calls |-> NoPlan]
  /\ home = [c \in Calls |-> 0] /\ stray = [c \in Calls |-> 0]
  /\ answer = [c \in Calls |-> "none"]
  /\ took = [c \in Calls |-> 0]
  /\ outcome = [c \in Calls |-> "none"]

Goto(c, label) == pc' = [pc EXCEPT ![c] = label]

-----------------------------------------------------------------------------
(* The clients.                                                            *)

Verifier(c) ==
  [standard |-> "net/http", hooked |-> "application", unfit |-> "nobody"][c.transport]

(* The configured client as it is.                                         *)
Ordinary(c) ==
  [redirects |-> TRUE, pooled |-> TRUE, proxied |-> TRUE,
   verifier |-> Verifier(c), timeout |-> c.timeout]

(* Without a limit of its own.                                             *)
TimelessHTTPClient(c) ==
  [redirects |-> FALSE, pooled |-> FALSE, proxied |-> FALSE,
   verifier |-> Verifier(c), timeout |-> c.timeout]

(* Without CheckRedirect.                                                  *)
FollowingHTTPClient(c) == [TimelessHTTPClient(c) EXCEPT !.redirects = TRUE]

privateHTTPClient(c) ==
  [redirects |-> FALSE, pooled |-> FALSE, proxied |-> FALSE,
   verifier |-> Verifier(c),
   timeout |-> IF c.timeout = 0 \/ c.timeout > 25 THEN 25 ELSE c.timeout]

(* privateHTTPClient refuses the others.  It looks at the kind of the      *)
(* transport and at its TLS configuration, not at its hooks.               *)
Usable(c) == c.transport \in {"standard", "hooked"}

ValidEndpoint == endpoint = "protected"

(* The deadline counted from the configured client's timeout alone.        *)
ShortDeadline(timeout, command) == IF timeout > 0 THEN timeout ELSE 90

(* How long an invocation may take, given the configured timeout and how   *)
(* long its command may take.                                              *)
Deadline(timeout, command) ==
  LET base == IF command > 30 THEN command + 60 ELSE 90
  IN  IF timeout > 0 /\ timeout < base THEN timeout ELSE base

-----------------------------------------------------------------------------
(* The application.                                                        *)

Configure(new) ==
  /\ client' = new
  /\ UNCHANGED <<endpoint, grants, pc, plan, home, stray, answer, took, outcome>>

(* Refused before anything is sent: no values or too many, an endpoint or  *)
(* a client unfit for them; a path that is not relative, a header that is  *)
(* not approved, a body beyond 1 MiB; a negative lifetime of a grant.      *)
RefuseCall(c) ==
  /\ pc[c] = "idle"
  /\ c \in Requests => grants # {}
  /\ Goto(c, "done")
  /\ outcome' = [outcome EXCEPT ![c] = "refused"]
  /\ UNCHANGED <<endpoint, client, grants, plan, home, stray, answer, took>>

Begin(c, how) ==
  /\ pc[c] = "idle"
  /\ plan' = [plan EXCEPT ![c] = how]
  /\ Goto(c, "ready")
  /\ UNCHANGED <<endpoint, client, grants, home, stray, answer, took, outcome>>

(* privateInvocation up to client.Do.                                      *)
Invoke(c, command) ==
  /\ ValidEndpoint /\ Usable(client)
  /\ Begin(c, [client  |-> [privateHTTPClient(client) EXCEPT
                              !.timeout = Deadline(client.timeout, command)],
               origin  |-> "endpoint",
               timeout |-> client.timeout,
               command |-> command])

IssueConnectionGrant(c) ==
  Begin(c, [client |-> Ordinary(client), origin |-> "endpoint",
            timeout |-> client.timeout, command |-> 0])

(* ConnectionGrant.Request up to client.Do.                                *)
Request(c) == \E grant \in grants : Begin(c, grant)

-----------------------------------------------------------------------------
(* net/http and the service.                                               *)

Sent(c, there) ==
  /\ home' = IF there = "endpoint" THEN [home EXCEPT ![c] = @ + 1] ELSE home
  /\ stray' = IF there = "elsewhere" THEN [stray EXCEPT ![c] = @ + 1] ELSE stray

(* The request goes out, to a proxy if there is one.                       *)
Send(c, there) ==
  /\ pc[c] = "ready"
  /\ there = plan[c].origin \/ plan[c].client.proxied
  /\ Goto(c, "waiting")
  /\ Sent(c, there)
  /\ UNCHANGED <<endpoint, client, grants, plan, answer, took, outcome>>

(* The connection is stale, or the answer a redirect.                      *)
SendAgain(c, there) ==
  /\ pc[c] = "waiting"
  /\ home[c] + stray[c] <= MaxSends
  /\ \/ there = plan[c].origin /\ plan[c].client.pooled
     \/ plan[c].client.redirects
  /\ Sent(c, there)
  /\ UNCHANGED <<endpoint, client, grants, pc, plan, answer, took, outcome>>

Returns(c, what, time) ==
  /\ pc[c] = "waiting"
  /\ Goto(c, "answered")
  /\ answer' = [answer EXCEPT ![c] = what]
  /\ took' = [took EXCEPT ![c] = time]
  /\ UNCHANGED <<endpoint, client, grants, plan, home, stray, outcome>>

(* The service answers, or the connection breaks, or the context ends.     *)
Answer(c, what, time) ==
  /\ plan[c].client.timeout > 0 => time < plan[c].client.timeout
  /\ what \in {"echo", "encoded"} => c \notin Issuances
  /\ Returns(c, what, time)

(* The client's timer ends the exchange.                                   *)
Expire(c) ==
  /\ plan[c].client.timeout > 0
  /\ Returns(c, "expired", plan[c].client.timeout)

-----------------------------------------------------------------------------
(* What the call makes of it.                                              *)

Return(c, what) ==
  /\ Goto(c, "done")
  /\ outcome' = [outcome EXCEPT ![c] = what]
  /\ UNCHANGED <<endpoint, client, grants, plan, home, stray, answer, took>>

(* values.contains looks for the values as they are only.                  *)
ContainsPlain(what) == what = "echo"

contains(what) == what \in {"echo", "encoded"}

(* The body is read before the status is looked at.                        *)
HandleInvocation(c) ==
  /\ c \in Invocations /\ pc[c] = "answered"
  /\ \/ answer[c] = "broken"                  /\ Return(c, "transport")
     \/ answer[c] = "expired"                 /\ \E e \in {"transport", "limit"} : Return(c, e)
     \/ answer[c] = "oversize"                /\ Return(c, "limit")
     \/ answer[c] \in {"error", "redirect"}   /\ Return(c, "failed")
     \/ answer[c] = "malformed"               /\ Return(c, "transport")
     \/ contains(answer[c])                   /\ Return(c, "suppressed")
     \/ answer[c] \in {"good", "echo", "encoded"} /\ ~contains(answer[c]) /\ Return(c, "ok")

(* A status of 400 or more is a response like another, and so is a body of *)
(* any form.                                                               *)
HandleRequest(c) ==
  /\ c \in Requests /\ pc[c] = "answered"
  /\ \/ answer[c] \in {"broken", "expired"}   /\ Return(c, "transport")
     \/ answer[c] = "redirect"                /\ Return(c, "redirect_blocked")
     \/ answer[c] = "oversize"                /\ \E e \in {"transport", "limit"} : Return(c, e)
     \/ answer[c] \in {"good", "echo", "encoded", "error", "malformed"} /\ Return(c, "ok")

(* A grant whose address is taken as it comes.                             *)
AcceptedAnywhere(origin) == ValidEndpoint /\ Usable(client)

(* newConnectionGrant accepts a grant that is to be used at the endpoint,  *)
(* if endpoint and client, as it is by now, are fit for it.                *)
Accepted(origin) == origin = "endpoint" /\ ValidEndpoint /\ Usable(client)

(* A grant that keeps the configured client itself.                        *)
SharedConnectionGrant(origin) ==
  [client |-> client, origin |-> origin, timeout |-> client.timeout, command |-> 0]

newConnectionGrant(origin) ==
  [client |-> privateHTTPClient(client), origin |-> origin,
   timeout |-> client.timeout, command |-> 0]

(* The answer says where the grant is to be used.  One that is not         *)
(* accepted is lost: it exists, and nobody has its credential.  Bound: one *)
(* grant is held at a time.                                                *)
HandleIssuance(c, origin) ==
  /\ c \in Issuances /\ pc[c] = "answered"
  /\ Goto(c, "done")
  /\ IF answer[c] = "good" /\ Accepted(origin)
       THEN grants' = {newConnectionGrant(origin)} /\ outcome' = [outcome EXCEPT ![c] = "ok"]
       ELSE UNCHANGED grants /\ outcome' = [outcome EXCEPT ![c] = "failed"]
  /\ UNCHANGED <<endpoint, client, plan, home, stray, answer, took>>

-----------------------------------------------------------------------------
Next ==
  \/ \E new \in HTTPClients : Configure(new)
  \/ \E c \in Invocations, command \in CommandTimes : Invoke(c, command)
  \/ \E c \in Requests : Request(c)
  \/ \E c \in Issuances :
       IssueConnectionGrant(c) \/ \E origin \in Origins : HandleIssuance(c, origin)
  \/ \E c \in Calls :
       \/ RefuseCall(c) \/ Expire(c)
       \/ \E there \in Origins : Send(c, there) \/ SendAgain(c, there)
       \/ \E what \in Answers \cup {"broken"}, time \in Durations : Answer(c, what, time)
       \/ HandleInvocation(c) \/ HandleRequest(c)

Spec == Init /\ [][Next]_vars

-----------------------------------------------------------------------------
(* Properties.                                                             *)

(* "Request never retries or follows redirects" (connections.go:200-201),  *)
(* and neither does an invocation: whatever the service answers, whatever  *)
(* net/http would do on its own and however the application changes its    *)
(* client meanwhile, a secret is sent once at most, to the endpoint only,  *)
(* over a verified connection or on the machine itself; a call that was    *)
(* refused has sent nothing.  Whose TLS connections the application makes  *)
(* by a hook of its own, DialTLSContext, has to verify them itself: such a *)
(* transport is accepted (connections.go:141-162), and the configuration   *)
(* that is checked plays no part in it.                                    *)
SentOnceHome ==
  \A c \in Invocations \cup Requests :
    /\ home[c] <= 1 /\ stray[c] = 0
    /\ home[c] = 1 => endpoint = "protected" /\ plan[c].client.verifier # "nobody"
    /\ outcome[c] = "refused" => home[c] = 0

(* An invocation returns no private value, neither as it is nor in base64  *)
(* (invocation_secrets.go:126-133, 181-183); nothing of an answer that was *)
(* not a success reaches the application.                                  *)
NothingEchoed ==
  \A c \in Invocations : outcome[c] = "ok" => answer[c] = "good"

(* A call ends in time although the default client has no timeout: with    *)
(* the timeout the application had set, a request on a grant also after 25 *)
(* seconds, an invocation 60 seconds after its command's time or after 90. *)
(* And no earlier: the timer does not cut off an invocation that is within *)
(* the configured timeout while its command may still be running.          *)
EndsInTime ==
  \A c \in Invocations \cup Requests : pc[c] = "done" =>
    /\ plan[c].timeout > 0 => took[c] <= plan[c].timeout
    /\ c \in Requests => took[c] <= 25
    /\ c \in Invocations => took[c] <= 90 \/ took[c] <= plan[c].command + 60
    /\ c \in Invocations /\ answer[c] = "expired" =>
         took[c] = plan[c].timeout \/ took[c] >= plan[c].command + 60
-----------------------------------------------------------------------------
(* The inductive invariant behind these properties, by conjuncts.          *)

Private == Invocations \cup Requests

(* A client that sends what it is given once, and to that address.         *)
Closed(settings) ==
  /\ ~settings.redirects /\ ~settings.pooled /\ ~settings.proxied
  /\ settings.verifier # "nobody"

(* A plan that sends a secret nowhere but to the endpoint.                 *)
Sealed(how) ==
  Closed(how.client) /\ how.origin = "endpoint" /\ endpoint = "protected"

(* A plan whose timer runs, and within the configured timeout.             *)
Timed(how) ==
  /\ how.client.timeout > 0
  /\ how.timeout > 0 => how.client.timeout <= how.timeout

SealedGrants ==
  \A grant \in grants : Sealed(grant) /\ Timed(grant) /\ grant.client.timeout <= 25

(* Where the timer of an invocation stands.                                *)
Patient(how) ==
  /\ how.client.timeout <= 90 \/ how.client.timeout <= how.command + 60
  /\ how.client.timeout = how.timeout \/ how.client.timeout >= how.command + 60

Planned(c) ==
  pc[c] \in {"ready", "waiting", "answered"} =>
    /\ Sealed(plan[c]) /\ Timed(plan[c])
    /\ c \in Requests => plan[c].client.timeout <= 25
    /\ c \in Invocations => Patient(plan[c])

(* What has been sent by now.                                              *)
Counted(c) ==
  /\ stray[c] = 0
  /\ pc[c] \in {"idle", "ready"} => home[c] = 0 /\ outcome[c] = "none"
  /\ pc[c] \in {"waiting", "answered"} => home[c] = 1 /\ outcome[c] = "none"
  /\ pc[c] = "done" =>
       \/ home[c] = 0 /\ outcome[c] = "refused" /\ took[c] = 0 /\ answer[c] = "none"
       \/ home[c] = 1 /\ outcome[c] # "refused" /\ Sealed(plan[c])
  /\ pc[c] \in {"idle", "ready", "waiting"} => took[c] = 0 /\ answer[c] = "none"

(* How long it took, compared with its timer.                              *)
Measured(c) ==
  /\ pc[c] \in {"answered", "done"} =>
       /\ plan[c].timeout > 0 => took[c] <= plan[c].timeout
       /\ c \in Requests => took[c] <= 25
       /\ c \in Invocations => took[c] <= 90 \/ took[c] <= plan[c].command + 60
       /\ c \in Invocations /\ answer[c] = "expired" =>
            took[c] = plan[c].timeout \/ took[c] >= plan[c].command + 60

Silent(c) == c \in Invocations /\ outcome[c] = "ok" => answer[c] = "good"

Kept(c) == Planned(c) /\ Counted(c) /\ Measured(c) /\ Silent(c)

IInv == TypeOK /\ SealedGrants /\ \A c \in Private : Kept(c)
=============================================================================
