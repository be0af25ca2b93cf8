# Formal models of the Mosaic sandbox SDK for Go

The repository is a Go client for a sandbox service: it creates, runs in, pauses,
forks and destroys sandboxes over HTTP. Nearly everything it promises beyond
plain JSON over HTTP is in how it behaves when a request fails half way: what is
sent again, how often, how long it waits, and what it tells its caller. That is
what the modules here specify, check with TLC and, for all values of their
constants, prove with TLAPS.

## Inventory

| component | source | state | operations | hard behaviour | correct when |
|---|---|---|---|---|---|
| client construction | `client.go:171-244` | none after `New` | options, environment | precedence of option over variable | the explicit value wins; retries are never negative |
| API errors | `client.go:37-158`, `resources.go:162-172` | none | `apiError`, `Is`, `Unwrap` | status and code disagree (404 with `invalid_api_key` is an authentication error) | one category per answer, by a fixed precedence |
| retry policy | `client.go:272-326` | none | `replayable`, `retryable`, `retryDelay` | lists of routes that must fit the key rule; 64-bit durations | whatever is replayed carries a key or is harmless; delays are within the cap |
| transport loop | `client.go:405-480` | per call: key, attempt | `requestInto`, `sleepContext` | lost, duplicated and late requests; ambiguous failures; concurrent calls with one key; cancellation | an operation takes effect at most once; success is real; a refusal is final; every call ends |
| destroy loop | `client.go:289-403` | attempts, two retry counters, deadline | `transport.destroy` | two nested retry loops, a deadline, a table of delays, Retry-After, cancellation | nil means gone; attempts and time are bounded; Retry-After is respected |
| WithSandbox | `sandbox.go:452-472` | the handle, the named result | create, callback, deferred destroy | panic, cancelled caller, destroy cut by its context, two errors | no silent leak and no error lost when the callback returns; the cleanup is bounded |
| sandbox calls | `sandbox.go:148-225,477-707` | the sandbox's fields | one request each | late duplicates of `Resume`; ambiguous creation | as the transport loop |
| RunOnce, Function | `sandbox.go:225-443` | a Function's base options | `Function`, `Invoke`, `InvokeWith` | aliasing of maps and slices between caller, Function and invocations | a Function is immutable; each invocation sends what was declared and its own overrides |
| files | `sandbox.go:716-820` | none (the file is remote) | `Read`, `Write` in chunks | a chunk fails ambiguously; two writers | what is reported as landed has landed |
| processes | `sandbox.go:822-937` | two log offsets | `Logs`, `Wait`, `Run` | unsynchronised offsets; polling; lost output | output is complete and in order |
| exec stream | `sandbox.go:939-1027` | buffer, done, err | `Next`, `Close` | frames split over chunks, end of stream, cancellation | each event once, in order, none lost but for the case the code has (below) |
| connections | `connections.go` | none (revisions are remote) | CRUD by revision, grants, paged lists | stale revisions; repeated cursors; grants lost in flight | no lost update; every row once |
| network profiles, secret bundles, secrets | `network_profiles.go`, `secret_bundles.go`, `resources.go` | none | CRUD by revision, paged lists | the same | the same |
| private requests | `invocation_secrets.go`, `connections.go:133-237` | a grant's client and credential | parse, validate, invoke once; request on a grant | the application's client changes; implicit resends, redirects, proxies; three time limits; echoed values | a secret leaves once, for the endpoint; no echo is returned; the call ends in time |
| wire types | `types.go` | none | none | none | not applicable |

Interaction. Every operation but the private requests goes through
`requestInto`. `destroy` calls `requestInto` for a method that is not replayed,
so only a 429 is re-sent inside one of its attempts. `WithSandbox` is
`CreateSandbox` (`requestInto`), the callback, and `Destroy` under a context of
its own. A private invocation and a request on a grant use `client.Do` directly,
over a client derived from the application's. Nothing is persisted by the SDK and no goroutine is started by it: the
concurrency is that of its callers, of the network and of the service.

## Modules

| module | models | role |
|---|---|---|
| `RetryPolicy` | `replayable`, `retryable`, `canRetry`, `retryDelay` | constant operators shared by the state machines |
| `AtMostOnce` | the promise of one call, without network or retries | abstract specification |
| `Transport` | `requestInto`, `sleepContext` over a network and a service | state machine; implements `AtMostOnce` |
| `CallSites` | every call of `requestInto` in the SDK, 66 of them | constants: method, route, whether the answer is decoded |
| `MCTransport` | all call sites, and three that may share a key | instances for TLC |
| `TransportProofs` | | theorems about `Transport` |
| `Destroy` | `transport.destroy` with the 429 loop inside it | timed state machine |
| `MCDestroy` | | instances for TLC |
| `WithSandbox` | `Client.WithSandbox` over the loop of `Destroy`, which it extends | composition |
| `ScopedUse` | the promise of `WithSandbox`, without contexts, requests and time | abstract specification |
| `DestroyProofs` | | theorems about `Destroy` and, on them, about `WithSandbox` |
| `ExecStream` | `Sandbox.ExecStream`, `ExecStream.Next`, `Err`, `Close`, `parseSSE` | state machine over a body read in chunks |
| `MCExecStream` | streams of up to three frames | instances for TLC |
| `ExecStreamProofs` | | theorems about `ExecStream` |
| `Processes` | `Processes.Start`, `Run`, `Process.Logs`, `Wait` | goroutines, handles and one process |
| `MCProcesses` | one goroutine by itself, two on one handle, two on two handles | instances for TLC |
| `ProcessesProofs` | | theorems about `Processes` |
| `Upload` | `Files.Write` with its chunks, over the resends of `requestInto` | several writers of one path |
| `UploadProofs` | | theorems about `Upload` |
| `Invocations` | `Client.Function`, `Function.Invoke`, `InvokeWith`, `Client.RunOnce`, `NewInvocationSecrets` | goroutines and the slices and maps they share |
| `MCInvocations` | declarations and overrides | instances for TLC |
| `InvocationsProofs` | | theorems about `Invocations` |
| `Revisions` | connections, network profiles, secret bundles and secrets: get, list, create, replace, merge, set, delete, over the resends of `requestInto` | several clients of one collection |
| `MCRevisions` | which client makes which calls | instances for TLC |
| `RevisionsProofs` | | theorems about `Revisions` |
| `PrivateRequests` | `privateInvocation`, `IssueConnectionGrant`, `ConnectionGrant.Request`, `privateHTTPClient` | calls that carry a secret, net/http and the application's client |
| `MCPrivateRequests` | one call of each kind | instances for TLC |
| `PrivateRequestsProofs` | | theorems about `PrivateRequests` |

Some definitions stand directly before another one with the same parameters and
are named after a mistake (`SwallowError` before `HandleError`). They belong to
no specification: put in the place of the definition that follows, each must
make one of the properties fail, which shows that the property depends on the
code it is about.

### RetryPolicy

A call site is the method, the route with identifiers replaced by `{id}` (the
two regular expressions look at nothing else) and whether an output is decoded.
Answers are the classes `requestInto` tells apart: `ok`, `malformed`, `limited`
(429), `failed` (500, 502, 503, 504), `inflight` (another status with one of the
two in-flight codes) and `refused`. `RetryDelay` is in milliseconds and
exact for every attempt number: `250 * time.Millisecond * (1 << attempt)` is
5^9 * 2^(7 + attempt) nanoseconds, `Kept` is what 64 bits keep of 5^9 from attempt 36
on, and `Positive` is its sign. What is positive there is still beyond the cap, what
is negative counts as no delay, and from attempt 57 on nothing is left. A
Retry-After whose conversion to a Duration is out of range is one of the values
that `retryAfter` may have.

### Transport

One process per invocation of `requestInto`. `pc[c]` is where the loop stands:

| pc | code |
|---|---|
| `idle` | not called |
| `ready` | the head of the loop, 422-433: key chosen, request built |
| `waiting` | in `client.Do` or `io.ReadAll`, 434-444 |
| `backoff` | in `t.sleep`, 439, 450, 459 |
| `done` | returned; `outcome[c]` says what |

`Issue` draws the key (407-414), `Send` puts the request on the wire,
`TransportError` is a failed `client.Do` or an unreadable body (435-454),
`HandleSuccess` and `HandleError` are the two halves of 455-478, `Wake` and
`SleepCancelled` the two branches of `sleepContext`. `FailLocally` is an error
before anything is sent. A generated key is a fresh UUID and is represented by
the call that drew it.

The environment is external: it is what the code in `src/` is written for, and
no file of the repository implements it. Its assumptions are

1. a request that is answered 429, or refused with any status outside the
   retryable ones, has not been executed;
2. the service executes the work of a key at most once at a time and remembers
   the result of work that took effect; it forgets the key of work that failed;
3. the network may lose any request, and may deliver a request that carries a
   key more than once (net/http re-sends those on its own); a request without a
   key is delivered at most once;
4. an answer travels on the connection of its own attempt;
5. a 5xx may be answered before, after or instead of the work.

`AtMostOnceEffect` is assumption 2 plus the client's half of the bargain: that
all attempts of a call carry one key, and that a call without a key is not sent
again while an earlier attempt can still take effect. `RefusedMeansNever` is
what makes the unconditional resend after 429 right: it fails as soon as another
answer is re-sent the same way. `ImplementsAtMostOnce` says all of this at
once: after substituting `PhaseOf` and `effects`, every step of the loop, the
network and the service is a step of `AtMostOnce` or changes nothing in it; in
particular an operation that was returned as refused is never performed later,
whereas one that was returned as an error still may be.

`CallSites` lists the calls of `requestInto` by what the retry policy looks at.
A check of arguments before the call is `FailLocally`; the decoding of the answer
into a type and what a call makes of the result afterwards changes no state of
the SDK. All of them are instances of the one state machine, so that one run
asks of each whether it ends, and whether its refusal is final: `Resume` is re-sent
without a key, the issue of a grant is not, and a volume is created under a key.

### Destroy

The loop of `destroy`, one action for each branch, with a clock in
milliseconds: `Top` is the head of the loop (340-343), `Exchange` one HTTP
exchange, `HandleLimited` the resend after 429 inside `requestInto`,
`HandleGone`, `HandleFinal`, `HandleTransport` and `HandleCoded` the decisions of
345-389, `Wake` and `SleepCut` the end of a sleep. `ExchangeCut` and `SleepCut`
are a context that ends first. A client timeout (`http.Client.Timeout`) is told
apart from other transport errors, because `errors.Is(err,
context.DeadlineExceeded)` at 361 does so. Exchanges last any of `Durations`,
sleepers are woken any of `Lateness` after they are due. The counters bound the
behaviour, so deadlock is checked: the loop stops nowhere but after its return.

### WithSandbox

`CreateSucceeds`, `CreateFails`, `CallbackEnds` (nil, error or panic),
`CleanupStart` (the detached context of 30 seconds), the steps of `Destroy`, and
`Finish`, which joins the errors. The module extends `Destroy` and works on its
variables; what it starts is `DestroyStep` under a context of its own, so that of
`Destroy`'s specification only `Start` with a `CtxEnds` is not used. `Cancel` ends the caller's context at any
moment. Creation and callback take no time in the model, since the clock of the
cleanup starts after them. How creation works inside is `Transport`'s matter:
here it succeeds, or fails with or without a sandbox left at the service.
`ImplementsScopedUse` is the promise as a whole, with the attempts, sleeps and
contexts of the destruction out of sight: the sandbox is there while the callback
runs, and when the function returns it is gone or reported not to be. After a panic
in the callback the function does not return, and what the deferred function joined
is lost with the named result (459-472): a sandbox whose destruction failed is then
still there and the caller sees the panic only. `ScopedUse` has actions of its own
for this (`Panic`, `GoOn`), and `Report` maps the result to the panic.

### ExecStream

What the service writes is a fixed sequence of lines and line ends; the buffer
of the code is the stretch `wire[cut + 1 .. got]` of it, so that chunks which end
anywhere are a choice of the next `got`. `TakeFrame` cuts the first frame off
the buffer (944-951), `ReadChunk`, `ReadEnd` and `ReadFails` are the outcomes of a read
(960-988), `SeeCancel` and `StartRead` the two sides of the check of the context
before it, `CloseCall` and `Drained` the two steps of `Close` (993-1000).
`IsParse` is `parseSSE`: the last name before the end of the frame, all its data
lines, and nothing for a frame without a name. Streams end cleanly, break, or
fall silent. An event is represented by the positions of its lines, which lets
`Exact` speak of losses, doubles, order and mixtures of frames alike.

`Exact` and `EndMeansAll` have one exception, which the code has: if a read brings
the last of the stream together with its end, and the buffer then begins with a
keep-alive, all that follows the keep-alive is parsed as one frame (967-977). Its
frames' own events are lost, behind a clean end and with `Err() == nil`: what is
returned in their place is one event with the last name and the data of all of
them (`Merged`). `EndMeansAll` says of every frame with a name that its own
event was returned or that it was merged so; in every other case nothing is lost.
No doc or test of the repository speaks of this case, so it is not among the findings.

### Processes

One process, any number of handles to it, any number of goroutines in `Wait`.
`AskStdout` and `AskStderr` are the two reads of the offsets in line 869, `Answer` is
the service, during whose request another goroutine can change the offsets, and
`StoreStdout` and `StoreStderr` are the two stores of line 874. Nothing locks a
handle, so another goroutine may come between the reads and between the stores.
`Wake` is the pause between two polls; `InfoSucceeds` makes the result.
`LogsFails`, `InfoFails` and `SleepCancelled` leave `Wait` with an error, after
which it can be called again; what it had put together is lost to the caller, and
`dropped` keeps it apart from what was returned (`given`). `Write` and `End` are the
process.

Of how the process ended, any exit code or none and any termination or none may be
told (`Told`). A missing code counts as 0 (908-911), so that a process that was killed and
has no code is a success with the reason `signal` or `oom_killed`, although the repository's README.md:109
tests nothing but `Success`; `TrueResult` states what `Success` and `Reason` are worth in each
combination. The service is external, and is assumed to say `finished` only in an answer that
carries the rest of the output. `SendInput`,
`CloseStdin` and `Kill` touch neither offsets nor output; what they do to the process is
among the things `Write` and `End` may do at any time.

### Upload

`Write` decides between a request and chunks (741-757), `Send` and the handlers
are the attempts of one request; nothing carries a key, so only a refusal (429)
is sent again (`RetryPolicy`). A file is a sequence of pieces, a piece a stretch
of the content of one Write. The service applies a request at most once, wholly
or not at all, and possibly after its writer has given up; answers get lost.
`alone` records that nobody else has written since the Write began and that no
request was on its way then: nothing in the code keeps two writers of one path
apart, and no property says so.

### Invocations

Slices and maps are references: a field of some options is nil or names the owner
of what it refers to, and `memory` says what that holds. `Function` copies the
caller's collections, `InvokeWith` (and `Invoke`, which is `InvokeWith` without
overrides) copies those of the Function, `RunOnce` reads them when it builds the
request. `Reuse` is the caller, who writes to its own collections whenever it
likes. `Clone` says which references the copy has, `Copies` what they hold; a
copy of an empty slice is nil, a copy of an empty map is not. `Body` is what
`createBody` and `RunOnce` make of it: named secrets and bundles share one list,
and a network policy is sent only with a list that is not nil. Fields that
behave alike are represented by one of them. `EgressPreset` is empty throughout,
and `User` is left out: it is copied and then sent nowhere, although the
doc of `FunctionOptions` counts it among the defaults of every invocation
(`sandbox.go:285-286`, `225-243`).

### Revisions

One collection of named resources, of any of the four kinds, which differ in
wording only: the revision is called a version by secrets and bundles, and
secrets can be set and deleted without one. `Change` is a call that returns an
error at once unless it has a positive revision; `Unversioned` and
`SetWithAccess` are the others. `Query` is what the path says of the revision,
`Send`, `TransportError`, `HandleError`, `HandleMalformed` and `HandleSuccess` are
`requestInto` with its resends (the pause before a resend is left out: the
attempt is sent some time later), and `HandlePage` is the body of the loop in
which the lists follow cursors. A program changes a resource by the revision it
last saw, `known`; the content of a resource is the set of updates it was made
from, so that an update that was lost is missing from it.

The service is external. It is assumed to apply a change with a revision to
that revision only and never to use a revision again (also after a deletion), to
apply a request at most once, possibly after its caller has given up, and to
show in a page the rows that follow the cursor, of which a row's place is
settled by its name. A 429 and a refusal are answers to requests that were not
applied. A service that repeats a cursor, or leaves one out early, is not in the
model: the loops have no defence against it. A list that fails on a later page
returns the error and none of the rows.

### PrivateRequests

The calls whose requests carry a secret. `privateHTTPClient` derives a client
from the application's: no redirects, no proxy, a transport of its own whose
connections are not kept (so that net/http has none to re-send on), certificates
that are verified, 25 seconds at most. A standard transport whose TLS connections a
hook of the application makes (`DialTLSContext`) is accepted too (141-162): what is
checked is the TLS configuration, which such a hook does not use, and who is at the other
end is then for the hook to verify (`Verifier`). `Invoke` derives it when the invocation
starts and replaces its limit by `Deadline`; `newConnectionGrant` derives it once
for a grant, and each `Request` uses that one. `IssueConnectionGrant` goes out over
the configured client as it is (`Ordinary`). `Configure` is the application, which
changes its client at any time: the SDK holds a pointer to it. `plan[c]` is how a
call goes out, `home` and `stray` count how often it was sent to the endpoint and
elsewhere. `Send`, `SendAgain`, `Answer` and `Expire` are net/http and the service:
a proxied request may go elsewhere, a pooled connection may send again, a followed
redirect may do both. `HandleInvocation` and `HandleRequest` are the order in which
the code looks at the answer (167-185; 221-236), and `RefuseCall` is every return
before something is sent.

The body of an answer is one of a few classes; values are looked for in output as
they are and in base64 (`echo`, `encoded`), which is all that `contains` knows.
The resends of an issue after a 429 are `Transport`'s matter. Not in the model:
a negative `http.Client.Timeout`, a `timeout_ms` so long that it overflows a
Duration, and a grant whose credential does not have the form the code asks for,
which counts with those that are not accepted.

## Runs

| run | instance | shows |
|---|---|---|
| `transport` | 2 calls, 1 caller's key, 1 resend, sites CreateSandbox, GetOrCreateSandbox, Exec; contexts that do not end | `TypeOK`, `AtMostOnceEffect`, `OkMeansPerformed`, `ImplementsAtMostOnce` |
| `transport_sites` | 1 call, all 66 call sites, 2 resends, a context that may end; `CancelSpec` | `RefusedMeansNever`, `CancelReturns`, `CallReturns` |
| `destroy` | instant and 20 s exchanges, Retry-After 20 s, 1 resend, wake-ups up to 1.5 s late, contexts that end at 4.5 s or never | `TypeOK`, `NilMeansGone`, `DestroyBounded`, `HonoursRetryAfter` |
| `destroy_seven_attempts` | instant exchanges, no resends | violated: see Findings |
| `with_sandbox` | 0.5 s and 12 s exchanges, Retry-After 40 s, 1 resend, late wake-ups | `SandboxTypeOK`, `ErrorsKept`, `DetachedCleanup`, `ImplementsScopedUse` |
| `exec_stream` | every prefix of every stream of three events or keep-alives | `TypeOK`, `Exact`, `EndMeansAll`, `CancelEnds`, `LoopEnds` |
| `processes` | 1 goroutine and 2 bytes on each stream, or 2 goroutines, on one handle or on two, and 1 byte on each; an end with code 0, with another one, or by a signal and without one; `FairSpec` | `TypeOK`, `TrueResult`, `BetweenThem`, `WaitReturns` |
| `upload` | 2 writers, 2 Writes, 1 resend, sizes below, at and above the limits | `TypeOK`, `SuccessIsWhole`, `LandedIsThere`, `NoByteTwice` |
| `invocations` | 2 goroutines, 4 kinds of overrides, declarations with one list or map absent, empty or filled | `TypeOK`, `SendsDeclared`, `PrivateScoped`, `SpecificationUnchanged` |
| `private` | an invocation, a grant and a request on it, transports of all three kinds, no timeout or 40 s, a command of 31 s or none, exchanges of 0 s and 95 s, 1 resend by net/http | `TypeOK`, `SentOnceHome`, `NothingEchoed`, `EndsInTime` |
| `revisions` | 2 clients, 2 resources, pages of 1 row, 1 resend, 2 changes; `FairSpec` | `TypeOK`, `NoLostUpdate`, `ListedOnce`, `ListEnds` |
| `invocations_empty_list` | the same | violated: see Findings |

Bounds. Two calls are enough for the interesting collisions: two calls with the
same caller's key, a call and its own late duplicate, a keyed call beside one
without a key. One resend gives two attempts, so that an attempt can be
overtaken by the next; the three sites of `transport` cover a generated key,
an optional key and no key with no replay, and `transport_sites` has every call of the
SDK. In `transport` no context ends
(`Cancellable` is empty), which takes away nothing but calls that give up at an
arbitrary moment: a transport error is one too, and the theorems are about any
`Cancellable`. `Calls` are interchangeable, so `transport` uses symmetry, as do
the goroutines of `invocations`; runs with liveness properties do not.

In `destroy` the number of attempts is bounded by the code itself; durations are
chosen so that the deadline falls inside an exchange, inside a sleep and on the
boundary. In `exec_stream` three frames are enough for one that was cut, one in
the buffer and one still to come, and cutting every stream at every line gives
every unfinished end. In `processes`, `Casts` says who takes part together, and on how
much output: a goroutine by itself reads two bytes of each stream, so that its output
has an order and polls can fall between its bytes; two goroutines, on one handle or on two,
share a byte of each stream, at every interleaving of their reads, stores and answers.
`EnoughCollected` makes a goroutine that has put `Enough` together wait for the end of the
process before it polls again. The three ends of `ThreeEnds` are a code 0, another
code, and a signal without a code; the others are for the theorems. In `private` a timeout of 40 s lies between the limits of a grant and of an
invocation, a command of 31 s just above the threshold of 30, and an exchange of 95 s
beyond all limits but that of no timer at all; one resend is enough to send twice. `MaxWrites` bounds
`upload`: one Write and a second that repeats it, follows it or races with it,
with sizes on both sides of each limit (chunk 2, single request 3, file 7).
In `invocations` the contents are empty and two others, enough to tell what was
declared from what the caller writes later. In `revisions` an update is lost by two
changes of one resource, and a row doubled or skipped by a change between two
pages; `MCDoes` says who makes which calls, so that each kind of call is made, the
first resource is changed by both clients by revision and the second comes and
goes; of the removals one decodes its answer and one does not. At first all resources are there or none. The theorems remove these bounds
for everything but the liveness properties.

`CHECK_DEADLOCK FALSE` is set in the transport runs, `upload`, `processes` and
`private`: there the system stops when every call has returned and the network is
empty, or when all Writes of the bound are done.

Fairness. `CancelReturns` and `CancelEnds` assume only what the Go runtime does
by itself for a context that is done: `client.Do` and a read return, a sleep
ends, and what was read is handled. `CallReturns` has in its premise that every
attempt ends (`CallFairness`), that is, that the network answers or breaks every
connection. The SDK's default `http.DefaultClient` has no timeout, so for it this is
an assumption about the network; a client with a timeout, or a context with a
deadline, guarantees it. `LoopEnds` has in its premise a caller that goes on
calling Next and a stream that goes on (`LoopFairness`). `WaitReturns` assumes that
each goroutine in `Wait` goes on and is answered (`Polling`), not that the
process ends: that is in the property. `ListEnds` assumes that every attempt ends,
with an answer or an error, as `CallReturns` does.

## Proofs

| theorem | states |
|---|---|
| `TransportProofs!TypeCorrect`, `EffectOnce`, `OkPerformed`, `RefusedNever` | the invariants of `transport` and `transport_sites` |
| `TransportProofs!Implementation` | `Spec => ImplementsAtMostOnce` |
| `TransportProofs!NearerToEnd` | the action property `NearerToReturn`, the variant of the loop |
| `DestroyProofs!TypeCorrect`, `NilGone`, `Bounded` | the invariants of `destroy` |
| `DestroyProofs!RetryDelayRange` | the range of `retryDelay`, for every attempt number |
| `DestroyProofs!RetryAfterHonoured` | the action property `HonoursRetryAfter` |
| `DestroyProofs!SandboxTypes`, `BothErrors`, `CleanupDetached` | the invariants of `with_sandbox` |
| `DestroyProofs!NoLeak` | the invariant `NoSilentLeak`: `nil` means that the sandbox is gone |
| `DestroyProofs!SandboxImplementation` | `SandboxSpec => ImplementsScopedUse` |
| `ExecStreamProofs!TypeCorrect`, `EventsExact`, `NothingLost` | the invariants of `exec_stream` |
| `ExecStreamProofs!BufferUsedUp` | the action property `UsesUp`, the variant of Next |
| `ProcessesProofs!TypeCorrect`, `ResultTrue`, `NothingSkipped` | the invariants of `processes` |
| `InvocationsProofs!TypeCorrect`, `DeclaredSent`, `PrivateOnly`, `Unchanged` | the invariants and the action property of `invocations` |
| `PrivateRequestsProofs!TypeCorrect`, `SentOnce`, `NoEcho`, `InTime` | the invariants of `private` |
| `UploadProofs!TypeCorrect`, `OnceInOrder`, `WholeOnSuccess`, `LandedStays` | the invariants of `upload` |
| `UploadProofs!EverFurther` | the action property `WriteProceeds`, the variant of the loop over chunks |
| `RevisionsProofs!TypeCorrect` | the invariant of `revisions` |
| `RevisionsProofs!LosesNoUpdate`, `ListsOnce` | the action properties `NoLostUpdate` and `ListedOnce` |
| `RevisionsProofs!EverOn` | the action property `CallAdvances`, the variant of the loop over pages |

Assumptions are those of the modules: any set of calls, of caller's keys
disjoint from the calls and without the empty key, any set of call sites, any
natural number of retries; any exchange times and lateness with a bound, any
Retry-After, any end of the context; any set of streams; any goroutines, handles
and bounds on the output; any declarations, overrides and contents; any
private calls, timeouts, command times and durations, any number of sends by
net/http; any writers, sizes and limits of an upload, with a chunk that is not empty
and fits into one request; any clients, any finite set of resources, any page of
at least one row.

*Transport.* `AtMostOnceEffect` is not inductive: it says nothing about requests
on the wire, and one of them could take effect next. `IInv` adds `OneWorker`
(keyed work runs once at a time and not again once remembered) and `KeyedOnce`
for calls with a key, and `SingleShot` for the others: the effect, the one
request that may still have it, and the answer that nothing was done exclude one
another. `PolicyCovers` is the link to the two lists of routes: whatever
`Replayable` allows is either given a key by `GeneratesKey` or `Harmless`.
`Performed` carries success from the effect to the answer to the outcome. The
refinement shows one lemma for each kind of step: `Issuing`, `Committing` and
`Returning` map to `Invoke`, `Perform` and the three returns, everything else to
a stutter (`Stutter`).

*Destroy.* `Counting` ties the number of attempts to the two counters, and the
clock to the sum of the delays behind it (`Elapsed`): an attempt in progress has
fewer than six coded failures behind it, because six of them use up the whole
deadline. Eight attempts follow: one, five more after coded failures or six
sleeps of which the last is never followed by an attempt, and two after
transport failures. `Timing` bounds the clock in each state, with `Spent(i)` for
the resends made so far; the induction over resends is the step
`Spent(i + 1) = Spent(i) + ResendTime`. `Waiting` keeps the time asked for
behind the wake-up time.

*WithSandbox.* `StepIInv` says that the loop keeps its invariant under whatever
context it is started; `Clock`, `FirstDelete`, `Sequenced` and `Joined` are what the
composition adds. The refinement of `ScopedUse` maps the progress of the function to
`Stage` and what it is about to return to `report`: `CreateSucceeds` and
`CreateFails` are `Open` and `Fail`, the end of the callback is `Leave` or `Panic`,
`Finish` is `Close` or, after a panic, `GoOn`, and of the cleanup only the DELETE that takes effect is a step, `Vanish`
(`CleanupTakesAway`); all others, and the end of the caller's context, are stutters.
That `Close` reports whatever is not known to be gone rests on `NilMeansGone`.

*ExecStream.* `IInv` says what has become of the part of the stream that has left
the buffer: `Parsed` (each event is the parse of a stretch that begins after a
blank line and ends before one), `Apart` and `Separate` (the stretches follow one
another, and none but the last holds more than one frame), `Covered` (every name
line behind `cut` is in one of them) and `Ending` (a clean end leaves nothing with a
name in the buffer). `NothingLost` follows: every name behind `cut` is in the stretch
of an event, which is the name's own frame or one that was merged behind a
keep-alive. The rest is geometry of positions.

*Processes.* `Passed` is the heart of it: whatever a handle's offsets have passed
has been returned, is held or was dropped by some `Wait` on it (`Seen`), which only
grows (`SeenGrows`). It survives unsynchronised reads and stores because `Asked` keeps the
same, stream by stream, for the offsets that a call of `Logs` has read so far, and `Answered`
places what it brings back behind them: an offset that goes back only repeats output.
`Ended` says that who has left the loop has seen the end. For a goroutine alone on its
handle, `Collected` adds that what it has put together reaches exactly to the offsets;
`HandedOn` follows the output to the caller, and `Truthful` the result.

*Invocations.* `Declares` follows what was declared into the Function, `Ready` from
there into the copy of an invocation, with its overrides, and `Sent` into the
request; `TypeOK` says that an invocation that is about to run refers to nothing
of anybody else's, which is why what others write cannot change it. `Trimmed` is
what the copy makes of an empty slice.

*PrivateRequests.* `SentOnceHome` says nothing of a call that has not been sent yet.
`IInv` adds that a plan is `Sealed` from the moment it is made (`Planned`), for a
grant from its issue on (`SealedGrants`), and that a sealed plan is never sent a
second time (`Counted`); no change of the client reaches a plan, because a plan holds
a client of its own, which is what the type invariant says of `grants`. `Timed` and
`Patient` place the timer of a plan between the limits, and `Measured` compares how
long it took with the timer.

*Upload.* `NoByteTwice` is about the file only, and a request on its way could spoil
it. `InFlight` adds that a Write has one request in flight at most, the one it waits
for or the one it gave up on, and that this is the request of its present chunk:
only a refusal is sent again. `InOrder` puts every piece of a Write in the file
before its request in flight and, unless an answer is still due, before its offset.
`SuccessIsWhole` and `LandedIsThere` hold of a Write that nobody else disturbs
(`Undisturbed`), and there the file is one of two: the pieces up to the offset
(`Before`), or those and the chunk at hand (`After`). `Before` holds as long as the
chunk has not been applied, `After` as soon as it is known to be. `Whole` says this
piece by piece; `WholeIsContent` derives what the properties say of the
first bytes of the file.

*Revisions.* `Agrees` is what a client's knowledge is worth: what it has seen of a
resource has an older revision, or it is what is there. It holds of everything that
carries knowledge, through `Sound` for calls and requests on their way, `Reply`
for answers, and `Client` for what is remembered; a request with a revision carries
what its caller had seen (`RequestsSound`), so that the service, which applies it
to that revision only, applies it to what it was made from. For lists `Place` says that
the rows up to the cursor were listed once if they were there all the time and at most
once if not, that none was listed behind it, and that the page at hand continues from
there: a row's place is settled by its name, wherever others come and go.

*Variants.* Every loop of the SDK ends only if none of its steps leads back to where it
was, whatever fails meanwhile. `NearerToReturn`, `WriteProceeds`, `CallAdvances` and
`UsesUp` say so of the resends of `requestInto`, the chunks of `Write`, the pages of a
list and the rounds of `Next`: a step that does not return raises a bounded counter,
or keeps the counters and moves on to a state from which the next step does. They are the safety half
of `CallReturns`, `CancelReturns`, `ListEnds` and `LoopEnds`, proved for all constants;
that the steps are taken at all is the fairness, which TLC checks. TLC
finds the four variants true on the instances of these runs as well (of `upload` for
`WriteProceeds`), whose configurations list the liveness instead.

Only model-checked: the liveness properties `CallReturns`, `CancelReturns`,
`CancelEnds`, `LoopEnds`, `WaitReturns` and `ListEnds`. Liveness under fairness is out
of the prover's reach, as are `ENABLED`, induction over data and recursive operators;
of these the modules here need only the first. Every other property of the runs that
are to pass is a theorem.

## Findings

`destroy_seven_attempts`: the six delays of `destroyRetryDelays` add up to
61 seconds, which is `destroyDeadline`. After the sixth sleep the head of the
loop therefore always finds the deadline reached (`client.go:340`), even if every
exchange is instant and every sleep exact: the last 30 seconds are slept for an
attempt that is never made, and the limit at `client.go:370` is dead code. The
tests (`sdk_test.go:305`, `sdk_test.go:326`) expect seven calls and six waits,
which they see because their `sleep` returns at once while `t.now` stays the
real clock.

`invocations_empty_list`: `cloneStrings` (`sandbox.go:427-432`) turns a slice that is
empty but not nil into nil, and `createBody` sends a network policy only for
lists that are not nil (`sandbox.go:77`). A Function declared with
`NetworkAllow: []string{}` therefore sends no policy, whereas `RunOnce` with the
same options sends an empty list, although a Function "inherits that route's
cleanup, timeout, idempotency, secret and network-policy behaviour"
(`sandbox.go:263-264`).

## Plan

Done: all modules of the table, with every safety and action property that a run
checks proved as a theorem, the refinements of `AtMostOnce` and `ScopedUse`, and the
variants of the loops. Next: for `Revisions`, that its calls implement `AtMostOnce` as those of
`Transport` do, which takes a history of what has been applied.

## Not modelled, and why

`types.go` declares data. `apiError`, `Error.Is` and `New` are pure and keep no
state: the models take the class of an answer, the number of retries, the client
and the endpoint as given. Parsing is left out: the three readers of invocation
secrets and their limits, the builders of network hosts and policies, query strings
and bodies, which matter to no property but those of `Invocations`. What the service
does with a late `Resume` and a later `Pause` is not in this repository, which
promises nothing about it: `Transport` shows only that `Resume` is among the calls
that are re-sent without a key. TLS and the framing of HTTP are net/http's; of
redirects, proxies and pooled connections `PrivateRequests` has what bears on a
secret. Wording of errors is left out everywhere.
