----------------------------- MODULE Revisions -----------------------------
(***************************************************************************)
(* The resources that are changed by revision: connections                 *)
(* (connections.go), network profiles (network_profiles.go), secret        *)
(* bundles (secret_bundles.go) and secrets (resources.go), which call the  *)
(* revision a version.  One collection of named resources of any of these  *)
(* kinds; several clients that read, list and change them, each by one     *)
(* call of requestInto at a time (RetryPolicy).                            *)
(*                                                                         *)
(* The content of a resource is the set of updates that made it what it    *)
(* is.  The service and the network are external: a request is applied at  *)
(* most once and perhaps after its caller has given up; a request with a   *)
(* revision is applied only to that revision; no revision comes again; a   *)
(* page holds what follows its cursor.                                     *)
(***************************************************************************)
EXTENDS RetryPolicy, FiniteSets

CONSTANTS
  Clients,
  Does,        \* the calls each client makes: kinds and names
  Names,       \* of resources, in the order of lists; 0 is no name
  Limit,       \* rows of a page
  Retries,     \* t.retries
  MaxUpdates   \* bound on the number of updates

Reads       == {"get", "list"}
Conditional == {"replace", "merge", "delete", "revoke"}
Removals    == {"delete", "revoke", "drop"}
Writes      == Conditional \cup {"create", "set", "drop"}

ASSUME ConstantsAssumption ==
  /\ Does \in [Clients -> SUBSET ((Reads \cup Writes) \X (Names \cup {0}))]
  /\ Names \subseteq Nat \ {0} /\ IsFiniteSet(Names)
  /\ Limit \in Nat \ {0} /\ Retries \in Nat /\ MaxUpdates \in Nat

Updates == 1 .. MaxUpdates
Info    == [revision : Nat, basis : SUBSET Updates]
NoInfo  == [revision |-> 0, basis |-> {}]
Calls   == [kind : Reads \cup Writes, name : Names \cup {0}, info : Info,
            update : Updates \cup {0}]

NoCall  == [kind |-> "get", name |-> 0, info |-> NoInfo, update |-> 0]

VARIABLES
  store,    \* the resources at the service
  pc,       \* where each client is in requestInto
  call,     \* the call it makes
  attempt,  \* the attempt it is at
  answer,   \* the answer to that
  known,    \* what each client knows of each resource
  cursor,   \* cursor of a list
  times,    \* how often each row is in it; 2 stands for more than once
  found,    \* the rows of a list, or the resource a call returns
  lasting,  \* what has been there since the list began
  net,      \* requests not served yet; one that is lost stays
  updates   \* how many updates have been asked for

listing == <<cursor, times, found, lasting>>
vars == <<store, pc, call, attempt, answer, known, listing, net, updates>>

NoAnswer == [what |-> "none", page |-> <<>>, next |-> 0]
Replies  == {NoAnswer} \cup [what : Success, page : [Names -> Info], next : Names \cup {0}]

TypeOK ==
  /\ store \in [Names -> [present : BOOLEAN, revision : Nat, content : SUBSET Updates]]
  /\ pc \in [Clients -> {"idle", "ready", "waiting"}]
  /\ call \in [Clients -> Calls]
  /\ attempt \in [Clients -> 0 .. Retries] /\ answer \in [Clients -> Replies]
  /\ known \in [Clients -> [Names -> Info]] /\ found \in [Clients -> [Names -> Info]]
  /\ cursor \in [Clients -> Names \cup {0}]
  /\ times \in [Clients -> [Names -> 0 .. 2]]
  /\ lasting \in [Clients -> SUBSET Names]
  /\ updates \in 0 .. MaxUpdates
  /\ \A r \in net : r.call \in Calls /\ (r.call.kind \in Conditional => r.revision > 0)

Init ==
  /\ \E there \in BOOLEAN :
       store = [n \in Names |-> [present |-> there, revision |-> 1, content |-> {}]]
  /\ pc = [c \in Clients |-> "idle"]
  /\ call = [c \in Clients |-> NoCall]
  /\ attempt = [c \in Clients |-> 0]
  /\ answer = [c \in Clients |-> NoAnswer]
  /\ known = [c \in Clients |-> [n \in Names |-> NoInfo]]
  /\ cursor = [c \in Clients |-> 0]
  /\ times = [c \in Clients |-> [n \in Names |-> 0]]
  /\ found = [c \in Clients |-> [n \in Names |-> NoInfo]]
  /\ lasting = [c \in Clients |-> {}]
  /\ net = {} /\ updates = 0

Calling(c) == pc[c] \in {"ready", "waiting"}

Present == {n \in Names : store[n].present}

-----------------------------------------------------------------------------
(* Calls.                                                                  *)

Begin(c, kind, n, info) ==
  /\ ~Calling(c) /\ <<kind, n>> \in Does[c]
  /\ pc' = [pc EXCEPT ![c] = "ready"]
  /\ call' = [call EXCEPT ![c] =
       [kind |-> kind, name |-> n, info |-> info,
        update |-> IF kind \in Writes THEN updates + 1 ELSE 0]]
  /\ updates' = IF kind \in Writes THEN updates + 1 ELSE updates
  /\ updates' <= MaxUpdates
  /\ times' = [times EXCEPT ![c] = [m \in Names |-> 0]]
  /\ lasting' = [lasting EXCEPT ![c] = IF kind = "list" THEN Present ELSE {}]
  /\ UNCHANGED <<store, cursor, found, attempt, answer, known, net>>

(* GetConnection, GetNetworkProfile, GetSecret; the lists.                 *)
Read(c, n) == Begin(c, "get", n, NoInfo)
List(c)    == Begin(c, "list", 0, NoInfo)

(* CreateConnection, CreateNetworkProfile, WriteSecretBundle in the mode   *)
(* create; SetSecret and DeleteSecret, which carry no version.             *)
Unversioned(c, kind, n) == Begin(c, kind, n, NoInfo)

(* A change with whatever revision the caller has.                         *)
UncheckedChange(c, kind, n) == Begin(c, kind, n, known[c][n])

(* ReplaceConnection, ReplaceNetworkProfile, WriteSecretBundle in the      *)
(* modes merge and replace, RestrictSecretConsumers; RevokeConnection,     *)
(* DeleteSecretBundle, DeleteSecretVersion ("delete") and                  *)
(* RevokeNetworkProfile ("revoke"): they return an error at once without a *)
(* positive revision.                                                      *)
Change(c, kind, n) ==
  /\ known[c][n].revision > 0
  /\ Begin(c, kind, n, known[c][n])

(* SetSecretWithAccess: version 0 stands for none.                         *)
SetWithAccess(c, n) == Begin(c, "set", n, known[c][n])

-----------------------------------------------------------------------------
(* requestInto.                                                            *)

Method(kind) ==
  CASE kind \in Reads            -> "GET"
    [] kind = "create"           -> "POST"
    [] kind \in {"replace", "set"} -> "PUT"
    [] kind = "merge"            -> "PATCH"
    [] OTHER                     -> "DELETE"

(* transport.request, which deletes, decodes what is answered;             *)
(* RevokeNetworkProfile does not.                                          *)
Site(kind) ==
  [method |-> Method(kind), route |-> "/v1/connections/{id}/{id}",
   output |-> kind # "revoke"]

(* No change with its revision in the path.                                *)
NoQuery(cl) == IF cl.kind \in Conditional THEN 1 ELSE 0

(* ?revision= or ?version= in the path; 0 when it is not there.            *)
Query(cl) == IF cl.kind \in Conditional \cup {"set"} THEN cl.info.revision ELSE 0

Request(c) ==
  [by |-> c, call |-> call[c], revision |-> Query(call[c]),
   cursor |-> cursor[c], attempt |-> attempt[c]]

Send(c) ==
  /\ pc[c] = "ready"
  /\ pc' = [pc EXCEPT ![c] = "waiting"]
  /\ net' = net \cup {Request(c)}
  /\ UNCHANGED <<store, call, attempt, answer, known, listing, updates>>

(* The call returns; what a list has of its rows is dropped.               *)
Return(c) ==
  /\ pc' = [pc EXCEPT ![c] = "idle"]
  /\ call' = [call EXCEPT ![c] = NoCall]
  /\ attempt' = [attempt EXCEPT ![c] = 0]
  /\ cursor' = [cursor EXCEPT ![c] = 0]
  /\ times' = [times EXCEPT ![c] = [n \in Names |-> 0]]
  /\ found' = [found EXCEPT ![c] = [n \in Names |-> NoInfo]]
  /\ lasting' = [lasting EXCEPT ![c] = {}]

Retry(c, allowed) ==
  IF allowed
  THEN /\ pc' = [pc EXCEPT ![c] = "ready"]
       /\ attempt' = [attempt EXCEPT ![c] = @ + 1]
       /\ UNCHANGED <<call, listing>>
  ELSE Return(c)

(* The requests that may still be served when the client no longer waits:  *)
(* changes; a read that nobody waits for does nothing.                     *)
Abandoned(c) == {r \in net : ~(r.by = c /\ r.call.kind \in Reads)}

(* client.Do fails while it waits, before or after its request is served.  *)
TransportError(c) ==
  /\ pc[c] = "waiting"
  /\ Retry(c, CanRetryTransport(Site(call[c].kind), attempt[c], Retries))
  /\ answer' = [answer EXCEPT ![c] = NoAnswer]
  /\ net' = Abandoned(c)
  /\ UNCHANGED <<store, known, updates>>

(* An error for an answer: the request was not served, except that one     *)
(* that failed may have been or may still be.                              *)
HandleError(c) ==
  /\ pc[c] = "waiting"
  /\ \E what \in Answers \ Success :
       /\ Retry(c, CanRetry(Site(call[c].kind), what, attempt[c], Retries))
       /\ IF what = "failed" THEN net' = Abandoned(c)
          ELSE Request(c) \in net /\ net' = net \ {Request(c)}
  /\ answer' = [answer EXCEPT ![c] = NoAnswer]
  /\ UNCHANGED <<store, known, updates>>

(* A success whose body does not decode.                                   *)
HandleMalformed(c) ==
  /\ pc[c] = "waiting" /\ answer[c].what = "malformed" /\ Site(call[c].kind).output
  /\ Return(c)
  /\ answer' = [answer EXCEPT ![c] = NoAnswer]
  /\ UNCHANGED <<store, known, net, updates>>

(* Some of what is known replaced by what is newer.                        *)
Learn(old, new) == [n \in Names |-> IF new[n] # NoInfo THEN new[n] ELSE old[n]]

Succeeds(c) ==
  answer[c].what = "ok" \/ (answer[c].what = "malformed" /\ ~Site(call[c].kind).output)

HandleSuccess(c) ==
  /\ pc[c] = "waiting" /\ Succeeds(c) /\ call[c].kind # "list"
  /\ Return(c)
  /\ known' = [known EXCEPT ![c] = Learn(@, answer[c].page)]
  /\ answer' = [answer EXCEPT ![c] = NoAnswer]
  /\ UNCHANGED <<store, net, updates>>

(* How often each row is in a list, with the page at hand.                 *)
Listed(c) ==
  [n \in Names |->
     IF answer[c].page[n] # NoInfo /\ times[c][n] < 2 THEN times[c][n] + 1
     ELSE times[c][n]]

(* A page, after which the list returns, or asks for what follows next.    *)
Page(c, last, next) ==
  /\ pc[c] = "waiting" /\ Succeeds(c) /\ call[c].kind = "list"
  /\ IF last
     THEN /\ Return(c)
          /\ known' = [known EXCEPT ![c] = Learn(@, Learn(found[c], answer[c].page))]
     ELSE /\ pc' = [pc EXCEPT ![c] = "ready"]
          /\ attempt' = [attempt EXCEPT ![c] = 0]
          /\ times' = [times EXCEPT ![c] = Listed(c)]
          /\ found' = [found EXCEPT ![c] = Learn(@, answer[c].page)]
          /\ cursor' = [cursor EXCEPT ![c] = next]
          /\ UNCHANGED <<call, known, lasting>>
  /\ answer' = [answer EXCEPT ![c] = NoAnswer]
  /\ UNCHANGED <<store, net, updates>>

(* The list that returns its first page, and the one that loses its place. *)
HandleFirstPage(c) == Page(c, TRUE, 0)
HandleLostCursor(c) == Page(c, answer[c].next = 0, 0)

(* The loop of the lists: until the service names no cursor.               *)
HandlePage(c) == Page(c, answer[c].next = 0, answer[c].next)

-----------------------------------------------------------------------------
(* The service and the network.                                            *)

Shown(n, s) == IF s[n].present THEN [revision |-> s[n].revision, basis |-> s[n].content]
               ELSE NoInfo

(* What is shown of some resources.                                        *)
Seen(shown, s) == [n \in Names |-> IF n \in shown THEN Shown(n, s) ELSE NoInfo]

(* An answer reaches a client that still waits for it.  An answer that is  *)
(* lost is a transport error of its client.                                *)
Answered(r, a) ==
  IF pc[r.by] = "waiting" /\ answer[r.by] = NoAnswer /\ Request(r.by) = r
  THEN answer' = [answer EXCEPT ![r.by] = a]
  ELSE UNCHANGED answer

(* A read, of one resource or of the page behind a cursor.                 *)
Behind(r) == {n \in Present : n > r.cursor}

Rows(r) == {n \in Behind(r) : Cardinality({m \in Behind(r) : m < n}) < Limit}

ServeRead(r) ==
  /\ r \in net /\ r.call.kind \in Reads
  /\ IF r.call.kind = "list"
     THEN \E next \in Rows(r) \cup {0} :
            /\ next = 0 => Rows(r) = Behind(r)
            /\ next # 0 => \A n \in Rows(r) : n <= next
            /\ Answered(r, [what |-> "ok", page |-> Seen(Rows(r), store), next |-> next])
     ELSE /\ r.call.name \in Present
          /\ Answered(r, [what |-> "ok", page |-> Seen({r.call.name}, store), next |-> 0])
  /\ net' = net \ {r}
  /\ UNCHANGED <<store, pc, call, attempt, known, listing, updates>>

(* A change, with the revision it is for, or none.                         *)
Applicable(r) ==
  LET now == store[r.call.name]
  IN  CASE r.call.kind = "create"               -> ~now.present
        [] r.call.kind = "set" /\ r.revision = 0 -> TRUE
        [] OTHER -> now.present /\ r.revision \in {0, now.revision}

Changed(r) ==
  LET now == store[r.call.name]
  IN  [present  |-> r.call.kind \notin Removals,
       revision |-> now.revision + 1,
       content  |-> CASE r.call.kind \in Removals -> {}
                      [] r.call.kind = "merge" -> now.content \cup {r.call.update}
                      [] OTHER -> r.call.info.basis \cup {r.call.update}]

Apply(r) ==
  /\ r \in net /\ r.call.kind \in Writes
  /\ Applicable(r)
  /\ store' = [store EXCEPT ![r.call.name] = Changed(r)]
  /\ lasting' = [c \in Clients |->
       IF store'[r.call.name].present THEN lasting[c] ELSE lasting[c] \ {r.call.name}]
  /\ \E what \in Success :
       Answered(r, [what |-> what, page |-> Seen({r.call.name}, store'), next |-> 0])
  /\ net' = net \ {r}
  /\ UNCHANGED <<pc, call, attempt, known, cursor, times, found, updates>>

-----------------------------------------------------------------------------
Loop(c) ==
  \/ Send(c) \/ TransportError(c) \/ HandleError(c) \/ HandleMalformed(c)
  \/ HandleSuccess(c) \/ HandlePage(c)

Next ==
  \/ \E c \in Clients :
       \/ List(c) \/ Loop(c)
       \/ \E n \in Names :
            \/ Read(c, n) \/ SetWithAccess(c, n)
            \/ \E kind \in {"create", "set", "drop"} : Unversioned(c, kind, n)
            \/ \E kind \in Conditional : Change(c, kind, n)
  \/ \E r \in net : ServeRead(r) \/ Apply(r)

Spec == Init /\ [][Next]_vars

(* Every attempt ends, with an answer or an error.                         *)
FairSpec == Spec /\ \A c \in Clients : WF_vars(Loop(c))

-----------------------------------------------------------------------------
(* Properties.                                                             *)

(* "WithoutVersion": the calls of secrets that overwrite whatever is there.*)
Overwrites(cl) == cl.kind = "drop" \/ (cl.kind = "set" /\ cl.info.revision = 0)

(* Nobody changes or removes by revision what he has not seen: the content *)
(* a change was made from is the content it replaces, however late it is   *)
(* applied, however often it was sent, and whatever happened between the   *)
(* read and the change (connections.go:251-257, TestConnectionProxyOrigin- *)
(* AndCAS).                                                                *)
NoLostUpdate ==
  [][\A n \in Names : store[n].present /\ store'[n] # store[n] =>
       \E r \in net : r.call.name = n /\ r \notin net' /\
         (Overwrites(r.call) \/ r.call.info.basis = store[n].content)]_vars

(* A list returns every resource that was there all the time exactly once, *)
(* and no other twice, although its pages are read one after the other     *)
(* while resources come and go, and are asked for again when they fail     *)
(* (connections.go:264-284).                                               *)
ListedOnce ==
  [][\A c \in Clients : HandlePage(c) /\ ~Calling(c)' =>
       \A n \in Names : Listed(c)[n] <= 1 /\ (n \in lasting[c] => Listed(c)[n] = 1)]_vars

(* A list returns, when every attempt of it ends (connections.go:267).     *)
ListEnds ==
  \A c \in Clients : call[c].kind = "list" ~> call[c].kind # "list"

(* A call that goes on sends its request, makes the next of a bounded      *)
(* number of attempts at it, or is a list at a page behind all those it    *)
(* has read: over a finite collection no call can go round for ever,       *)
(* whatever comes and goes meanwhile (connections.go:267-283,              *)
(* client.go:422-464).                                                     *)
Advances(c) ==
  \/ cursor'[c] > cursor[c] /\ attempt'[c] = 0 /\ call[c].kind = "list"
  \/ /\ cursor'[c] = cursor[c]
     /\ \/ attempt'[c] = attempt[c] + 1 /\ attempt'[c] <= Retries
        \/ attempt'[c] = attempt[c] /\ pc[c] = "ready" /\ pc'[c] = "waiting"

CallAdvances ==
  [][\A c \in Clients : Calling(c) /\ Calling(c)' =>
       Advances(c) \/ UNCHANGED <<pc[c], cursor[c], attempt[c]>>]_vars

-----------------------------------------------------------------------------
(* The inductive invariant.                                                *)

(* What somebody has seen of a resource is old, or it is what is there.    *)
Agrees(n, info) ==
  info.revision > 0 =>
    /\ info.revision <= store[n].revision
    /\ store[n].present /\ info.revision = store[n].revision => info.basis = store[n].content

(* A call carries what its caller has seen.                                *)
Sound(cl) ==
  /\ cl.name \in Names => Agrees(cl.name, cl.info)
  /\ cl.kind \in Writes => cl.name \in Names /\ cl.update \in Updates
  /\ cl.kind \in Conditional => cl.info.revision > 0

RequestsSound ==
  \A r \in net :
    /\ r \in [by : Clients, call : Calls, revision : Nat, cursor : Names \cup {0},
             attempt : 0 .. Retries]
    /\ r.revision = Query(r.call) /\ Sound(r.call)

(* An answer is there only for who waits for it.                           *)
Reply(c) ==
  answer[c] # NoAnswer =>
    /\ pc[c] = "waiting"
    /\ \A n \in Names : Agrees(n, answer[c].page[n])

(* The rows at or before the cursor are in the list, once; the page at     *)
(* hand has those from there to the next cursor.                           *)
Place(c) ==
  /\ \A n \in Names :
       /\ n > cursor[c] => times[c][n] = 0
       /\ n <= cursor[c] => times[c][n] <= 1 /\ (n \in lasting[c] => times[c][n] = 1)
  /\ answer[c] # NoAnswer =>
       /\ answer[c].next # 0 => answer[c].next > cursor[c]
       /\ \A n \in Names :
            /\ answer[c].page[n] # NoInfo =>
                 n > cursor[c] /\ (answer[c].next # 0 => n <= answer[c].next)
            /\ n \in lasting[c] /\ n > cursor[c] /\ (answer[c].next # 0 => n <= answer[c].next) =>
                 answer[c].page[n] # NoInfo

Client(c) ==
  /\ Sound(call[c]) /\ Reply(c)
  /\ \A n \in Names : Agrees(n, known[c][n]) /\ Agrees(n, found[c][n])
  /\ lasting[c] \subseteq Present
  /\ ~Calling(c) => cursor[c] = 0
  /\ call[c].kind = "list" => Place(c)

IInv ==
  /\ TypeOK /\ RequestsSound
  /\ \A n \in Names : store[n].revision > 0
  /\ \A c \in Clients : Client(c)
=============================================================================
