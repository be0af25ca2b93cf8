-------------------------- MODULE RevisionsProofs --------------------------
(***************************************************************************)
(* Theorems about Revisions: for any number of clients and resources, any  *)
(* length of a page, and any number of resends and updates, IInv is        *)
(* inductive, and the action properties follow from it.                    *)
(***************************************************************************)
EXTENDS Revisions, FiniteSetTheorems, TLAPS

LEMMA NoInfoIsInfo == NoInfo \in Info /\ \A n \in Names : Agrees(n, NoInfo)
BY DEF NoInfo, Info, Agrees

LEMMA NoCallIsSound == NoCall \in Calls /\ Sound(NoCall)
BY NoInfoIsInfo, ConstantsAssumption
   DEF NoCall, Calls, Sound, Reads, Writes, Conditional

(* What is replaced by what is newer stays what was seen.                  *)
LEMMA LearnAgrees ==
  ASSUME NEW old \in [Names -> Info], NEW new \in [Names -> Info],
         \A n \in Names : Agrees(n, old[n]) /\ Agrees(n, new[n])
  PROVE  /\ Learn(old, new) \in [Names -> Info]
         /\ \A n \in Names : Agrees(n, Learn(old, new)[n])
BY DEF Learn

(* A client whose variables a step leaves alone, as it leaves the store.   *)
LEMMA Unmoved ==
  ASSUME NEW v \in Clients, store' = store,
         pc'[v] = pc[v], call'[v] = call[v], answer'[v] = answer[v],
         known'[v] = known[v], cursor'[v] = cursor[v], times'[v] = times[v],
         found'[v] = found[v], lasting'[v] = lasting[v]
  PROVE  Client(v)' <=> Client(v)
<1>1. \A n \in Names : \A i : Agrees(n, i)' <=> Agrees(n, i)
  BY DEF Agrees
<1>2. Sound(call[v])' <=> Sound(call[v])
  BY DEF Sound, Agrees
<1>3. Reply(v)' <=> Reply(v)
  BY DEF Reply, Agrees
<1>4. Place(v)' <=> Place(v)
  BY DEF Place
<1>5. Present' = Present /\ (Calling(v)' <=> Calling(v))
  BY DEF Present, Calling
<1>. QED  BY <1>2, <1>3, <1>4, <1>5 DEF Client, Agrees

(* A step of one client, which sees to itself and to what it sends.        *)
LEMMA OwnStep ==
  ASSUME IInv, TypeOK', NEW c \in Clients, UNCHANGED store,
         \A v \in Clients \ {c} :
           /\ pc'[v] = pc[v] /\ call'[v] = call[v] /\ answer'[v] = answer[v]
           /\ known'[v] = known[v] /\ cursor'[v] = cursor[v] /\ times'[v] = times[v]
           /\ found'[v] = found[v] /\ lasting'[v] = lasting[v],
         RequestsSound', Client(c)'
  PROVE  IInv'
<1>1. ASSUME NEW v \in Clients
      PROVE  Client(v)'
  <2>1. CASE v = c
    BY <2>1
  <2>2. CASE v # c
    BY <2>2, Unmoved DEF IInv
  <2>. QED  BY <2>1, <2>2
<1>2. \A n \in Names : store'[n].revision > 0
  BY DEF IInv
<1>. QED  BY <1>1, <1>2 DEF IInv

(* Requests that are in flight already are sound as long as the store is   *)
(* what it was.                                                            *)
LEMMA StillSound ==
  ASSUME IInv, UNCHANGED store, net' \subseteq net
  PROVE  RequestsSound'
BY DEF IInv, RequestsSound, Sound, Agrees
-----------------------------------------------------------------------------
(* Calls.                                                                  *)

(* A call begins with something its caller has seen, or with nothing.      *)
LEMMA BeginIInv ==
  ASSUME IInv, NEW c \in Clients, NEW kind, NEW n \in Names \cup {0}, NEW info \in Info,
         Begin(c, kind, n, info),
         n \in Names => Agrees(n, info),
         kind \in Writes => n \in Names,
         kind \in Conditional => info.revision > 0
  PROVE  IInv'
<1> DEFINE cl == [kind |-> kind, name |-> n, info |-> info,
                  update |-> IF kind \in Writes THEN updates + 1 ELSE 0]
<1>0. /\ ~Calling(c) /\ <<kind, n>> \in Does[c]
      /\ pc' = [pc EXCEPT ![c] = "ready"] /\ call' = [call EXCEPT ![c] = cl]
      /\ updates' = (IF kind \in Writes THEN updates + 1 ELSE updates) /\ updates' <= MaxUpdates
      /\ times' = [times EXCEPT ![c] = [m \in Names |-> 0]]
      /\ lasting' = [lasting EXCEPT ![c] = IF kind = "list" THEN Present ELSE {}]
      /\ UNCHANGED <<store, cursor, found, attempt, answer, known, net>>
  BY DEF Begin
<1>1. TypeOK /\ kind \in Reads \cup Writes
  BY <1>0, ConstantsAssumption DEF IInv
<1>2. updates \in Nat /\ MaxUpdates \in Nat /\ updates' \in 0 .. MaxUpdates
  BY <1>0, <1>1, ConstantsAssumption DEF TypeOK
<1>3. kind \in Writes => updates + 1 \in Updates
  BY <1>0, <1>2 DEF Updates
<1>4. cl \in Calls
  BY <1>1, <1>3 DEF Calls
<1>5. /\ cl.kind = kind /\ cl.name = n /\ cl.info = info
      /\ kind \in Writes => cl.update \in Updates
  BY <1>3
<1>. HIDE DEF cl
<1>6. Present \subseteq Names
  BY DEF Present
<1>7. TypeOK'
  <2>1. /\ pc' \in [Clients -> {"idle", "ready", "waiting"}]
        /\ call' \in [Clients -> Calls]
        /\ lasting' \in [Clients -> SUBSET Names]
    BY <1>0, <1>1, <1>4, <1>6 DEF TypeOK
  <2>2. times' \in [Clients -> [Names -> 0 .. 2]]
    BY <1>0, <1>1 DEF TypeOK
  <2>. QED  BY <1>0, <1>1, <1>2, <2>1, <2>2 DEF TypeOK
<1>8. /\ pc'[c] = "ready" /\ call'[c] = cl /\ \A m \in Names : times'[c][m] = 0
      /\ lasting'[c] = IF kind = "list" THEN Present ELSE {}
      /\ \A v \in Clients \ {c} : /\ pc'[v] = pc[v] /\ call'[v] = call[v]
                                 /\ times'[v] = times[v] /\ lasting'[v] = lasting[v]
  BY <1>0, <1>1 DEF TypeOK
<1>9. Client(c) /\ answer[c] = NoAnswer /\ cursor[c] = 0
  BY <1>0 DEF IInv, Client, Reply, Calling
<1>10. Sound(call[c])'
  BY <1>0, <1>5, <1>8 DEF Sound, Agrees
<1>11. Reply(c)'
  BY <1>0, <1>9 DEF Reply
<1>12. Place(c)'
  <2>1. \A m \in Names : m \in Nat /\ m > 0
    BY ConstantsAssumption
  <2>. QED  BY <1>0, <1>8, <1>9, <2>1 DEF Place
<1>13. \A m \in Names : Agrees(m, known[c][m])' /\ Agrees(m, found[c][m])'
  BY <1>0, <1>9 DEF Client, Agrees
<1>14. (lasting[c] \subseteq Present)'
  BY <1>0, <1>8 DEF Present
<1>15. Client(c)'
  BY <1>8, <1>10, <1>11, <1>12, <1>13, <1>14 DEF Client, Calling
<1>16. RequestsSound'
  BY <1>0, StillSound
<1>. QED  BY <1>0, <1>7, <1>8, <1>15, <1>16, OwnStep

(* What a client knows is what it has seen.                                *)
LEMMA KnownAgrees ==
  ASSUME IInv, NEW c \in Clients, NEW n \in Names
  PROVE  known[c][n] \in Info /\ Agrees(n, known[c][n])
BY DEF IInv, TypeOK, Client

LEMMA CallIInv ==
  ASSUME IInv, NEW c \in Clients,
         \/ List(c)
         \/ \E n \in Names :
              \/ Read(c, n) \/ SetWithAccess(c, n)
              \/ \E kind \in {"create", "set", "drop"} : Unversioned(c, kind, n)
              \/ \E kind \in Conditional : Change(c, kind, n)
  PROVE  IInv'
<1>1. CASE List(c)
  BY <1>1, BeginIInv, NoInfoIsInfo, ConstantsAssumption DEF List, Writes, Conditional
<1>2. ASSUME NEW n \in Names, Read(c, n)
      PROVE  IInv'
  BY <1>2, BeginIInv, NoInfoIsInfo DEF Read, Conditional
<1>3. ASSUME NEW n \in Names, SetWithAccess(c, n)
      PROVE  IInv'
  BY <1>3, BeginIInv, KnownAgrees DEF SetWithAccess, Conditional
<1>4. ASSUME NEW n \in Names, NEW kind \in {"create", "set", "drop"}, Unversioned(c, kind, n)
      PROVE  IInv'
  BY <1>4, BeginIInv, NoInfoIsInfo DEF Unversioned, Conditional
<1>5. ASSUME NEW n \in Names, NEW kind \in Conditional, Change(c, kind, n)
      PROVE  IInv'
  BY <1>5, BeginIInv, KnownAgrees DEF Change
<1>. QED  BY <1>1, <1>2, <1>3, <1>4, <1>5
-----------------------------------------------------------------------------
(* requestInto.                                                            *)

(* A request carries what its call does.                                   *)
LEMMA SendIInv ==
  ASSUME IInv, NEW c \in Clients, Send(c)
  PROVE  IInv'
<1>0. /\ pc[c] = "ready" /\ pc' = [pc EXCEPT ![c] = "waiting"]
      /\ net' = net \cup {Request(c)}
      /\ UNCHANGED <<store, call, attempt, answer, known, cursor, times, found, lasting, updates>>
  BY DEF Send, listing
<1>1. TypeOK /\ Client(c)
  BY DEF IInv
<1>2. /\ call[c] \in Calls /\ cursor[c] \in Names \cup {0} /\ attempt[c] \in 0 .. Retries
      /\ Sound(call[c])
  BY <1>1 DEF TypeOK, Client
<1>3. Query(call[c]) \in Nat
  BY <1>2 DEF Query, Calls, Info
<1>4. /\ Request(c) \in [by : Clients, call : Calls, revision : Nat, cursor : Names \cup {0},
                         attempt : 0 .. Retries]
      /\ Request(c).call = call[c] /\ Request(c).revision = Query(call[c])
  BY <1>2, <1>3 DEF Request
<1>5. ASSUME NEW r \in net'
      PROVE  /\ r \in [by : Clients, call : Calls, revision : Nat, cursor : Names \cup {0},
                       attempt : 0 .. Retries]
             /\ r.revision = Query(r.call) /\ Sound(r.call)
  BY <1>0, <1>2, <1>4 DEF IInv, RequestsSound
<1>6. RequestsSound'
  BY <1>0, <1>5 DEF RequestsSound, Sound, Agrees
<1>7. TypeOK'
  <2>1. pc' \in [Clients -> {"idle", "ready", "waiting"}]
    BY <1>0, <1>1 DEF TypeOK
  <2>2. \A r \in net' : r.call \in Calls /\ (r.call.kind \in Conditional => r.revision > 0)
    BY <1>5 DEF Sound, Query
  <2>. QED  BY <1>0, <1>1, <2>1, <2>2 DEF TypeOK
<1>8. pc'[c] = "waiting" /\ \A v \in Clients \ {c} : pc'[v] = pc[v]
  BY <1>0, <1>1 DEF TypeOK
<1>9. answer[c] = NoAnswer
  BY <1>0, <1>1 DEF Client, Reply
<1>10. Sound(call[c])' /\ Reply(c)'
  BY <1>0, <1>2, <1>9 DEF Sound, Agrees, Reply
<1>11. Place(c)' <=> Place(c)
  BY <1>0 DEF Place
<1>12. Client(c)'
  BY <1>0, <1>1, <1>8, <1>10, <1>11 DEF Client, Agrees, Calling, Present
<1>. QED  BY <1>0, <1>6, <1>7, <1>8, <1>12, OwnStep

(* A call that returns, with something seen or with nothing.               *)
LEMMA ReturnIInv ==
  ASSUME IInv, NEW c \in Clients, Return(c), NEW k \in [Names -> Info],
         \A n \in Names : Agrees(n, k[n]),
         known' = [known EXCEPT ![c] = k],
         answer' = [answer EXCEPT ![c] = NoAnswer],
         UNCHANGED <<store, updates>>, net' \subseteq net
  PROVE  IInv'
<1>0. /\ pc' = [pc EXCEPT ![c] = "idle"] /\ call' = [call EXCEPT ![c] = NoCall]
      /\ attempt' = [attempt EXCEPT ![c] = 0] /\ cursor' = [cursor EXCEPT ![c] = 0]
      /\ times' = [times EXCEPT ![c] = [n \in Names |-> 0]]
      /\ found' = [found EXCEPT ![c] = [n \in Names |-> NoInfo]]
      /\ lasting' = [lasting EXCEPT ![c] = {}]
  BY DEF Return
<1>1. TypeOK
  BY DEF IInv
<1>2. /\ pc'[c] = "idle" /\ call'[c] = NoCall /\ cursor'[c] = 0 /\ lasting'[c] = {}
      /\ found'[c] = [n \in Names |-> NoInfo] /\ known'[c] = k
  BY <1>0, <1>1 DEF TypeOK
<1>3. \A v \in Clients \ {c} :
        /\ pc'[v] = pc[v] /\ call'[v] = call[v] /\ known'[v] = known[v] /\ cursor'[v] = cursor[v]
        /\ times'[v] = times[v] /\ found'[v] = found[v] /\ lasting'[v] = lasting[v]
  BY <1>0, <1>1 DEF TypeOK
<1>4. /\ answer'[c] = NoAnswer /\ answer' \in [Clients -> Replies]
      /\ \A v \in Clients \ {c} : answer'[v] = answer[v]
  BY <1>1 DEF TypeOK, Replies
<1>5. TypeOK'
  <2>1. /\ pc' \in [Clients -> {"idle", "ready", "waiting"}]
        /\ call' \in [Clients -> Calls]
        /\ lasting' \in [Clients -> SUBSET Names]
        /\ cursor' \in [Clients -> Names \cup {0}]
    BY <1>0, <1>1, NoCallIsSound DEF TypeOK
  <2>2. /\ attempt' \in [Clients -> 0 .. Retries]
        /\ times' \in [Clients -> [Names -> 0 .. 2]]
    BY <1>0, <1>1, ConstantsAssumption DEF TypeOK
  <2>3. known' \in [Clients -> [Names -> Info]] /\ found' \in [Clients -> [Names -> Info]]
    <3>1. [n \in Names |-> NoInfo] \in [Names -> Info]
      BY NoInfoIsInfo
    <3>. QED  BY <1>0, <1>1, <3>1 DEF TypeOK
  <2>. QED  BY <1>1, <1>4, <2>1, <2>2, <2>3 DEF TypeOK
<1>6. NoCall.kind = "get"
  BY DEF NoCall
<1>7. Client(c)'
  <2>1. Sound(call[c])'
    BY <1>2, NoCallIsSound DEF Sound, Agrees
  <2>2. Reply(c)'
    BY <1>4 DEF Reply
  <2>3. \A n \in Names : Agrees(n, known[c][n])' /\ Agrees(n, found[c][n])'
    BY <1>2, NoInfoIsInfo DEF Agrees
  <2>. QED  BY <1>2, <1>6, <2>1, <2>2, <2>3 DEF Client
<1>8. RequestsSound'
  BY StillSound
<1>. QED  BY <1>3, <1>4, <1>5, <1>7, <1>8, OwnStep

(* A request that is sent again.                                           *)
LEMMA ResendIInv ==
  ASSUME IInv, NEW c \in Clients, pc[c] = "waiting", attempt[c] < Retries,
         pc' = [pc EXCEPT ![c] = "ready"],
         attempt' = [attempt EXCEPT ![c] = @ + 1],
         answer' = [answer EXCEPT ![c] = NoAnswer],
         UNCHANGED <<store, call, known, cursor, times, found, lasting, updates>>,
         net' \subseteq net
  PROVE  IInv'
<1>1. TypeOK /\ Client(c)
  BY DEF IInv
<1>2. /\ pc'[c] = "ready" /\ answer'[c] = NoAnswer
      /\ \A v \in Clients \ {c} : pc'[v] = pc[v] /\ answer'[v] = answer[v]
  BY <1>1 DEF TypeOK
<1>3. TypeOK'
  <2>1. pc' \in [Clients -> {"idle", "ready", "waiting"}]
    BY <1>1 DEF TypeOK
  <2>2. attempt' \in [Clients -> 0 .. Retries]
    BY <1>1, ConstantsAssumption DEF TypeOK
  <2>3. answer' \in [Clients -> Replies]
    BY <1>1 DEF TypeOK, Replies
  <2>. QED  BY <1>1, <2>1, <2>2, <2>3 DEF TypeOK
<1>4. Sound(call[c])' /\ Reply(c)'
  BY <1>1, <1>2 DEF Client, Sound, Agrees, Reply
<1>5. Place(c) => Place(c)'
  BY <1>2 DEF Place
<1>6. Client(c)'
  BY <1>1, <1>2, <1>4, <1>5 DEF Client, Agrees, Calling, Present
<1>7. RequestsSound'
  BY StillSound
<1>. QED  BY <1>2, <1>3, <1>6, <1>7, OwnStep
(* A request that fails: it is sent again, or the call returns.            *)
LEMMA RetryIInv ==
  ASSUME IInv, NEW c \in Clients, pc[c] = "waiting", NEW allowed, Retry(c, allowed),
         allowed => attempt[c] < Retries,
         answer' = [answer EXCEPT ![c] = NoAnswer],
         UNCHANGED <<store, known, updates>>, net' \subseteq net
  PROVE  IInv'
<1>1. CASE allowed
  <2>1. /\ pc' = [pc EXCEPT ![c] = "ready"] /\ attempt' = [attempt EXCEPT ![c] = @ + 1]
        /\ UNCHANGED <<call, cursor, times, found, lasting>>
    BY <1>1 DEF Retry, listing
  <2>. QED  BY <1>1, <2>1, ResendIInv
<1>2. CASE ~allowed
  <2>1. Return(c)
    BY <1>2 DEF Retry
  <2>2. known[c] \in [Names -> Info] /\ \A n \in Names : Agrees(n, known[c][n])
    BY DEF IInv, TypeOK, Client
  <2>3. known' = [known EXCEPT ![c] = known[c]]
    BY DEF IInv, TypeOK
  <2>. QED  BY <2>1, <2>2, <2>3, ReturnIInv
<1>. QED  BY <1>1, <1>2

(* What an answer says.                                                    *)
LEMMA AnswerAgrees ==
  ASSUME IInv, NEW c \in Clients, Succeeds(c)
  PROVE  /\ answer[c] # NoAnswer /\ answer[c].page \in [Names -> Info]
         /\ answer[c].next \in Names \cup {0}
         /\ \A n \in Names : Agrees(n, answer[c].page[n])
<1>1. answer[c].what \in Success
  BY DEF Succeeds, Success
<1>2. answer[c] # NoAnswer
  BY <1>1 DEF NoAnswer, Success
<1>3. answer[c] \in Replies /\ Reply(c)
  BY DEF IInv, TypeOK, Client
<1>. QED  BY <1>2, <1>3 DEF Replies, Reply

(* The page at hand counts once.                                           *)
LEMMA ListedOften ==
  ASSUME IInv, NEW c \in Clients, Succeeds(c)
  PROVE  /\ Listed(c) \in [Names -> 0 .. 2]
         /\ \A n \in Names : Listed(c)[n] =
              IF answer[c].page[n] # NoInfo /\ times[c][n] < 2 THEN times[c][n] + 1
              ELSE times[c][n]
<1>1. \A n \in Names : times[c][n] \in 0 .. 2
  BY DEF IInv, TypeOK
<1>. QED  BY <1>1 DEF Listed

(* Up to the next cursor, or all of them if there is none, the rows that   *)
(* were there all the time have been listed once with the page at hand,    *)
(* and the others not twice.                                               *)
LEMMA ListedUpTo ==
  ASSUME IInv, NEW c \in Clients, Succeeds(c), call[c].kind = "list"
  PROVE  \A n \in Names :
           /\ answer[c].next # 0 => answer[c].next > cursor[c]
           /\ answer[c].next # 0 /\ n > answer[c].next => Listed(c)[n] = 0
           /\ answer[c].next = 0 \/ n <= answer[c].next =>
                Listed(c)[n] <= 1 /\ (n \in lasting[c] => Listed(c)[n] = 1)
<1>1. Place(c) /\ answer[c] # NoAnswer
  BY AnswerAgrees DEF IInv, Client
<1>2. ASSUME NEW n \in Names
      PROVE  /\ n \in Nat /\ cursor[c] \in Nat /\ answer[c].next \in Nat
             /\ times[c][n] \in 0 .. 2
  <2>1. cursor[c] \in Names \cup {0} /\ times[c][n] \in 0 .. 2
    BY DEF IInv, TypeOK
  <2>2. answer[c].next \in Names \cup {0}
    BY AnswerAgrees
  <2>3. \A m \in Names : m \in Nat
    BY ConstantsAssumption
  <2>4. \A m \in Names \cup {0} : m \in Nat
    BY <2>3
  <2>. QED  BY <2>1, <2>2, <2>3, <2>4
<1>. QED  BY <1>1, <1>2, ListedOften DEF Place
(* A page that is not the last: the list goes on behind its last row.      *)
LEMMA PageIInv ==
  ASSUME IInv, NEW c \in Clients, HandlePage(c), answer[c].next # 0
  PROVE  IInv'
<1> DEFINE next == answer[c].next
           seen == Learn(found[c], answer[c].page)
<1>0. /\ pc[c] = "waiting" /\ Succeeds(c) /\ call[c].kind = "list"
      /\ pc' = [pc EXCEPT ![c] = "ready"] /\ attempt' = [attempt EXCEPT ![c] = 0]
      /\ times' = [times EXCEPT ![c] = Listed(c)]
      /\ found' = [found EXCEPT ![c] = Learn(@, answer[c].page)]
      /\ cursor' = [cursor EXCEPT ![c] = next]
      /\ answer' = [answer EXCEPT ![c] = NoAnswer]
      /\ UNCHANGED <<call, known, lasting, store, net, updates>>
  BY DEF HandlePage, Page
<1>1. TypeOK /\ Client(c)
  BY DEF IInv
<1>2. found' = [found EXCEPT ![c] = seen]
  BY <1>0
<1>3. next \in Names \cup {0} /\ next # 0
  BY <1>0, AnswerAgrees
<1>4. seen \in [Names -> Info] /\ \A n \in Names : Agrees(n, seen[n])
  <2>1. found[c] \in [Names -> Info] /\ \A n \in Names : Agrees(n, found[c][n])
    BY <1>1 DEF TypeOK, Client
  <2>. QED  BY <1>0, <2>1, AnswerAgrees, LearnAgrees
<1>5. Listed(c) \in [Names -> 0 .. 2]
  BY <1>0, ListedOften
<1>6. \A n \in Names : /\ n > next => Listed(c)[n] = 0
                       /\ n <= next => Listed(c)[n] <= 1 /\ (n \in lasting[c] => Listed(c)[n] = 1)
  BY <1>0, <1>3, ListedUpTo
<1>. HIDE DEF next, seen
<1>7. /\ pc'[c] = "ready" /\ answer'[c] = NoAnswer /\ times'[c] = Listed(c)
      /\ found'[c] = seen /\ cursor'[c] = next
      /\ \A v \in Clients \ {c} :
           /\ pc'[v] = pc[v] /\ answer'[v] = answer[v] /\ times'[v] = times[v]
           /\ found'[v] = found[v] /\ cursor'[v] = cursor[v]
  BY <1>0, <1>1, <1>2 DEF TypeOK
<1>8. TypeOK'
  <2>1. /\ pc' \in [Clients -> {"idle", "ready", "waiting"}]
        /\ cursor' \in [Clients -> Names \cup {0}]
        /\ answer' \in [Clients -> Replies]
    BY <1>0, <1>1, <1>3 DEF TypeOK, Replies
  <2>2. attempt' \in [Clients -> 0 .. Retries]
    BY <1>0, <1>1, ConstantsAssumption DEF TypeOK
  <2>3. times' \in [Clients -> [Names -> 0 .. 2]] /\ found' \in [Clients -> [Names -> Info]]
    BY <1>0, <1>1, <1>2, <1>4, <1>5 DEF TypeOK
  <2>. QED  BY <1>0, <1>1, <2>1, <2>2, <2>3 DEF TypeOK
<1>9. Sound(call[c])' /\ Reply(c)'
  BY <1>0, <1>1, <1>7 DEF Client, Sound, Agrees, Reply
<1>10. Place(c)'
  BY <1>0, <1>6, <1>7 DEF Place
<1>11. \A n \in Names : Agrees(n, known[c][n])' /\ Agrees(n, found[c][n])'
  BY <1>0, <1>1, <1>4, <1>7 DEF Client, Agrees
<1>12. Client(c)'
  BY <1>0, <1>1, <1>7, <1>9, <1>10, <1>11 DEF Client, Calling, Present
<1>13. RequestsSound'
  BY <1>0, StillSound
<1>. QED  BY <1>0, <1>7, <1>8, <1>12, <1>13, OwnStep

LEMMA LoopIInv ==
  ASSUME IInv, NEW c \in Clients, Loop(c)
  PROVE  IInv'
<1>1. CASE Send(c)
  BY <1>1, SendIInv
<1>2. CASE TransportError(c)
  <2>1. CanRetryTransport(Site(call[c].kind), attempt[c], Retries) => attempt[c] < Retries
    BY DEF CanRetryTransport
  <2>2. net' \subseteq net
    BY <1>2 DEF TransportError, Abandoned
  <2>. QED  BY <1>2, <2>1, <2>2, RetryIInv DEF TransportError
<1>3. CASE HandleError(c)
  <2>1. PICK what \in Answers \ Success :
          /\ Retry(c, CanRetry(Site(call[c].kind), what, attempt[c], Retries))
          /\ IF what = "failed" THEN net' = Abandoned(c)
             ELSE Request(c) \in net /\ net' = net \ {Request(c)}
    BY <1>3 DEF HandleError
  <2>2. CanRetry(Site(call[c].kind), what, attempt[c], Retries) => attempt[c] < Retries
    BY DEF CanRetry
  <2>3. net' \subseteq net
    BY <2>1 DEF Abandoned
  <2>. QED  BY <1>3, <2>1, <2>2, <2>3, RetryIInv DEF HandleError
<1>4. CASE HandleMalformed(c)
  <2>1. known[c] \in [Names -> Info] /\ \A n \in Names : Agrees(n, known[c][n])
    BY DEF IInv, TypeOK, Client
  <2>2. known' = [known EXCEPT ![c] = known[c]]
    BY <1>4 DEF HandleMalformed, IInv, TypeOK
  <2>. QED  BY <1>4, <2>1, <2>2, ReturnIInv DEF HandleMalformed
<1>5. CASE HandleSuccess(c)
  <2> DEFINE k == Learn(known[c], answer[c].page)
  <2>1. k \in [Names -> Info] /\ \A n \in Names : Agrees(n, k[n])
    BY <1>5, KnownAgrees, AnswerAgrees, LearnAgrees DEF HandleSuccess, IInv, TypeOK
  <2>2. known' = [known EXCEPT ![c] = k]
    BY <1>5 DEF HandleSuccess
  <2>. HIDE DEF k
  <2>. QED  BY <1>5, <2>1, <2>2, ReturnIInv DEF HandleSuccess
<1>6. CASE HandlePage(c) /\ answer[c].next # 0
  BY <1>6, PageIInv
<1>7. CASE HandlePage(c) /\ answer[c].next = 0
  <2> DEFINE found2 == Learn(found[c], answer[c].page)
             k == Learn(known[c], found2)
  <2>1. found2 \in [Names -> Info] /\ \A n \in Names : Agrees(n, found2[n])
    <3>1. found[c] \in [Names -> Info] /\ \A n \in Names : Agrees(n, found[c][n])
      BY DEF IInv, TypeOK, Client
    <3>. QED  BY <1>7, <3>1, AnswerAgrees, LearnAgrees DEF HandlePage, Page
  <2>2. /\ Return(c) /\ known' = [known EXCEPT ![c] = k]
        /\ answer' = [answer EXCEPT ![c] = NoAnswer] /\ UNCHANGED <<store, net, updates>>
    BY <1>7 DEF HandlePage, Page
  <2>. HIDE DEF found2
  <2>3. k \in [Names -> Info] /\ \A n \in Names : Agrees(n, k[n])
    <3>1. known[c] \in [Names -> Info] /\ \A n \in Names : Agrees(n, known[c][n])
      BY DEF IInv, TypeOK, Client
    <3>. QED  BY <2>1, <3>1, LearnAgrees
  <2>. HIDE DEF k
  <2>. QED  BY <2>2, <2>3, ReturnIInv
<1>. QED  BY <1>1, <1>2, <1>3, <1>4, <1>5, <1>6, <1>7 DEF Loop
-----------------------------------------------------------------------------
(* The service and the network.                                            *)

Resources == [present : BOOLEAN, revision : Nat, content : SUBSET Updates]

(* What is shown of some resources is what they are.                       *)
LEMMA SeenIs ==
  ASSUME NEW s \in [Names -> Resources], NEW shown \in SUBSET Names
  PROVE  /\ Seen(shown, s) \in [Names -> Info]
         /\ \A n \in Names : Seen(shown, s)[n] # NoInfo =>
              /\ n \in shown
              /\ Seen(shown, s)[n].revision = s[n].revision
              /\ Seen(shown, s)[n].basis = s[n].content
         /\ \A n \in shown : s[n].present /\ s[n].revision > 0 => Seen(shown, s)[n] # NoInfo
<1>1. ASSUME NEW n \in Names
      PROVE  /\ Shown(n, s) \in Info
             /\ Shown(n, s) # NoInfo => Shown(n, s).revision = s[n].revision /\ Shown(n, s).basis = s[n].content
             /\ s[n].present /\ s[n].revision > 0 => Shown(n, s) # NoInfo
  <2>1. s[n] \in Resources
    OBVIOUS
  <2>2. CASE s[n].present
    <3>1. Shown(n, s) = [revision |-> s[n].revision, basis |-> s[n].content]
      BY <2>2 DEF Shown
    <3>. QED  BY <2>1, <3>1 DEF Resources, Info, NoInfo
  <2>3. CASE ~s[n].present
    BY <2>3, NoInfoIsInfo DEF Shown
  <2>. QED  BY <2>2, <2>3
<1>2. \A n \in Names : Seen(shown, s)[n] = IF n \in shown THEN Shown(n, s) ELSE NoInfo
  BY DEF Seen
<1>3. Seen(shown, s) \in [Names -> Info]
  BY <1>1, NoInfoIsInfo DEF Seen
<1>. QED  BY <1>1, <1>2, <1>3

(* An answer, or none, leaves the other clients alone.                     *)
LEMMA Answering ==
  ASSUME TypeOK, NEW r \in net, NEW a \in Replies, Answered(r, a)
  PROVE  /\ answer' \in [Clients -> Replies]
         /\ \A c \in Clients : answer'[c] = answer[c] \/
              (/\ c = r.by /\ answer'[c] = a /\ pc[c] = "waiting" /\ answer[c] = NoAnswer
               /\ Request(c) = r)
<1>1. CASE pc[r.by] = "waiting" /\ answer[r.by] = NoAnswer /\ Request(r.by) = r
  BY <1>1 DEF Answered, TypeOK
<1>2. CASE ~(pc[r.by] = "waiting" /\ answer[r.by] = NoAnswer /\ Request(r.by) = r)
  BY <1>2 DEF Answered, TypeOK
<1>. QED  BY <1>1, <1>2

(* The rows of a page are all there are up to the last one.                *)
LEMMA NoRowLeftOut ==
  ASSUME NEW r, NEW next \in Rows(r), NEW n \in Behind(r), n <= next
  PROVE  n \in Rows(r)
<1> DEFINE Before(k) == {m \in Behind(r) : m < k}
<1>1. /\ Behind(r) \subseteq Names /\ \A m \in Names : m \in Nat
      /\ IsFiniteSet(Names)
  BY ConstantsAssumption DEF Behind, Present
<1>2. next \in Behind(r) /\ Cardinality(Before(next)) < Limit
  BY DEF Rows
<1>3. IsFiniteSet(Before(next)) /\ IsFiniteSet(Before(n))
  BY <1>1, FS_Subset
<1>4. Before(n) \subseteq Before(next)
  BY <1>1, <1>2
<1>5. /\ Cardinality(Before(n)) <= Cardinality(Before(next))
      /\ Cardinality(Before(n)) \in Nat /\ Cardinality(Before(next)) \in Nat
  BY <1>3, <1>4, FS_Subset, FS_CardinalityType
<1>6. Cardinality(Before(n)) < Limit
  BY <1>2, <1>5, ConstantsAssumption
<1>. QED  BY <1>6 DEF Rows

(* A list asks for a page, and gets the rows behind its cursor.            *)
LEMMA PagePlace ==
  ASSUME IInv, NEW c \in Clients, NEW r, r.cursor = cursor[c],
         NEW next \in Rows(r) \cup {0},
         next = 0 => Rows(r) = Behind(r),
         next # 0 => \A n \in Rows(r) : n <= next,
         Place(c), UNCHANGED <<cursor, times, lasting>>,
         answer'[c] = [what |-> "ok", page |-> Seen(Rows(r), store), next |-> next]
  PROVE  Place(c)'
<1>1. /\ Rows(r) \subseteq Behind(r) /\ Behind(r) \subseteq Present /\ Present \subseteq Names
      /\ \A n \in Present : n \in Behind(r) <=> n > cursor[c]
  BY DEF Rows, Behind, Present
<1>2. store \in [Names -> Resources] /\ lasting[c] \subseteq Present
  BY DEF IInv, TypeOK, Client, Resources
<1>3. /\ \A n \in Names : Seen(Rows(r), store)[n] # NoInfo => n \in Rows(r)
      /\ \A n \in Rows(r) : store[n].present /\ store[n].revision > 0 => Seen(Rows(r), store)[n] # NoInfo
  BY <1>1, <1>2, SeenIs
<1>4. answer'[c].page = Seen(Rows(r), store) /\ answer'[c].next = next
  OBVIOUS
<1>5. next # 0 => next > cursor[c]
  BY <1>1
<1>6. ASSUME NEW n \in Names, answer'[c].page[n] # NoInfo
      PROVE  n > cursor[c] /\ (next # 0 => n <= next)
  BY <1>1, <1>3, <1>4, <1>6
<1>7. ASSUME NEW n \in Names, n \in lasting[c], n > cursor[c], next # 0 => n <= next
      PROVE  answer'[c].page[n] # NoInfo
  <2>1. n \in Present /\ n \in Behind(r)
    BY <1>1, <1>2, <1>7
  <2>2. n \in Rows(r)
    BY <1>7, <2>1, NoRowLeftOut
  <2>3. store[n].present /\ store[n].revision > 0
    BY <2>1 DEF Present, IInv
  <2>. QED  BY <1>3, <1>4, <2>2, <2>3
<1>8. \A n \in Names :
        /\ n > cursor[c] => times[c][n] = 0
        /\ n <= cursor[c] => times[c][n] <= 1 /\ (n \in lasting[c] => times[c][n] = 1)
  BY DEF Place
<1>. QED  BY <1>4, <1>5, <1>6, <1>7, <1>8 DEF Place
(* A read that is served.                                                  *)
LEMMA ServeReadIInv ==
  ASSUME IInv, NEW r \in net, ServeRead(r)
  PROVE  IInv'
<1>0. /\ r.call.kind \in Reads /\ net' = net \ {r}
      /\ UNCHANGED <<store, pc, call, attempt, known, cursor, times, found, lasting, updates>>
  BY DEF ServeRead, listing
<1>1. /\ TypeOK /\ r.by \in Clients
      /\ store \in [Names -> Resources] /\ Present \subseteq Names /\ Rows(r) \subseteq Names
  BY DEF IInv, RequestsSound, TypeOK, Resources, Present, Rows, Behind
<1>2. PICK shown \in SUBSET Names, next \in Names \cup {0} :
        /\ Answered(r, [what |-> "ok", page |-> Seen(shown, store), next |-> next])
        /\ r.call.kind = "list" =>
             /\ shown = Rows(r) /\ next \in Rows(r) \cup {0}
             /\ next = 0 => Rows(r) = Behind(r)
             /\ next # 0 => \A n \in Rows(r) : n <= next
  <2>1. CASE r.call.kind = "list"
    BY <1>1, <2>1 DEF ServeRead
  <2>2. CASE r.call.kind # "list"
    <3>1. {r.call.name} \in SUBSET Names
      BY <1>1, <2>2 DEF ServeRead
    <3>. QED  BY <2>2, <3>1 DEF ServeRead
  <2>. QED  BY <2>1, <2>2
<1> DEFINE a == [what |-> "ok", page |-> Seen(shown, store), next |-> next]
<1>3. /\ Seen(shown, store) \in [Names -> Info]
      /\ \A n \in Names : Seen(shown, store)[n] # NoInfo =>
           /\ Seen(shown, store)[n].revision = store[n].revision
           /\ Seen(shown, store)[n].basis = store[n].content
  BY <1>1, SeenIs
<1>4. a \in Replies /\ a.page = Seen(shown, store)
  BY <1>3 DEF Replies, Success
<1>5. \A n \in Names : Agrees(n, a.page[n])
  <2>1. ASSUME NEW n \in Names
        PROVE  Agrees(n, a.page[n])
    <3>1. CASE Seen(shown, store)[n] = NoInfo
      BY <1>4, <3>1, NoInfoIsInfo
    <3>2. CASE Seen(shown, store)[n] # NoInfo
      <4>1. store[n].revision \in Nat
        BY <1>1 DEF Resources
      <4>. QED  BY <1>3, <1>4, <3>2, <4>1 DEF Agrees
    <3>. QED  BY <3>1, <3>2
  <2>. QED  BY <2>1
<1>6. Answered(r, a)
  BY <1>2
<1>7. a = [what |-> "ok", page |-> Seen(shown, store), next |-> next]
  OBVIOUS
<1>. HIDE DEF a
<1>8. /\ answer' \in [Clients -> Replies]
      /\ \A c \in Clients : answer'[c] = answer[c] \/
           (/\ c = r.by /\ answer'[c] = a /\ pc[c] = "waiting" /\ answer[c] = NoAnswer
            /\ Request(c) = r)
  BY <1>1, <1>4, <1>6, Answering
<1>9. TypeOK'
  BY <1>0, <1>1, <1>8 DEF TypeOK
<1>10. ASSUME NEW c \in Clients
       PROVE  Client(c)'
  <2>1. Client(c)
    BY DEF IInv
  <2>2. CASE answer'[c] = answer[c]
    BY <1>0, <2>1, <2>2, Unmoved
  <2>3. CASE /\ answer'[c] = a /\ pc[c] = "waiting" /\ Request(c) = r
    <3>1. r.cursor = cursor[c] /\ r.call = call[c]
      BY <2>3 DEF Request
    <3>2. Sound(call[c])' /\ Reply(c)'
      BY <1>0, <1>5, <2>1, <2>3 DEF Client, Sound, Agrees, Reply
    <3>3. call[c].kind = "list" => Place(c)'
      BY <1>0, <1>2, <1>7, <2>1, <2>3, <3>1, PagePlace DEF Client
    <3>. QED  BY <1>0, <2>1, <3>2, <3>3 DEF Client, Agrees, Calling, Present
  <2>. QED  BY <1>8, <2>2, <2>3
<1>11. RequestsSound'
  BY <1>0, StillSound
<1>. QED  BY <1>0, <1>9, <1>10, <1>11 DEF IInv

(* A change that is applied: what was seen before is old.                  *)
LEMMA ApplyIInv ==
  ASSUME IInv, NEW r \in net, Apply(r)
  PROVE  IInv'
<1> DEFINE m == r.call.name
           new == Changed(r)
<1>0. /\ r.call.kind \in Writes /\ net' = net \ {r}
      /\ store' = [store EXCEPT ![m] = new]
      /\ lasting' = [c \in Clients |->
            IF store'[m].present THEN lasting[c] ELSE lasting[c] \ {m}]
      /\ UNCHANGED <<pc, call, attempt, known, cursor, times, found, updates>>
  BY DEF Apply
<1>1. /\ TypeOK /\ r.by \in Clients /\ m \in Names /\ r.call \in Calls
      /\ r.call.update \in Updates /\ store \in [Names -> Resources]
  BY <1>0 DEF IInv, RequestsSound, TypeOK, Sound, Resources
<1>2. new \in Resources /\ new.revision = store[m].revision + 1
  <2>1. store[m] \in Resources /\ r.call.info.basis \in SUBSET Updates
    BY <1>1 DEF Calls, Info
  <2>2. CASE r.call.kind \in Removals
    BY <2>1, <2>2 DEF Changed, Resources, Removals
  <2>3. CASE r.call.kind \notin Removals /\ r.call.kind = "merge"
    BY <1>1, <2>1, <2>3 DEF Changed, Resources
  <2>4. CASE r.call.kind \notin Removals /\ r.call.kind # "merge"
    BY <1>1, <2>1, <2>4 DEF Changed, Resources
  <2>. QED  BY <2>2, <2>3, <2>4
<1>. HIDE DEF new
<1>3. /\ store' \in [Names -> Resources] /\ store'[m] = new
      /\ \A n \in Names \ {m} : store'[n] = store[n]
  BY <1>0, <1>1, <1>2
<1>4. \A n \in Names : store[n].revision \in Nat /\ store'[n].revision \in Nat
  BY <1>1, <1>3 DEF Resources
<1>5. ASSUME NEW n \in Names, NEW i \in Info, Agrees(n, i)
      PROVE  Agrees(n, i)'
  <2>1. i.revision \in Nat
    BY DEF Info
  <2>2. CASE n = m
    <3>1. i.revision > 0 => i.revision < store'[n].revision
      BY <1>2, <1>3, <1>4, <1>5, <2>1, <2>2 DEF Agrees
    <3>. QED  BY <1>4, <2>1, <3>1 DEF Agrees
  <2>3. CASE n # m
    BY <1>3, <1>5, <2>3 DEF Agrees
  <2>. QED  BY <2>2, <2>3
<1> DEFINE page == Seen({m}, store')
<1>6. /\ page \in [Names -> Info]
      /\ \A n \in Names : page[n] # NoInfo =>
           /\ page[n].revision = store'[n].revision
           /\ page[n].basis = store'[n].content
  BY <1>1, <1>3, SeenIs
<1>7. PICK what \in Success : Answered(r, [what |-> what, page |-> page, next |-> 0])
  BY DEF Apply
<1>. HIDE DEF page
<1>8. ASSUME NEW n \in Names, page[n].revision > 0
      PROVE  /\ page[n].revision <= store'[n].revision
             /\ page[n].basis = store'[n].content
  <2>1. page[n] # NoInfo
    BY <1>8 DEF NoInfo
  <2>. QED  BY <1>4, <1>6, <2>1
<1> DEFINE a == [what |-> what, page |-> page, next |-> 0]
<1>9. a \in Replies /\ a.page = page
  BY <1>6 DEF Replies
<1>10. Answered(r, a)
  BY <1>7
<1>. HIDE DEF a
<1>11. /\ answer' \in [Clients -> Replies]
       /\ \A c \in Clients : answer'[c] = answer[c] \/
            (/\ c = r.by /\ answer'[c] = a /\ pc[c] = "waiting" /\ answer[c] = NoAnswer
             /\ Request(c) = r)
  BY <1>1, <1>9, <1>10, Answering
<1>12. \A c \in Clients : lasting'[c] \subseteq lasting[c] /\ lasting'[c] \subseteq Present'
  <2>1. ASSUME NEW c \in Clients, NEW n \in lasting'[c]
        PROVE  n \in lasting[c] /\ n \in Present'
    <3>1. n \in lasting[c] /\ (n = m => store'[m].present)
      BY <1>0, <2>1
    <3>2. n \in Names /\ store[n].present
      BY <3>1 DEF IInv, Client, Present
    <3>. QED  BY <1>3, <3>1, <3>2 DEF Present
  <2>. QED  BY <2>1
<1>13. TypeOK'
  <2>1. lasting' \in [Clients -> SUBSET Names]
    BY <1>0, <1>1 DEF TypeOK
  <2>2. store' \in [Names -> [present : BOOLEAN, revision : Nat, content : SUBSET Updates]]
    BY <1>3 DEF Resources
  <2>. QED  BY <1>0, <1>1, <1>11, <2>1, <2>2 DEF TypeOK
<1>14. ASSUME NEW cl \in Calls, Sound(cl)
       PROVE  Sound(cl)'
  <2>1. cl.info \in Info
    BY DEF Calls
  <2>2. cl.name \in Names => Agrees(cl.name, cl.info)'
    BY <1>5, <1>14, <2>1 DEF Sound
  <2>. QED  BY <1>14, <2>2 DEF Sound
<1>15. RequestsSound'
  <2>1. ASSUME NEW q \in net'
        PROVE  /\ q \in [by : Clients, call : Calls, revision : Nat, cursor : Names \cup {0},
                         attempt : 0 .. Retries]
               /\ q.revision = Query(q.call) /\ q.call \in Calls /\ Sound(q.call)
    BY <1>0 DEF IInv, RequestsSound
  <2>. QED  BY <1>14, <2>1 DEF RequestsSound, Sound, Agrees
<1>16. ASSUME NEW c \in Clients
       PROVE  Client(c)'
  <2>1. Client(c) /\ call[c] \in Calls
    BY <1>1 DEF IInv, TypeOK
  <2>2. Sound(call[c])'
    BY <1>0, <1>14, <2>1 DEF Client, Sound, Agrees
  <2>3. \A n \in Names : Agrees(n, known[c][n])' /\ Agrees(n, found[c][n])'
    <3>1. known[c] \in [Names -> Info] /\ found[c] \in [Names -> Info]
      BY <1>1 DEF TypeOK
    <3>2. ASSUME NEW n \in Names
          PROVE  /\ Agrees(n, known[c][n]) /\ known[c][n] \in Info
                 /\ Agrees(n, found[c][n]) /\ found[c][n] \in Info
      BY <2>1, <3>1 DEF Client
    <3>. QED  BY <1>0, <1>5, <3>2 DEF Agrees
  <2>4. Reply(c)'
    <3>1. CASE answer'[c] = answer[c]
      <4>1. ASSUME answer[c] # NoAnswer, NEW n \in Names
            PROVE  answer[c].page[n] \in Info /\ Agrees(n, answer[c].page[n]) /\ pc[c] = "waiting"
        BY <1>1, <2>1, <4>1 DEF TypeOK, Replies, Client, Reply
      <4>2. answer[c] # NoAnswer => pc[c] = "waiting"
        BY <2>1 DEF Client, Reply
      <4>. QED  BY <1>0, <1>5, <3>1, <4>1, <4>2 DEF Reply, Agrees
    <3>2. CASE answer'[c] = a /\ pc[c] = "waiting"
      BY <1>0, <1>8, <1>9, <3>2 DEF Reply, Agrees
    <3>. QED  BY <1>11, <3>1, <3>2
  <2>5. ASSUME call[c].kind = "list"
        PROVE  Place(c)'
    <3>1. answer'[c] = answer[c]
      <4>1. Request(c) = r => call[c] = r.call
        BY DEF Request
      <4>2. "list" \notin Writes
        BY DEF Writes, Conditional
      <4>. QED  BY <1>0, <1>11, <2>5, <4>1, <4>2
    <3>2. Place(c)
      BY <2>1, <2>5 DEF Client
    <3>. QED  BY <1>0, <1>12, <3>1, <3>2 DEF Place
  <2>. QED  BY <1>0, <1>12, <2>1, <2>2, <2>3, <2>4, <2>5 DEF Client, Calling
<1>17. \A n \in Names : store'[n].revision > 0
  BY <1>2, <1>3, <1>4 DEF IInv
<1>. QED  BY <1>13, <1>15, <1>16, <1>17 DEF IInv

-----------------------------------------------------------------------------
(* The invariant.                                                          *)

LEMMA InitIInv == Init => IInv
<1>. SUFFICES ASSUME Init PROVE IInv
  OBVIOUS
<1>1. PICK there \in BOOLEAN :
        store = [n \in Names |-> [present |-> there, revision |-> 1, content |-> {}]]
  BY DEF Init
<1>2. \A n \in Names : store[n] \in Resources /\ store[n].revision = 1
  BY <1>1 DEF Resources
<1>3. /\ NoInfo \in Info /\ NoCall \in Calls /\ NoAnswer \in Replies
      /\ 0 \in 0 .. MaxUpdates /\ 0 \in 0 .. Retries
  BY NoInfoIsInfo, NoCallIsSound, ConstantsAssumption DEF Replies
<1>4. TypeOK
  <2>1. store \in [Names -> [present : BOOLEAN, revision : Nat, content : SUBSET Updates]]
    BY <1>1 DEF Resources
  <2>. QED  BY <1>3, <2>1 DEF Init, TypeOK
<1>5. ASSUME NEW c \in Clients
      PROVE  Client(c)
  <2>1. /\ call[c] = NoCall /\ answer[c] = NoAnswer /\ cursor[c] = 0 /\ lasting[c] = {}
        /\ \A n \in Names : known[c][n] = NoInfo /\ found[c][n] = NoInfo
    BY DEF Init
  <2>2. NoCall.kind = "get"
    BY DEF NoCall
  <2>. QED  BY <2>1, <2>2, NoInfoIsInfo, NoCallIsSound DEF Client, Reply
<1>6. RequestsSound
  BY DEF Init, RequestsSound
<1>. QED  BY <1>2, <1>4, <1>5, <1>6 DEF IInv

LEMMA NextIInv == IInv /\ [Next]_vars => IInv'
<1>. SUFFICES ASSUME IInv, [Next]_vars PROVE IInv'
  OBVIOUS
<1>1. ASSUME NEW c \in Clients,
             \/ List(c)
             \/ \E n \in Names :
                  \/ Read(c, n) \/ SetWithAccess(c, n)
                  \/ \E kind \in {"create", "set", "drop"} : Unversioned(c, kind, n)
                  \/ \E kind \in Conditional : Change(c, kind, n)
      PROVE  IInv'
  BY <1>1, CallIInv
<1>2. ASSUME NEW c \in Clients, Loop(c)
      PROVE  IInv'
  BY <1>2, LoopIInv
<1>3. ASSUME NEW r \in net, ServeRead(r) \/ Apply(r)
      PROVE  IInv'
  BY <1>3, ServeReadIInv, ApplyIInv
<1>4. CASE UNCHANGED vars
  <2>1. UNCHANGED <<store, pc, call, attempt, answer, known, cursor, times, found, lasting, net, updates>>
    BY <1>4 DEF vars, listing
  <2>2. TypeOK'
    BY <2>1 DEF IInv, TypeOK
  <2>3. \A c \in Clients : Client(c)'
    BY <2>1, Unmoved DEF IInv
  <2>4. RequestsSound'
    BY <2>1, StillSound
  <2>. QED  BY <2>1, <2>2, <2>3, <2>4 DEF IInv
<1>. QED  BY <1>1, <1>2, <1>3, <1>4 DEF Next

THEOREM Invariant == Spec => []IInv
BY InitIInv, NextIInv, PTL DEF Spec
-----------------------------------------------------------------------------
(* Properties.                                                             *)

(* Every variable keeps its type; a request to change by revision carries  *)
(* one (connections.go:251-257).                                           *)
THEOREM TypeCorrect == Spec => []TypeOK
<1>1. IInv => TypeOK
  BY DEF IInv
<1>. QED  BY <1>1, Invariant, PTL

(* What is applied to what is there is an overwriting, or was made from    *)
(* what is there.                                                          *)
LEMMA ChangeOfWhatIsSeen ==
  ASSUME IInv, NEW r \in net, Apply(r), NEW n \in Names,
         store[n].present, store'[n] # store[n]
  PROVE  /\ r.call.name = n /\ r \notin net'
         /\ Overwrites(r.call) \/ r.call.info.basis = store[n].content
<1>1. /\ r.call.kind \in Writes /\ Applicable(r) /\ r \notin net'
      /\ store' = [store EXCEPT ![r.call.name] = Changed(r)]
  BY DEF Apply
<1>2. r.call.name = n
  BY <1>1 DEF IInv, TypeOK
<1>3. /\ r.revision = Query(r.call) /\ Agrees(n, r.call.info) /\ store[n].revision > 0
      /\ r.call.kind \in Conditional => r.call.info.revision > 0
  BY <1>2 DEF IInv, RequestsSound, Sound
<1>4. r.call.info.revision \in Nat
  BY DEF IInv, TypeOK, Calls, Info
<1>5. CASE Overwrites(r.call)
  BY <1>1, <1>2, <1>5
<1>6. CASE ~Overwrites(r.call)
  <2>1. r.call.kind # "drop" /\ r.call.kind # "create"
    BY <1>1, <1>2, <1>6 DEF Overwrites, Applicable
  <2>2. r.call.kind \in Conditional \cup {"set"}
    BY <1>1, <2>1 DEF Writes
  <2>3. r.revision = r.call.info.revision /\ r.revision > 0
    BY <1>3, <1>4, <1>6, <2>2 DEF Query, Overwrites
  <2>4. r.revision = store[n].revision
    BY <1>1, <1>2, <2>1, <2>3 DEF Applicable
  <2>5. r.call.info.basis = store[n].content
    BY <1>3, <2>3, <2>4 DEF Agrees
  <2>. QED  BY <1>1, <1>2, <2>5
<1>. QED  BY <1>5, <1>6

(* Nobody changes or removes by revision what he has not seen, however     *)
(* late a change is applied and whatever happened since he read            *)
(* (connections.go:251-257).                                               *)
THEOREM LosesNoUpdate == Spec => NoLostUpdate
<1> DEFINE A == \A n \in Names : store[n].present /\ store'[n] # store[n] =>
       \E r \in net : r.call.name = n /\ r \notin net' /\
         (Overwrites(r.call) \/ r.call.info.basis = store[n].content)
<1>1. IInv /\ [Next]_vars => [A]_vars
  <2>. SUFFICES ASSUME IInv, [Next]_vars PROVE A
    OBVIOUS
  <2>1. ASSUME NEW r \in net, Apply(r)
        PROVE  A
    BY <2>1, ChangeOfWhatIsSeen
  <2>2. CASE UNCHANGED store
    BY <2>2
  <2>3. ASSUME NEW c \in Clients, Loop(c)
        PROVE  UNCHANGED store
    BY <2>3 DEF Loop, Send, TransportError, HandleError, HandleMalformed, HandleSuccess, HandlePage,
                Page
  <2>4. ASSUME NEW c \in Clients, NEW n, NEW kind, NEW info, Begin(c, kind, n, info)
        PROVE  UNCHANGED store
    BY <2>4 DEF Begin
  <2>5. ASSUME NEW r \in net, ServeRead(r)
        PROVE  UNCHANGED store
    BY <2>5 DEF ServeRead
  <2>6. UNCHANGED vars => UNCHANGED store
    BY DEF vars
  <2>. QED  BY <2>1, <2>2, <2>3, <2>4, <2>5, <2>6
            DEF Next, List, Read, SetWithAccess, Unversioned, Change
<1>2. NoLostUpdate <=> [][A]_vars
  BY DEF NoLostUpdate
<1>. QED  BY <1>1, <1>2, Invariant, PTL DEF Spec

(* A list returns every resource that was there all the time exactly once, *)
(* and no other twice (connections.go:264-284).                            *)
THEOREM ListsOnce == Spec => ListedOnce
<1> DEFINE A == \A c \in Clients : HandlePage(c) /\ ~Calling(c)' =>
       \A n \in Names : Listed(c)[n] <= 1 /\ (n \in lasting[c] => Listed(c)[n] = 1)
<1>1. IInv => A
  <2>. SUFFICES ASSUME IInv, NEW c \in Clients, HandlePage(c), ~Calling(c)'
                PROVE  \A n \in Names : Listed(c)[n] <= 1 /\ (n \in lasting[c] => Listed(c)[n] = 1)
    OBVIOUS
  <2>1. Succeeds(c) /\ call[c].kind = "list"
    BY DEF HandlePage, Page
  <2>2. answer[c].next = 0
    <3>1. answer[c].next # 0 => pc' = [pc EXCEPT ![c] = "ready"]
      BY DEF HandlePage, Page
    <3>. QED  BY <3>1 DEF Calling, IInv, TypeOK
  <2>. QED  BY <2>1, <2>2, ListedUpTo
<1>2. IInv /\ [Next]_vars => [A]_vars
  BY <1>1
<1>3. ListedOnce <=> [][A]_vars
  BY DEF ListedOnce
<1>. QED  BY <1>2, <1>3, Invariant, PTL DEF Spec

(* A step of the loop of one client, which goes on with its call.          *)
LEMMA LoopAdvances ==
  ASSUME IInv, NEW c \in Clients, Loop(c), Calling(c)'
  PROVE  Advances(c)
<1>1. TypeOK /\ Client(c)
  BY DEF IInv
<1>2. ASSUME Return(c) PROVE FALSE
  BY <1>1, <1>2 DEF Return, TypeOK, Calling
<1>3. ASSUME NEW allowed, Retry(c, allowed), allowed => attempt[c] < Retries
      PROVE  Advances(c)
  <2>1. attempt' = [attempt EXCEPT ![c] = @ + 1] /\ UNCHANGED cursor /\ attempt[c] < Retries
    BY <1>2, <1>3 DEF Retry, listing
  <2>2. attempt[c] \in Nat /\ attempt'[c] = attempt[c] + 1 /\ Retries \in Nat
    BY <1>1, <2>1, ConstantsAssumption DEF TypeOK
  <2>. QED  BY <2>1, <2>2 DEF Advances
<1>4. CASE Send(c)
  BY <1>1, <1>4 DEF Send, Advances, listing, TypeOK
<1>5. CASE TransportError(c)
  <2>1. CanRetryTransport(Site(call[c].kind), attempt[c], Retries) => attempt[c] < Retries
    BY DEF CanRetryTransport
  <2>. QED  BY <1>3, <1>5, <2>1 DEF TransportError
<1>6. CASE HandleError(c)
  <2>1. PICK what \in Answers \ Success :
          Retry(c, CanRetry(Site(call[c].kind), what, attempt[c], Retries))
    BY <1>6 DEF HandleError
  <2>2. CanRetry(Site(call[c].kind), what, attempt[c], Retries) => attempt[c] < Retries
    BY DEF CanRetry
  <2>. QED  BY <1>3, <2>1, <2>2
<1>7. CASE HandleMalformed(c) \/ HandleSuccess(c)
  BY <1>2, <1>7 DEF HandleMalformed, HandleSuccess
<1>8. CASE HandlePage(c)
  <2>1. Succeeds(c) /\ call[c].kind = "list"
    BY <1>8 DEF HandlePage, Page
  <2>2. /\ answer[c].next # 0
        /\ cursor' = [cursor EXCEPT ![c] = answer[c].next]
        /\ attempt' = [attempt EXCEPT ![c] = 0]
    BY <1>2, <1>8 DEF HandlePage, Page
  <2>3. answer[c] # NoAnswer /\ Place(c)
    BY <1>1, <2>1, AnswerAgrees DEF Client
  <2>4. answer[c].next > cursor[c]
    BY <2>2, <2>3 DEF Place
  <2>. QED  BY <1>1, <2>1, <2>2, <2>4 DEF Advances, TypeOK
<1>. QED  BY <1>4, <1>5, <1>6, <1>7, <1>8 DEF Loop

(* No call goes back, and none repeats an attempt or a page: it goes on    *)
(* until it returns.                                                       *)
THEOREM EverOn == Spec => CallAdvances
<1> DEFINE A == \A c \in Clients : Calling(c) /\ Calling(c)' =>
                  Advances(c) \/ UNCHANGED <<pc[c], cursor[c], attempt[c]>>
<1>1. ASSUME IInv, Next PROVE A
  <2>. SUFFICES ASSUME NEW c \in Clients, Calling(c), Calling(c)'
                PROVE  Advances(c) \/ UNCHANGED <<pc[c], cursor[c], attempt[c]>>
    OBVIOUS
  <2>0. TypeOK
    BY <1>1 DEF IInv
  <2>1. ASSUME NEW v \in Clients, Loop(v)
        PROVE  Advances(c) \/ UNCHANGED <<pc[c], cursor[c], attempt[c]>>
    <3>1. CASE v = c
      BY <1>1, <2>1, <3>1, LoopAdvances
    <3>2. CASE v # c
      BY <2>0, <2>1, <3>2
      DEF Loop, Send, TransportError, HandleError, HandleMalformed, HandleSuccess,
          HandlePage, Page, Retry, Return, listing, TypeOK
    <3>. QED  BY <3>1, <3>2
  <2>2. ASSUME NEW v \in Clients, NEW kind, NEW n, NEW info, Begin(v, kind, n, info)
        PROVE  UNCHANGED <<pc[c], cursor[c], attempt[c]>>
    <3>1. v # c
      BY <2>2 DEF Begin
    <3>. QED  BY <2>0, <2>2, <3>1 DEF Begin, TypeOK
  <2>3. ASSUME NEW r \in net, ServeRead(r) \/ Apply(r)
        PROVE  UNCHANGED <<pc[c], cursor[c], attempt[c]>>
    BY <2>3 DEF ServeRead, Apply, listing
  <2>. QED  BY <1>1, <2>1, <2>2, <2>3
            DEF Next, List, Read, SetWithAccess, Unversioned, Change
<1>2. IInv /\ [Next]_vars => [A]_vars
  BY <1>1
<1>3. CallAdvances <=> [][A]_vars
  BY DEF CallAdvances
<1>. QED  BY <1>2, <1>3, Invariant, PTL DEF Spec

=============================================================================
