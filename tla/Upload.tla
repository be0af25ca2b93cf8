------------------------------- MODULE Upload -------------------------------
(***************************************************************************)
(* Files.Write of sandbox.go: content up to MaxUploadBytes goes in one     *)
(* request, more in chunks, of which the first replaces the file and the   *)
(* others append to it.  No request carries a key, and none is sent again  *)
(* but after a 429 (RetryPolicy).  Several goroutines write to one path,   *)
(* and a Write that failed can be called again.                            *)
(*                                                                         *)
(* A file is a sequence of pieces; a piece is a stretch of the content of  *)
(* one Write, which are numbered.  The service and the network are         *)
(* external: a request is applied at most once, wholly or not at all, and  *)
(* perhaps after its caller has given up.                                  *)
(***************************************************************************)
EXTENDS RetryPolicy

CONSTANTS
  Writers,             \* goroutines that write to the path
  Sizes,               \* lengths of content
  UploadChunkBytes, MaxUploadBytes, MaxUploadFileBytes,
  Retries,             \* t.retries
  MaxWrites            \* bound on the number of Writes

ASSUME LimitsAssumption ==
  /\ UploadChunkBytes \in Nat \ {0} /\ MaxUploadBytes \in Nat
  /\ MaxUploadFileBytes \in Nat
  /\ UploadChunkBytes <= MaxUploadBytes
  /\ Sizes \subseteq Nat /\ Retries \in Nat /\ MaxWrites \in Nat

(* The call site of all requests; only the single one decodes its answer.  *)
Site == [method |-> "PUT", route |-> "/v1/sandboxes/{id}/files/content", output |-> TRUE]

VARIABLES
  pc,       \* where each goroutine is in Write
  number,   \* the number of its Write; its content
  size,     \* len(content)
  offset,   \* offset
  landed,   \* landed
  attempt,  \* attempt of the current request, in requestInto
  answer,   \* the answer to it
  result,   \* what Write returned
  alone,    \* nobody else has written since the Write began
  writes,   \* how many Writes have begun
  net,      \* requests that have not been applied or lost
  file      \* the file, piece by piece

client  == <<number, size, offset, landed, attempt, answer, result, alone, writes>>
vars    == <<pc, client, net, file>>

Numbers  == 0 .. MaxWrites
Requests == [by : Numbers, lo : Nat, hi : Nat, append : BOOLEAN, attempt : 0 .. Retries]

TypeOK ==
  /\ pc \in [Writers -> {"idle", "ready", "waiting", "done"}]
  /\ number \in [Writers -> Numbers]
  /\ size \in [Writers -> Nat]
  /\ offset \in [Writers -> Nat] /\ landed \in [Writers -> Nat]
  /\ \A w \in Writers : offset[w] <= size[w] /\ landed[w] <= size[w]
  /\ attempt \in [Writers -> 0 .. Retries]
  /\ answer \in [Writers -> Answers \cup {"none"}]
  /\ result \in [Writers -> {"none", "ok", "failed", "partial", "rejected"}]
  /\ alone \in [Writers -> BOOLEAN]
  /\ writes \in Numbers
  /\ net \subseteq Requests
  /\ \A r \in net : r.lo <= r.hi /\ r.hi - r.lo <= MaxUploadBytes
  /\ file \in Seq([by : Numbers, lo : Nat, hi : Nat])

Piece(by, lo, hi) == IF lo = hi THEN <<>> ELSE <<[by |-> by, lo |-> lo, hi |-> hi]>>

Init ==
  /\ pc = [w \in Writers |-> "idle"]
  /\ number = [w \in Writers |-> 0]
  /\ size = [w \in Writers |-> 0]
  /\ offset = [w \in Writers |-> 0]
  /\ landed = [w \in Writers |-> 0]
  /\ attempt = [w \in Writers |-> 0]
  /\ answer = [w \in Writers |-> "none"]
  /\ result = [w \in Writers |-> "none"]
  /\ alone = [w \in Writers |-> FALSE]
  /\ writes = 0 /\ net = {}
  /\ file \in {<<>>, Piece(0, 0, 1)}

Writing(w) == pc[w] \in {"ready", "waiting"}

-----------------------------------------------------------------------------
(* Write.                                                                  *)

(* Write is called.  Content over the limit is refused before any request. *)
Write(w, bytes) ==
  /\ ~Writing(w)
  /\ writes < MaxWrites
  /\ writes' = writes + 1
  /\ number' = [number EXCEPT ![w] = writes + 1]
  /\ size' = [size EXCEPT ![w] = bytes]
  /\ offset' = [offset EXCEPT ![w] = 0]
  /\ landed' = [landed EXCEPT ![w] = 0]
  /\ attempt' = [attempt EXCEPT ![w] = 0]
  /\ IF bytes > MaxUploadFileBytes
     THEN /\ pc' = [pc EXCEPT ![w] = "done"]
          /\ result' = [result EXCEPT ![w] = "rejected"]
          /\ UNCHANGED alone
     ELSE /\ pc' = [pc EXCEPT ![w] = "ready"]
          /\ result' = [result EXCEPT ![w] = "none"]
          /\ alone' = [v \in Writers |->
               v = w /\ net = {} /\ \A u \in Writers \ {w} : ~Writing(u)]
  /\ UNCHANGED <<answer, net, file>>

Single(w) == size[w] <= MaxUploadBytes

(* The end of a chunk, not cut down to the end of the content.             *)
UncutEnd(w) == IF Single(w) THEN size[w] ELSE offset[w] + UploadChunkBytes

(* Where the request at hand ends.                                         *)
NextEnd(w) ==
  IF Single(w) \/ offset[w] + UploadChunkBytes > size[w]
  THEN size[w]
  ELSE offset[w] + UploadChunkBytes

(* appendChunk for every request.                                          *)
AlwaysAppended(w) == TRUE

Appended(w) == offset[w] > 0

Request(w) ==
  [by |-> number[w], lo |-> offset[w], hi |-> NextEnd(w),
   append |-> Appended(w), attempt |-> attempt[w]]

Send(w) ==
  /\ pc[w] = "ready"
  /\ pc' = [pc EXCEPT ![w] = "waiting"]
  /\ net' = net \cup {Request(w)}
  /\ UNCHANGED <<client, file>>

Return(w, what) ==
  /\ pc' = [pc EXCEPT ![w] = "done"]
  /\ result' = [result EXCEPT ![w] = what]

(* requestInto returned an error.                                          *)
Fail(w) == Return(w, IF Single(w) THEN "failed" ELSE "partial")

(* The context ends before a request is sent, or in the sleep before it is *)
(* sent again.                                                             *)
Cancelled(w) ==
  /\ pc[w] = "ready"
  /\ Fail(w)
  /\ UNCHANGED <<number, size, offset, landed, attempt, answer, alone, writes, net, file>>

(* client.Do fails while it waits; the request may still arrive.           *)
TransportError(w) ==
  /\ pc[w] = "waiting"
  /\ Fail(w)
  /\ answer' = [answer EXCEPT ![w] = "none"]
  /\ UNCHANGED <<number, size, offset, landed, attempt, alone, writes, net, file>>

(* landed counts the chunk that is sent next as well.                      *)
CountedAhead(w) ==
  /\ pc[w] = "waiting" /\ answer[w] \in Success
  /\ ~(answer[w] = "malformed" /\ Single(w))
  /\ IF NextEnd(w) = size[w]
     THEN Return(w, "ok") /\ UNCHANGED <<offset, landed>>
     ELSE /\ pc' = [pc EXCEPT ![w] = "ready"]
          /\ offset' = [offset EXCEPT ![w] = NextEnd(w)]
          /\ landed' = [landed EXCEPT ![w] = NextEnd(w) + UploadChunkBytes]
          /\ UNCHANGED result
  /\ attempt' = [attempt EXCEPT ![w] = 0]
  /\ answer' = [answer EXCEPT ![w] = "none"]
  /\ UNCHANGED <<number, size, alone, writes, net, file>>

(* The request succeeded: the next chunk, or the end.                      *)
HandleSuccess(w) ==
  /\ pc[w] = "waiting" /\ answer[w] \in Success
  /\ ~(answer[w] = "malformed" /\ Single(w))
  /\ landed' = [landed EXCEPT ![w] =
       IF Single(w) THEN @ ELSE @ + (NextEnd(w) - offset[w])]
  /\ IF NextEnd(w) = size[w]
     THEN Return(w, "ok") /\ UNCHANGED offset
     ELSE /\ pc' = [pc EXCEPT ![w] = "ready"]
          /\ offset' = [offset EXCEPT ![w] = @ + UploadChunkBytes]
          /\ UNCHANGED result
  /\ attempt' = [attempt EXCEPT ![w] = 0]
  /\ answer' = [answer EXCEPT ![w] = "none"]
  /\ UNCHANGED <<number, size, alone, writes, net, file>>

(* The single request succeeded and its answer does not decode.            *)
HandleMalformed(w) ==
  /\ pc[w] = "waiting" /\ answer[w] = "malformed" /\ Single(w)
  /\ Fail(w)
  /\ answer' = [answer EXCEPT ![w] = "none"]
  /\ UNCHANGED <<number, size, offset, landed, attempt, alone, writes, net, file>>

(* HandleError that sends again whatever may succeed the next time.        *)
StubbornError(w) ==
  /\ pc[w] = "waiting" /\ answer[w] \in Answers \ Success
  /\ IF attempt[w] < Retries /\ Retryable(answer[w])
     THEN /\ pc' = [pc EXCEPT ![w] = "ready"]
          /\ attempt' = [attempt EXCEPT ![w] = @ + 1]
          /\ UNCHANGED result
     ELSE Fail(w) /\ UNCHANGED attempt
  /\ answer' = [answer EXCEPT ![w] = "none"]
  /\ UNCHANGED <<number, size, offset, landed, alone, writes, net, file>>

(* Any other answer: requestInto sends again what the policy allows.       *)
HandleError(w) ==
  /\ pc[w] = "waiting" /\ answer[w] \in Answers \ Success
  /\ IF CanRetry(Site, answer[w], attempt[w], Retries)
     THEN /\ pc' = [pc EXCEPT ![w] = "ready"]
          /\ attempt' = [attempt EXCEPT ![w] = @ + 1]
          /\ UNCHANGED result
     ELSE Fail(w) /\ UNCHANGED attempt
  /\ answer' = [answer EXCEPT ![w] = "none"]
  /\ UNCHANGED <<number, size, offset, landed, alone, writes, net, file>>

-----------------------------------------------------------------------------
(* The service and the network.                                            *)

(* An answer reaches a goroutine that still waits for it, or is lost.      *)
Answered(r, a) ==
  \/ UNCHANGED answer
  \/ \E w \in Writers :
       /\ pc[w] = "waiting" /\ answer[w] = "none"
       /\ Request(w) = r
       /\ answer' = [answer EXCEPT ![w] = a]

Apply(r) ==
  /\ r \in net
  /\ file' = (IF r.append THEN file ELSE <<>>) \o Piece(r.by, r.lo, r.hi)
  /\ net' = net \ {r}
  /\ \E a \in {"ok", "malformed", "failed"} : Answered(r, a)
  /\ UNCHANGED <<pc, number, size, offset, landed, attempt, result, alone, writes>>

(* The request is refused, or lost.                                        *)
Refuse(r) ==
  /\ r \in net
  /\ net' = net \ {r}
  /\ \E a \in {"limited", "failed", "refused"} : Answered(r, a)
  /\ UNCHANGED <<pc, number, size, offset, landed, attempt, result, alone, writes, file>>

-----------------------------------------------------------------------------
Next ==
  \/ \E w \in Writers :
       \/ \E bytes \in Sizes : Write(w, bytes)
       \/ Send(w) \/ Cancelled(w) \/ TransportError(w)
       \/ HandleSuccess(w) \/ HandleMalformed(w) \/ HandleError(w)
  \/ \E r \in net : Apply(r) \/ Refuse(r)

Spec == Init /\ [][Next]_vars

-----------------------------------------------------------------------------
(* Properties.                                                             *)

(* The first bytes of the file, as many, are the content of Write n.       *)
Holds(n, bytes) ==
  \/ bytes = 0
  \/ \E k \in 1 .. Len(file) :
       /\ file[1].lo = 0 /\ file[k].hi = bytes
       /\ \A i \in 1 .. k : file[i].by = n
       /\ \A i \in 2 .. k : file[i].lo = file[i - 1].hi

IsContent(n, bytes) ==
  Holds(n, bytes) /\ (\A i \in 1 .. Len(file) : file[i].hi <= bytes /\ file[i].by = n)

(* A Write that succeeds leaves the file with its content, whole and with  *)
(* nothing else in it, and it stays so until the next Write: no request of *)
(* its own is applied late, and none of the file it replaces survives      *)
(* (sandbox.go:741-764).                                                   *)
SuccessIsWhole ==
  \A w \in Writers : pc[w] = "done" /\ result[w] = "ok" /\ alone[w] =>
    IsContent(number[w], size[w])

(* "upload of %s failed after %d bytes landed" (sandbox.go:759): they have *)
(* landed, as the first bytes of the file, and at most the chunk that      *)
(* failed has landed besides, then or later.                               *)
LandedIsThere ==
  \A w \in Writers : pc[w] = "done" /\ result[w] = "partial" /\ alone[w] =>
    /\ Holds(number[w], landed[w])
    /\ landed[w] > 0 =>
         IsContent(number[w], landed[w]) \/ IsContent(number[w], NextEnd(w))

(* No byte of a Write is appended twice, and none before an earlier one,   *)
(* whoever else writes and however late a request is applied: the reason   *)
(* that a chunk is not sent again unless it was refused                    *)
(* (client.go:436, 457).                                                   *)
NoByteTwice ==
  \A i, j \in 1 .. Len(file) :
    i < j /\ file[i].by = file[j].by => file[i].hi <= file[j].lo

(* A Write that goes on sends a request, sends it again one of a bounded   *)
(* number of times, or is at a later chunk than before and counts exactly  *)
(* the bytes between the two: the loop over the chunks never goes round    *)
(* for one it has already sent off (sandbox.go:744-764, client.go:422-464).*)
Proceeds(w) ==
  \/ /\ offset'[w] > offset[w] /\ attempt'[w] = 0
     /\ landed'[w] - landed[w] = offset'[w] - offset[w]
  \/ /\ offset'[w] = offset[w] /\ landed'[w] = landed[w]
     /\ \/ attempt'[w] = attempt[w] + 1 /\ attempt'[w] <= Retries
        \/ attempt'[w] = attempt[w] /\ pc[w] = "ready" /\ pc'[w] = "waiting"

WriteProceeds ==
  [][\A w \in Writers : Writing(w) /\ Writing(w)' =>
       Proceeds(w) \/ UNCHANGED <<pc[w], offset[w], landed[w], attempt[w]>>]_vars

-----------------------------------------------------------------------------
(* The inductive invariant.                                                *)

(* A number belongs to one Write, and all that is there belongs to one.    *)
Numbering ==
  /\ \A w \in Writers : number[w] <= writes /\ (Writing(w) => number[w] > 0)
  /\ \A w, v \in Writers : number[w] = number[v] /\ number[w] > 0 => w = v
  /\ \A r \in net : r.by > 0 /\ r.by <= writes
  /\ \A i \in 1 .. Len(file) : file[i].by <= writes

(* How far a Write is, and what it counts.                                 *)
Position(w) ==
  /\ pc[w] # "waiting" => answer[w] = "none"
  /\ Writing(w) => result[w] = "none" /\ (IF Single(w) THEN offset[w] = 0 ELSE offset[w] < size[w])
  /\ Writing(w) /\ ~Single(w) => landed[w] = offset[w]
  /\ result[w] = "partial" => ~Single(w) /\ landed[w] = offset[w]
  /\ result[w] = "ok" => NextEnd(w) = size[w]

(* One request of a Write is in flight at most: the one it waits for, or   *)
(* the one it gave up on.                                                  *)
InFlight ==
  /\ \A r \in net : r.append <=> r.lo > 0
  /\ \A r, q \in net : r.by = q.by => r = q
  /\ \A w \in Writers : \A r \in net : r.by = number[w] =>
       /\ r = Request(w) /\ answer[w] = "none"
       /\ pc[w] \in {"waiting", "done"} /\ result[w] # "ok"

(* What is in the file lies before what is still to come.                  *)
InOrder ==
  /\ NoByteTwice
  /\ \A i \in 1 .. Len(file) :
       /\ \A r \in net : file[i].by = r.by => file[i].hi <= r.lo
       /\ \A w \in Writers : Writing(w) /\ file[i].by = number[w] =>
            /\ file[i].hi <= NextEnd(w)
            /\ pc[w] = "ready" \/ answer[w] = "limited" => file[i].hi <= offset[w]

(* The pieces f are the first bytes of Write n, one behind the other.      *)
Whole(f, n, bytes) ==
  /\ \A i \in 1 .. Len(f) :
       /\ f[i].by = n /\ f[i].hi <= bytes
       /\ f[i].lo = IF i = 1 THEN 0 ELSE f[i - 1].hi
  /\ IF Len(f) = 0 THEN bytes = 0 ELSE f[Len(f)].hi = bytes

(* The file has what landed, or also the chunk at hand.                    *)
Before(w) == offset[w] > 0 => Whole(file, number[w], offset[w])
After(w)  == Whole(file, number[w], NextEnd(w))

(* A Write that nobody disturbs.                                           *)
Undisturbed(w) ==
  /\ \A r \in net : r.by = number[w]
  /\ \A v \in Writers \ {w} : ~Writing(v)
  /\ Holds(number[w], offset[w])
  /\ Before(w) \/ After(w)
  /\ pc[w] = "ready" \/ answer[w] = "limited" \/ net # {} => Before(w)
  /\ answer[w] \in Success \/ result[w] = "ok" => After(w)

IInv ==
  /\ TypeOK /\ Numbering /\ InFlight /\ InOrder
  /\ \A w \in Writers :
       Position(w) /\ (alone[w] /\ result[w] # "rejected" => Undisturbed(w))
=============================================================================
