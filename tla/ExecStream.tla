----------------------------- MODULE ExecStream -----------------------------
(***************************************************************************)
(* Sandbox.ExecStream and the ExecStream it returns (sandbox.go): the      *)
(* events of a command are read from the body of one response, in chunks   *)
(* that end anywhere, and cut into frames at blank lines.                  *)
(*                                                                         *)
(* What the service writes is a sequence of lines and line ends, fixed     *)
(* when the stream starts; everything else is a position in it.  The       *)
(* buffer is the part that has been read and not cut yet, wire[cut + 1] to *)
(* wire[got].  A line that is itself cut off counts by the prefix that     *)
(* arrived, "event:" or "data:", and as a comment without one.             *)
(***************************************************************************)
EXTENDS Integers, Sequences

CONSTANT Wires  \* what services write

Kinds == {"name", "data", "comment", "nl"}

ASSUME WiresAssumption == Wires \subseteq Seq(Kinds)

VARIABLES
  wire,      \* what the service writes on this stream
  fate,      \* how it ends: cleanly, with an error, or not at all
  got,       \* how much of it has been read
  cut,       \* how much of it has left the buffer
  done,      \* s.done
  err,       \* s.err
  closedBy,  \* who closed the body
  ctxDone,   \* the caller's context has ended
  pc,        \* where the goroutine is in Next or Close
  last,      \* what Next returned last
  delivered  \* the events it has returned so far

stream == <<wire, fate>>
vars   == <<wire, fate, got, cut, done, err, closedBy, ctxDone, pc, last, delivered>>

Events == [lo : Nat, hi : Nat, name : Nat, data : SUBSET Nat]

TypeOK ==
  /\ wire \in Wires
  /\ fate \in {"eof", "broken", "silent"}
  /\ got \in 0 .. Len(wire) /\ cut \in 0 .. got
  /\ done \in BOOLEAN /\ ctxDone \in BOOLEAN
  /\ err \in {"nil", "canceled", "broken", "closed"}
  /\ closedBy \in {"nobody", "next", "caller"}
  /\ pc \in {"new", "failed", "idle", "loop", "read", "drain"}
  /\ last \in {"none", "true", "false"}
  /\ delivered \in Seq(Events)

Init ==
  /\ wire \in Wires
  /\ fate \in {"eof", "broken", "silent"}
  /\ got = 0 /\ cut = 0
  /\ done = FALSE /\ ctxDone = FALSE
  /\ err = "nil" /\ closedBy = "nobody"
  /\ pc = "new" /\ last = "none"
  /\ delivered = <<>>

-----------------------------------------------------------------------------
(* Frames.                                                                 *)

(* "\n\n" begins at p.                                                     *)
Blank(p) == p \in 1 .. Len(wire) - 1 /\ wire[p] = "nl" /\ wire[p + 1] = "nl"

NoBlank(lo, hi) == \A q \in lo .. hi - 1 : ~Blank(q)

(* LastIndex in the place of Index.                                        *)
LastBlank(end, p) ==
  /\ p \in cut + 1 .. end - 1 /\ Blank(p)
  /\ \A q \in p + 1 .. end - 1 : ~Blank(q)

(* Index: the first "\n\n" of wire[cut + 1] .. wire[end] begins at p.      *)
FirstBlank(end, p) ==
  /\ p \in cut + 1 .. end - 1 /\ Blank(p)
  /\ NoBlank(cut + 1, p)

Lines(kind, lo, hi) == {n \in lo .. hi : wire[n] = kind}

(* parseSSE finds no name.                                                 *)
Nameless(lo, hi) == Lines("name", lo, hi) = {}

(* parseSSE of wire[lo] .. wire[hi]: the last name, and all data, which is *)
(* one JSON document only if it is the data of one frame.                  *)
IsParse(lo, hi, event) ==
  /\ event.lo = lo /\ event.hi = hi
  /\ event.name \in Lines("name", lo, hi)
  /\ \A n \in Lines("name", lo, hi) : n <= event.name
  /\ event.data = Lines("data", lo, hi)

Return(result) == pc' = "idle" /\ last' = result

Deliver(lo, hi) ==
  /\ \E name \in lo .. hi :
       LET event == [lo |-> lo, hi |-> hi, name |-> name,
                     data |-> Lines("data", lo, hi)]
       IN  IsParse(lo, hi, event) /\ delivered' = Append(delivered, event)
  /\ Return("true")

(* The body is closed, unless it was before.                               *)
Shut == closedBy' = IF closedBy = "nobody" THEN "next" ELSE closedBy

-----------------------------------------------------------------------------
(* Opening.                                                                *)

(* transport.open: one request, never sent again.                          *)
Open ==
  /\ pc = "new" /\ ~ctxDone
  /\ pc' = "idle"
  /\ UNCHANGED <<stream, got, cut, done, err, closedBy, ctxDone, last, delivered>>

(* The request fails or the answer is not a success: no stream.            *)
OpenFails ==
  /\ pc = "new"
  /\ pc' = "failed"
  /\ UNCHANGED <<stream, got, cut, done, err, closedBy, ctxDone, last, delivered>>

-----------------------------------------------------------------------------
(* Next.                                                                   *)

NextCall ==
  /\ pc = "idle"
  /\ IF err # "nil" \/ (done /\ cut = got)
     THEN Return("false")
     ELSE pc' = "loop" /\ UNCHANGED last
  /\ UNCHANGED <<stream, got, cut, done, err, closedBy, ctxDone, delivered>>

(* One byte more than the separator is cut off with the frame.             *)
OvercutFrame(p) ==
  /\ pc = "loop"
  /\ FirstBlank(got, p)
  /\ cut' = p + 2
  /\ IF Nameless(cut + 1, p - 1)
     THEN UNCHANGED <<pc, last, delivered>>
     ELSE Deliver(cut + 1, p - 1)
  /\ UNCHANGED <<stream, got, done, err, closedBy, ctxDone>>

(* A frame that is searched for in the buffer but not cut off it.          *)
UncutFrame(p) ==
  /\ pc = "loop"
  /\ FirstBlank(got, p)
  /\ IF Nameless(cut + 1, p - 1)
     THEN cut' = cut /\ UNCHANGED <<pc, last, delivered>>
     ELSE cut' = p + 1 /\ Deliver(cut + 1, p - 1)
  /\ UNCHANGED <<stream, got, done, err, closedBy, ctxDone>>

(* The buffer holds a whole frame: it is cut off and returned, or skipped  *)
(* when it has no name, as keep-alives have none.                          *)
TakeFrame(p) ==
  /\ pc = "loop"
  /\ FirstBlank(got, p)
  /\ cut' = p + 1
  /\ IF Nameless(cut + 1, p - 1)
     THEN UNCHANGED <<pc, last, delivered>>
     ELSE Deliver(cut + 1, p - 1)
  /\ UNCHANGED <<stream, got, done, err, closedBy, ctxDone>>

NoFrame == NoBlank(cut + 1, got)

(* The check of the context before a read ...                              *)
SeeCancel ==
  /\ pc = "loop" /\ NoFrame
  /\ ctxDone
  /\ err' = "canceled"
  /\ Shut /\ Return("false")
  /\ UNCHANGED <<stream, got, cut, done, ctxDone, delivered>>

(* ... which can end between the check and the read.                       *)
StartRead ==
  /\ pc = "loop" /\ NoFrame
  /\ ~ctxDone
  /\ pc' = "read"
  /\ UNCHANGED <<stream, got, cut, done, err, closedBy, ctxDone, last, delivered>>

(* body.Read returns a chunk.                                              *)
ReadChunk(end) ==
  /\ pc = "read" /\ closedBy = "nobody"
  /\ end \in got + 1 .. Len(wire)
  /\ got' = end
  /\ pc' = "loop"
  /\ UNCHANGED <<stream, cut, done, err, closedBy, ctxDone, last, delivered>>

(* The rest is returned and stays in the buffer.                           *)
RestKept(from) ==
  IF Nameless(from + 1, Len(wire))
  THEN cut' = from /\ Shut /\ Return("false") /\ UNCHANGED delivered
  ELSE /\ cut' = from
       /\ Deliver(from + 1, Len(wire)) /\ UNCHANGED closedBy

(* All that is left in the buffer is parsed as one frame.                  *)
Rest(from) ==
  IF Nameless(from + 1, Len(wire))
  THEN cut' = from /\ Shut /\ Return("false") /\ UNCHANGED delivered
  ELSE /\ cut' = Len(wire)
       /\ Deliver(from + 1, Len(wire)) /\ UNCHANGED closedBy

(* body.Read returns the end of the stream, together with the last chunk   *)
(* or alone.  If that chunk completes a frame, the first one is cut off;   *)
(* if it has no name, everything after it is that rest, further frames      *)
(* included.                                                               *)
ReadEnd ==
  /\ pc = "read" /\ closedBy = "nobody"
  /\ fate = "eof"
  /\ got' = Len(wire)
  /\ done' = TRUE
  /\ \/ \E p \in 1 .. Len(wire) :
          /\ FirstBlank(Len(wire), p)
          /\ IF Nameless(cut + 1, p - 1)
             THEN Rest(p + 1)
             ELSE cut' = p + 1 /\ Deliver(cut + 1, p - 1) /\ UNCHANGED closedBy
     \/ NoBlank(cut + 1, Len(wire)) /\ Rest(cut)
  /\ UNCHANGED <<stream, err, ctxDone>>

(* Any error of body.Read taken for the end.                               *)
ErrorIsEnd(end, what) ==
  /\ pc = "read"
  /\ \/ what = "closed" /\ closedBy # "nobody" /\ end = got
     \/ what = "canceled" /\ closedBy = "nobody" /\ ctxDone /\ end = got
     \/ what = "broken" /\ closedBy = "nobody" /\ fate = "broken" /\ end = Len(wire)
  /\ got' = end
  /\ done' = TRUE
  /\ Shut /\ Return("false")
  /\ UNCHANGED <<stream, cut, err, ctxDone, delivered>>

(* body.Read returns another error, which it returns at once when the body *)
(* is closed or its request's context has ended.                           *)
ReadFails(end, what) ==
  /\ pc = "read"
  /\ \/ what = "closed" /\ closedBy # "nobody" /\ end = got
     \/ what = "canceled" /\ closedBy = "nobody" /\ ctxDone /\ end = got
     \/ what = "broken" /\ closedBy = "nobody" /\ fate = "broken" /\ end = Len(wire)
  /\ got' = end
  /\ err' = what
  /\ Shut /\ Return("false")
  /\ UNCHANGED <<stream, cut, done, ctxDone, delivered>>

-----------------------------------------------------------------------------
(* Close.                                                                  *)

CloseCall ==
  /\ pc = "idle"
  /\ pc' = "drain"
  /\ UNCHANGED <<stream, got, cut, done, err, closedBy, ctxDone, last, delivered>>

(* The rest of the body is waited for whatever becomes of the context.     *)
DrainToEnd ==
  /\ pc = "drain"
  /\ IF closedBy = "nobody" /\ fate = "silent"
     THEN UNCHANGED <<pc, closedBy, done>>
     ELSE pc' = "idle" /\ closedBy' = "caller" /\ done' = TRUE
  /\ UNCHANGED <<stream, got, cut, err, ctxDone, last, delivered>>

(* io.Copy discards the rest of the body, for as long as it goes on.       *)
Drained ==
  /\ pc = "drain"
  /\ closedBy # "nobody" \/ ctxDone \/ fate # "silent"
  /\ pc' = "idle"
  /\ closedBy' = "caller" /\ done' = TRUE
  /\ UNCHANGED <<stream, got, cut, err, ctxDone, last, delivered>>

-----------------------------------------------------------------------------
(* The caller's context ends, at any time.                                 *)
Cancel ==
  /\ ~ctxDone
  /\ ctxDone' = TRUE
  /\ UNCHANGED <<stream, got, cut, done, err, closedBy, pc, last, delivered>>

NoStream == pc = "failed" /\ UNCHANGED vars

ReadStep ==
  \/ \E end \in 1 .. Len(wire) : ReadChunk(end)
  \/ ReadEnd
  \/ \E end \in 0 .. Len(wire), what \in {"closed", "canceled", "broken"} :
       ReadFails(end, what)

NextStep ==
  \/ NextCall
  \/ \E p \in 1 .. Len(wire) : TakeFrame(p)
  \/ SeeCancel \/ StartRead \/ ReadStep

Next ==
  \/ Open \/ OpenFails \/ NoStream
  \/ NextStep
  \/ CloseCall \/ Drained
  \/ Cancel

Spec == Init /\ [][Next]_vars

(* What the goroutine does by itself once its context has ended.           *)
CancelledStep ==
  /\ ctxDone
  /\ \/ \E p \in 1 .. Len(wire) : TakeFrame(p)
     \/ SeeCancel
     \/ \E what \in {"closed", "canceled"} : ReadFails(got, what)
     \/ Drained

CancelSpec == Spec /\ WF_vars(CancelledStep)

(* A caller that goes on calling Next, and a stream that goes on.          *)
LoopFairness == WF_vars(NextStep)

-----------------------------------------------------------------------------
(* Properties.                                                             *)

(* No blank line separates two lines of the stream.                        *)
SameFrame(a, b) == NoBlank(a, b) /\ NoBlank(b, a)

Position == 1 .. Len(wire)

(* An event consists of all lines of one frame and of no others.           *)
WholeFrame(event) ==
  /\ \A n \in Position : SameFrame(event.name, n) =>
       /\ wire[n] = "data" => n \in event.data
       /\ wire[n] = "name" => n <= event.name
  /\ \A n \in event.data : SameFrame(event.name, n)

(* A frame begins after a blank line and ends before one, or at an end of  *)
(* the stream.                                                             *)
StartsFrame(lo) == lo = 1 \/ Blank(lo - 2)
EndsFrame(hi)   == hi = Len(wire) \/ Blank(hi + 1)

(* The frame before lo has no name.                                        *)
BehindKeepAlive(lo) ==
  \E q \in 1 .. lo - 2 :
    StartsFrame(q) /\ NoBlank(q, lo - 2) /\ Nameless(q, lo - 3)

(* The i-th event was made of all that was left of the stream, more than   *)
(* one frame of it, behind a nameless frame (sandbox.go:967-977).          *)
Merged(i) ==
  /\ i = Len(delivered) /\ done
  /\ delivered[i].hi = Len(wire)
  /\ ~NoBlank(delivered[i].lo, delivered[i].hi)
  /\ BehindKeepAlive(delivered[i].lo)

(* The events come in the order of the stream and none comes twice, over   *)
(* all ways in which chunks cut the frames, after the end of the stream,   *)
(* an error, or Close (sandbox.go:939-989), and each is a whole frame.     *)
(* The exception is the last event of a stream whose last read returned a  *)
(* nameless frame first: the rest was parsed as one frame                  *)
(* (sandbox.go:967-977).                                                   *)
Exact ==
  \A i \in 1 .. Len(delivered) :
    /\ \A j \in 1 .. Len(delivered) : i < j => delivered[i].name < delivered[j].name
    /\ WholeFrame(delivered[i]) \/ Merged(i)

(* "for stream.Next() {...}; if err := stream.Err(); err != nil"           *)
(* (README.md:135-138): if Next returns false and Err is nil, and the      *)
(* caller has not closed the stream, then the stream has ended cleanly and *)
(* has been read to its end: no error, no cancellation and no boundary of  *)
(* chunks ends the loop early.  Every frame with a name then has an event  *)
(* of its own, or is one of those that the last event was made of: if the  *)
(* last chunk came together with the end of the stream and began with a    *)
(* keep-alive, all events behind that are returned as one, under the name  *)
(* of the last of them, and the others are lost although Err is nil        *)
(* (sandbox.go:967-977).                                                   *)
EndMeansAll ==
  pc = "idle" /\ last = "false" /\ err = "nil" /\ closedBy # "caller" =>
    /\ fate = "eof" /\ got = Len(wire)
    /\ \A n \in Position : wire[n] = "name" =>
         \E i \in 1 .. Len(delivered) :
           \/ SameFrame(delivered[i].name, n)
           \/ Merged(i) /\ n \in delivered[i].lo .. delivered[i].hi

(* Next and Close return once the context has ended, with no help of the   *)
(* service (sandbox.go:952-958, 997): Close would otherwise wait for the   *)
(* end of the command's output.                                            *)
CancelEnds == ctxDone /\ pc \in {"loop", "read", "drain"} ~> pc = "idle"

(* The loop over Next ends when the stream does: no frame and no rest of   *)
(* the buffer is returned for ever (sandbox.go:940, 975).                  *)
LoopEnds ==
  LoopFairness => (pc = "loop" /\ fate # "silent" ~> last = "false" \/ pc = "drain")

(* What keeps that loop from going round: each event uses up a part of the *)
(* stream, and while Next has not returned, each of its steps cuts the     *)
(* buffer shorter, reads more of the stream, or goes on to read, the end   *)
(* of the context apart (sandbox.go:940-989).                              *)
InNext == pc \in {"loop", "read"}

UsesUp ==
  [][/\ delivered' # delivered => cut' > cut
     /\ InNext /\ InNext' =>
          \/ cut' > cut /\ UNCHANGED got
          \/ got' > got /\ UNCHANGED cut
          \/ pc = "loop" /\ pc' = "read" /\ UNCHANGED <<cut, got>>
          \/ ctxDone' # ctxDone /\ UNCHANGED <<pc, cut, got>>]_vars

-----------------------------------------------------------------------------
(* The inductive invariant behind these properties, by conjuncts.          *)

Boundary == StartsFrame(cut + 1) \/ cut = Len(wire)

Parsed ==
  \A i \in 1 .. Len(delivered) :
    /\ delivered[i].hi <= cut
    /\ IsParse(delivered[i].lo, delivered[i].hi, delivered[i])
    /\ StartsFrame(delivered[i].lo) /\ EndsFrame(delivered[i].hi)

Apart ==
  \A i, j \in 1 .. Len(delivered) : i < j => delivered[i].hi < delivered[j].lo

(* Only the last event may stand for more than one frame.                  *)
Separate ==
  \A i \in 1 .. Len(delivered) :
    NoBlank(delivered[i].lo, delivered[i].hi) \/ (Merged(i) /\ cut = Len(wire))

Covered ==
  \A n \in 1 .. cut : wire[n] = "name" =>
    \E i \in 1 .. Len(delivered) : n \in delivered[i].lo .. delivered[i].hi

Ending ==
  /\ pc = "new" => last = "none"
  /\ done /\ closedBy # "caller" => fate = "eof" /\ got = Len(wire)
  /\ pc = "idle" /\ last = "false" /\ err = "nil" /\ closedBy # "caller" =>
       done /\ Nameless(cut + 1, Len(wire))

IInv == TypeOK /\ Boundary /\ Parsed /\ Apart /\ Separate /\ Covered /\ Ending
=============================================================================
