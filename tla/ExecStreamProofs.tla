-------------------------- MODULE ExecStreamProofs --------------------------
(***************************************************************************)
(* Theorems about ExecStream, for every set of streams a service may       *)
(* write: the events that Next returns are those of the stream.            *)
(***************************************************************************)
EXTENDS ExecStream, TLAPS

LEMMA WireFacts ==
  ASSUME TypeOK
  PROVE  /\ wire \in Seq(Kinds) /\ Len(wire) \in Nat
         /\ got \in Nat /\ cut \in Nat /\ cut <= got /\ got <= Len(wire)
         /\ \A n \in 1 .. Len(wire) : wire[n] \in Kinds
BY WiresAssumption DEF TypeOK

(* Everything about the events returned so far.                            *)
History ==
  /\ delivered \in Seq(Events)
  /\ Boundary /\ Parsed /\ Apart /\ Separate /\ Covered

(* A part of the stream without names leaves the buffer.                   *)
LEMMA SkipKeeps ==
  ASSUME TypeOK, History, wire' = wire,
         delivered' = delivered,
         cut' \in cut .. Len(wire), Nameless(cut + 1, cut'),
         StartsFrame(cut' + 1) \/ cut' = cut,
         done => done'
  PROVE  History'
<1>1. wire \in Seq(Kinds) /\ Len(wire) \in Nat /\ cut \in Nat /\ cut' \in Nat
  BY WireFacts
<1>2. /\ \A p : Blank(p)' <=> Blank(p)
      /\ \A lo, hi : NoBlank(lo, hi)' <=> NoBlank(lo, hi)
      /\ \A lo : StartsFrame(lo)' <=> StartsFrame(lo)
      /\ \A hi : EndsFrame(hi)' <=> EndsFrame(hi)
      /\ \A lo, hi, event : IsParse(lo, hi, event)' <=> IsParse(lo, hi, event)
      /\ \A lo : BehindKeepAlive(lo)' <=> BehindKeepAlive(lo)
  BY DEF Blank, NoBlank, StartsFrame, EndsFrame, IsParse, Lines, BehindKeepAlive, Nameless
<1>3. Boundary'
  BY <1>1, <1>2 DEF History, Boundary, StartsFrame
<1>4. Parsed'
  <2>. SUFFICES ASSUME NEW i \in 1 .. Len(delivered)
                PROVE  /\ delivered[i].hi <= cut'
                       /\ IsParse(delivered[i].lo, delivered[i].hi, delivered[i])
                       /\ StartsFrame(delivered[i].lo) /\ EndsFrame(delivered[i].hi)
    BY <1>2 DEF Parsed
  <2>1. delivered[i] \in Events
    BY DEF History
  <2>2. delivered[i].hi \in Nat
    BY <2>1 DEF Events
  <2>. QED  BY <1>1, <2>2 DEF History, Parsed
<1>5. Apart'
  BY DEF History, Apart
<1>6. Separate'
  BY <1>1, <1>2 DEF History, Separate, Merged
<1>7. Covered'
  <2>. SUFFICES ASSUME NEW n \in 1 .. cut', wire[n] = "name"
                PROVE  \E i \in 1 .. Len(delivered) : n \in delivered[i].lo .. delivered[i].hi
    BY DEF Covered
  <2>1. n \in 1 .. cut
    BY <1>1 DEF Nameless, Lines
  <2>. QED  BY <2>1 DEF History, Covered
<1>. QED  BY <1>3, <1>4, <1>5, <1>6, <1>7 DEF History

(* A nameless part up to from is skipped, and what follows it up to hi is  *)
(* returned as one event.                                                  *)
LEMMA DeliverKeeps ==
  ASSUME TypeOK, History, wire' = wire,
         NEW from \in Nat, cut <= from, Nameless(cut + 1, from),
         StartsFrame(from + 1) \/ from = cut,
         NEW hi \in Nat, hi <= Len(wire), EndsFrame(hi),
         ~Nameless(from + 1, hi), Deliver(from + 1, hi),
         cut' \in hi .. Len(wire), Nameless(hi + 1, cut'),
         StartsFrame(cut' + 1) \/ cut' = Len(wire),
         \/ NoBlank(from + 1, hi)
         \/ done' /\ cut' = Len(wire) /\ hi = Len(wire) /\ BehindKeepAlive(from + 1),
         done => done'
  PROVE  History'
<1>1. wire \in Seq(Kinds) /\ Len(wire) \in Nat /\ cut \in Nat /\ cut' \in Nat
  BY WireFacts
<1>2. /\ \A p : Blank(p)' <=> Blank(p)
      /\ \A lo, to : NoBlank(lo, to)' <=> NoBlank(lo, to)
      /\ \A lo : StartsFrame(lo)' <=> StartsFrame(lo)
      /\ \A to : EndsFrame(to)' <=> EndsFrame(to)
      /\ \A lo, to, e : IsParse(lo, to, e)' <=> IsParse(lo, to, e)
      /\ \A lo : BehindKeepAlive(lo)' <=> BehindKeepAlive(lo)
  BY DEF Blank, NoBlank, StartsFrame, EndsFrame, IsParse, Lines, BehindKeepAlive, Nameless
<1>3. from < hi /\ cut < Len(wire)
  BY <1>1 DEF Nameless, Lines
<1>4. StartsFrame(from + 1)
  BY <1>1, <1>3 DEF History, Boundary
<1>5. PICK name \in from + 1 .. hi :
        LET event == [lo |-> from + 1, hi |-> hi, name |-> name,
                      data |-> Lines("data", from + 1, hi)]
        IN  IsParse(from + 1, hi, event) /\ delivered' = Append(delivered, event)
  BY DEF Deliver
<1>. DEFINE event == [lo |-> from + 1, hi |-> hi, name |-> name,
                      data |-> Lines("data", from + 1, hi)]
<1>6. event \in Events
  BY <1>1 DEF Events, Lines
<1>. DEFINE k == Len(delivered)
<1>7. /\ k \in Nat /\ Len(delivered') = k + 1
      /\ delivered' \in Seq(Events)
      /\ delivered'[k + 1] = event
      /\ \A i \in 1 .. k : delivered'[i] = delivered[i] /\ delivered[i] \in Events
  BY <1>5, <1>6 DEF History
<1>8. /\ event.lo = from + 1 /\ event.hi = hi
      /\ IsParse(event.lo, event.hi, event)
  BY <1>5
<1>. HIDE DEF event, k
<1>9. Boundary'
  BY <1>1, <1>2 DEF Boundary
<1>10. Parsed'
  <2>. SUFFICES ASSUME NEW i \in 1 .. k + 1
                PROVE  /\ delivered'[i].hi <= cut'
                       /\ IsParse(delivered'[i].lo, delivered'[i].hi, delivered'[i])
                       /\ StartsFrame(delivered'[i].lo) /\ EndsFrame(delivered'[i].hi)
    BY <1>2, <1>7 DEF Parsed
  <2>1. CASE i = k + 1
    BY <2>1, <1>1, <1>4, <1>7, <1>8
  <2>2. CASE i \in 1 .. k
    <3>1. /\ delivered'[i] = delivered[i] /\ delivered[i].hi \in Nat
          /\ delivered[i].hi <= cut
          /\ IsParse(delivered[i].lo, delivered[i].hi, delivered[i])
          /\ StartsFrame(delivered[i].lo) /\ EndsFrame(delivered[i].hi)
      BY <2>2, <1>7 DEF History, Parsed, Events, k
    <3>. QED  BY <3>1, <1>1, <1>3
  <2>. QED  BY <2>1, <2>2, <1>7
<1>11. Apart'
  <2>. SUFFICES ASSUME NEW i \in 1 .. k + 1, NEW j \in 1 .. k + 1, i < j
                PROVE  delivered'[i].hi < delivered'[j].lo
    BY <1>7 DEF Apart
  <2>1. i \in 1 .. k /\ delivered[i].hi \in Nat /\ delivered[i].hi <= cut
    <3>1. i \in 1 .. k
      BY <1>7
    <3>2. delivered[i] \in Events
      BY <1>7, <3>1
    <3>3. delivered[i].hi <= cut
      BY <3>1 DEF History, Parsed, k
    <3>. QED  BY <3>1, <3>2, <3>3 DEF Events
  <2>2. CASE j = k + 1
    BY <2>1, <2>2, <1>1, <1>7, <1>8
  <2>3. CASE j \in 1 .. k
    BY <2>1, <2>3, <1>7 DEF History, Apart, k
  <2>. QED  BY <2>2, <2>3, <1>7
<1>12. Separate'
  <2>. SUFFICES ASSUME NEW i \in 1 .. k + 1,
                       ~NoBlank(delivered'[i].lo, delivered'[i].hi)
                PROVE  /\ i = k + 1 /\ done' /\ cut' = Len(wire)
                       /\ delivered'[i].hi = Len(wire)
                       /\ BehindKeepAlive(delivered'[i].lo)
    BY <1>2, <1>7 DEF Separate, Merged
  <2>1. CASE i = k + 1
    BY <2>1, <1>7, <1>8
  <2>2. CASE i \in 1 .. k
    BY <2>2, <1>1, <1>3, <1>7 DEF History, Separate, k
  <2>. QED  BY <2>1, <2>2, <1>7
<1>13. Covered'
  <2>. SUFFICES ASSUME NEW n \in 1 .. cut', wire[n] = "name"
                PROVE  \E i \in 1 .. k + 1 : n \in delivered'[i].lo .. delivered'[i].hi
    BY <1>7 DEF Covered
  <2>1. CASE n \in 1 .. cut
    <3>1. PICK i \in 1 .. k : n \in delivered[i].lo .. delivered[i].hi
      BY <2>1 DEF History, Covered, k
    <3>2. delivered'[i] = delivered[i] /\ i \in 1 .. k + 1
      BY <1>7
    <3>. QED  BY <3>1, <3>2
  <2>4. CASE n \in cut + 1 .. from
    BY <2>4 DEF Nameless, Lines
  <2>2. CASE n \in from + 1 .. hi
    BY <2>2, <1>7, <1>8
  <2>3. CASE n \in hi + 1 .. cut'
    BY <2>3 DEF Nameless, Lines
  <2>. QED  BY <2>1, <2>2, <2>3, <2>4, <1>1, <1>3
<1>. QED  BY <1>7, <1>9, <1>10, <1>11, <1>12, <1>13 DEF History

(* A blank line ends a frame, has no name, and a frame begins after it.    *)
LEMMA BlankFacts ==
  ASSUME TypeOK, NEW end \in Nat, end <= Len(wire),
         NEW p \in Int, FirstBlank(end, p)
  PROVE  /\ p \in Nat /\ cut + 1 <= p /\ p + 1 <= end
         /\ EndsFrame(p - 1) /\ StartsFrame(p + 2)
         /\ Nameless(p, p + 1)
         /\ NoBlank(cut + 1, p - 1)
<1>1. wire \in Seq(Kinds) /\ Len(wire) \in Nat /\ cut \in Nat
  BY WireFacts
<1>2. p \in Nat /\ cut + 1 <= p /\ p + 1 <= end /\ Blank(p)
  BY <1>1 DEF FirstBlank
<1>3. EndsFrame(p - 1) /\ StartsFrame(p + 2)
  <2>1. (p - 1) + 1 = p /\ (p + 2) - 2 = p
    BY <1>2
  <2>. QED  BY <1>2, <2>1 DEF EndsFrame, StartsFrame
<1>4. Nameless(p, p + 1)
  BY <1>2 DEF Nameless, Lines, Blank
<1>5. NoBlank(cut + 1, p - 1)
  BY <1>1, <1>2 DEF FirstBlank, NoBlank
<1>. QED  BY <1>2, <1>3, <1>4, <1>5

(* A frame without a name is cut off together with its blank line.         *)
LEMMA NamelessFrame ==
  ASSUME NEW a \in Int, NEW p \in Int, Nameless(a, p - 1), Nameless(p, p + 1)
  PROVE  Nameless(a, p + 1)
BY DEF Nameless, Lines

LEMMA InitIInv == Init => IInv
<1>. SUFFICES ASSUME Init PROVE IInv
  OBVIOUS
<1>1. wire \in Seq(Kinds) /\ Len(wire) \in Nat
  BY WiresAssumption DEF Init
<1>2. TypeOK
  <2>1. delivered \in Seq(Events)
    BY DEF Init
  <2>2. got \in 0 .. Len(wire) /\ cut \in 0 .. got
    BY <1>1 DEF Init
  <2>3. /\ wire \in Wires
        /\ fate \in {"eof", "broken", "silent"}
        /\ done \in BOOLEAN /\ ctxDone \in BOOLEAN
        /\ err = "nil" /\ closedBy = "nobody" /\ pc = "new" /\ last = "none"
    BY DEF Init
  <2>. QED  BY <2>1, <2>2, <2>3 DEF TypeOK
<1>3. Boundary
  BY DEF Init, Boundary, StartsFrame
<1>4. Parsed /\ Apart /\ Separate /\ Covered
  BY DEF Init, Parsed, Apart, Separate, Covered
<1>5. Ending
  BY DEF Init, Ending
<1>. QED  BY <1>2, <1>3, <1>4, <1>5 DEF IInv

(* A step that cuts nothing and returns no event.                          *)
LEMMA HistoryKept ==
  ASSUME TypeOK, History, wire' = wire, delivered' = delivered, cut' = cut,
         done => done'
  PROVE  History'
<1>1. cut \in Nat /\ cut <= Len(wire) /\ Len(wire) \in Nat
  BY WireFacts
<1>2. cut' \in cut .. Len(wire) /\ Nameless(cut + 1, cut')
  BY <1>1 DEF Nameless, Lines
<1>. QED  BY <1>2, SkipKeeps

(* Returning an event keeps the types.                                     *)
LEMMA DeliverTypes ==
  ASSUME TypeOK, NEW from \in Nat, NEW hi \in Nat, Deliver(from + 1, hi)
  PROVE  delivered' \in Seq(Events) /\ pc' = "idle" /\ last' = "true"
<1>2. PICK name \in from + 1 .. hi :
        delivered' = Append(delivered, [lo |-> from + 1, hi |-> hi, name |-> name,
                                        data |-> Lines("data", from + 1, hi)])
  BY DEF Deliver
<1>3. [lo |-> from + 1, hi |-> hi, name |-> name,
       data |-> Lines("data", from + 1, hi)] \in Events
  BY DEF Events, Lines
<1>. QED  BY <1>2, <1>3 DEF TypeOK, Deliver, Return

LEMMA TakeFrameKeeps ==
  ASSUME IInv, NEW p \in 1 .. Len(wire), TakeFrame(p)
  PROVE  IInv'
<1>1. TypeOK /\ History /\ Ending
  BY DEF IInv, History, TypeOK
<1>2. /\ wire \in Seq(Kinds) /\ Len(wire) \in Nat /\ got \in Nat /\ cut \in Nat
      /\ cut <= got /\ got <= Len(wire)
  BY <1>1, WireFacts
<1>3. /\ p \in Nat /\ cut + 1 <= p /\ p + 1 <= got
      /\ EndsFrame(p - 1) /\ StartsFrame(p + 2)
      /\ Nameless(p, p + 1) /\ NoBlank(cut + 1, p - 1)
  BY <1>1, <1>2, BlankFacts DEF TakeFrame
<1>4. /\ wire' = wire /\ fate' = fate /\ got' = got /\ cut' = p + 1 /\ done' = done
      /\ err' = err /\ closedBy' = closedBy /\ ctxDone' = ctxDone /\ pc = "loop"
  BY DEF TakeFrame, stream
<1>5. cut' + 1 = p + 2 /\ cut' \in cut .. got /\ cut' <= Len(wire)
  BY <1>2, <1>3, <1>4
<1>6. CASE Nameless(cut + 1, p - 1)
  <2>1. delivered' = delivered /\ pc' = pc /\ last' = last
    BY <1>6 DEF TakeFrame
  <2>2. Nameless(cut + 1, cut')
    BY <1>2, <1>3, <1>4, <1>6, NamelessFrame
  <2>3. History'
    <3>1. cut' \in cut .. Len(wire)
      BY <1>2, <1>5
    <3>. QED  BY <1>1, <1>3, <1>4, <1>5, <2>1, <2>2, <3>1, SkipKeeps
  <2>4. TypeOK'
    BY <1>1, <1>2, <1>4, <1>5, <2>1 DEF TypeOK
  <2>5. Ending'
    BY <1>1, <1>4, <2>1 DEF Ending
  <2>. QED  BY <2>3, <2>4, <2>5 DEF IInv, History
<1>7. CASE ~Nameless(cut + 1, p - 1)
  <2>1. Deliver(cut + 1, p - 1)
    BY <1>7 DEF TakeFrame
  <2>2. p - 1 \in Nat /\ p - 1 <= Len(wire) /\ (p - 1) + 1 = p
    BY <1>2, <1>3
  <2>3. delivered' \in Seq(Events) /\ pc' = "idle" /\ last' = "true"
    BY <1>1, <1>2, <2>1, <2>2, DeliverTypes
  <2>4. cut' \in p - 1 .. Len(wire)
    BY <1>2, <1>3, <1>4
  <2>5. History'
    <3>1. Nameless(cut + 1, cut)
      BY <1>2 DEF Nameless, Lines
    <3>. QED
      BY <1>1, <1>2, <1>3, <1>4, <1>5, <1>7, <2>1, <2>2, <2>4, <3>1, DeliverKeeps
  <2>6. TypeOK'
    BY <1>1, <1>2, <1>4, <1>5, <2>3 DEF TypeOK
  <2>7. Ending'
    BY <1>1, <1>4, <2>3 DEF Ending
  <2>. QED  BY <2>5, <2>6, <2>7 DEF IInv, History
<1>. QED  BY <1>6, <1>7

(* The rest of the buffer, after the nameless part up to from.             *)
LEMMA RestKeeps ==
  ASSUME IInv, NEW from \in cut .. Len(wire),
         Nameless(cut + 1, from), StartsFrame(from + 1) \/ from = cut,
         NoBlank(from + 1, Len(wire)) \/ BehindKeepAlive(from + 1),
         pc = "read", closedBy = "nobody", fate = "eof", err' = err,
         got' = Len(wire), done' = TRUE, ctxDone' = ctxDone, stream' = stream,
         Rest(from)
  PROVE  IInv'
<1>1. TypeOK /\ History /\ Ending
  BY DEF IInv, History, TypeOK
<1>2. /\ wire \in Seq(Kinds) /\ Len(wire) \in Nat /\ got \in Nat /\ cut \in Nat
      /\ cut <= got /\ got <= Len(wire) /\ from \in Nat
  BY <1>1, WireFacts
<1>3. wire' = wire /\ fate' = fate /\ done' = TRUE
  BY DEF stream
<1>4. CASE Nameless(from + 1, Len(wire))
  <2>1. /\ cut' = from /\ delivered' = delivered /\ closedBy' = "next"
        /\ pc' = "idle" /\ last' = "false"
    BY <1>4 DEF Rest, Shut, Return
  <2>2. History'
    BY <1>1, <1>2, <1>3, <2>1, SkipKeeps
  <2>3. TypeOK'
    BY <1>1, <1>2, <1>3, <2>1 DEF TypeOK
  <2>4. Nameless(from + 1, Len(wire))'
    BY <1>3, <1>4, <2>1 DEF Nameless, Lines
  <2>5. Ending'
    BY <1>3, <1>4, <2>1, <2>4 DEF Ending, Nameless, Lines
  <2>. QED  BY <2>2, <2>3, <2>5 DEF IInv, History
<1>5. CASE ~Nameless(from + 1, Len(wire))
  <2>1. cut' = Len(wire) /\ Deliver(from + 1, Len(wire)) /\ closedBy' = closedBy
    BY <1>5 DEF Rest
  <2>2. delivered' \in Seq(Events) /\ pc' = "idle" /\ last' = "true"
    BY <1>1, <1>2, <2>1, DeliverTypes
  <2>3. /\ EndsFrame(Len(wire)) /\ Nameless(Len(wire) + 1, cut')
        /\ cut' \in Len(wire) .. Len(wire) /\ cut <= from
    BY <1>2, <2>1 DEF EndsFrame, Nameless, Lines
  <2>4. History'
    BY <1>1, <1>2, <1>3, <1>5, <2>1, <2>3, DeliverKeeps
  <2>5. TypeOK'
    BY <1>1, <1>2, <1>3, <2>1, <2>2 DEF TypeOK
  <2>6. Ending'
    BY <1>3, <2>2 DEF Ending
  <2>. QED  BY <2>4, <2>5, <2>6 DEF IInv, History
<1>. QED  BY <1>4, <1>5

LEMMA ReadEndKeeps ==
  ASSUME IInv, ReadEnd
  PROVE  IInv'
<1>1. TypeOK /\ History /\ Ending
  BY DEF IInv, History, TypeOK
<1>2. /\ wire \in Seq(Kinds) /\ Len(wire) \in Nat /\ got \in Nat /\ cut \in Nat
      /\ cut <= got /\ got <= Len(wire)
  BY <1>1, WireFacts
<1>3. /\ stream' = stream /\ wire' = wire /\ fate' = fate /\ fate = "eof"
      /\ got' = Len(wire) /\ done' = TRUE /\ err' = err /\ ctxDone' = ctxDone
      /\ pc = "read" /\ closedBy = "nobody"
  BY DEF ReadEnd, stream
<1>4. ASSUME NoBlank(cut + 1, Len(wire)), Rest(cut)
      PROVE  IInv'
  <2>1. cut \in cut .. Len(wire) /\ Nameless(cut + 1, cut)
    BY <1>2 DEF Nameless, Lines
  <2>. QED  BY <1>3, <1>4, <2>1, RestKeeps
<1>5. ASSUME NEW p \in 1 .. Len(wire), FirstBlank(Len(wire), p),
             IF Nameless(cut + 1, p - 1)
             THEN Rest(p + 1)
             ELSE cut' = p + 1 /\ Deliver(cut + 1, p - 1) /\ UNCHANGED closedBy
      PROVE  IInv'
  <2>1. /\ p \in Nat /\ cut + 1 <= p /\ p + 1 <= Len(wire)
        /\ EndsFrame(p - 1) /\ StartsFrame(p + 2)
        /\ Nameless(p, p + 1) /\ NoBlank(cut + 1, p - 1)
    BY <1>1, <1>2, <1>5, BlankFacts
  <2>2. (p + 1) + 1 = p + 2 /\ (p - 1) + 1 = p
    BY <2>1
  <2>3. CASE Nameless(cut + 1, p - 1)
    <3>1. Nameless(cut + 1, p + 1) /\ p + 1 \in cut .. Len(wire)
      BY <1>2, <2>1, <2>3, NamelessFrame
    <3>2. Rest(p + 1) /\ StartsFrame((p + 1) + 1)
      BY <1>5, <2>1, <2>2, <2>3
    <3>3. BehindKeepAlive((p + 1) + 1)
      <4>1. /\ cut + 1 \in 1 .. (p + 2) - 2
            /\ (p + 2) - 2 = p /\ (p + 2) - 3 = p - 1
        BY <1>2, <2>1
      <4>2. StartsFrame(cut + 1)
        BY <1>1, <1>2, <2>1 DEF History, Boundary
      <4>3. NoBlank(cut + 1, p)
        BY <1>5 DEF FirstBlank
      <4>4. BehindKeepAlive(p + 2)
        BY <2>3, <4>1, <4>2, <4>3, Zenon DEF BehindKeepAlive
      <4>. QED  BY <2>2, <4>4
    <3>. QED  BY <1>3, <3>1, <3>2, <3>3, RestKeeps
  <2>4. CASE ~Nameless(cut + 1, p - 1)
    <3>1. cut' = p + 1 /\ Deliver(cut + 1, p - 1) /\ closedBy' = closedBy
      BY <1>5, <2>4
    <3>2. p - 1 \in Nat /\ p - 1 <= Len(wire) /\ cut' \in p - 1 .. Len(wire)
      BY <1>2, <2>1, <3>1
    <3>3. delivered' \in Seq(Events) /\ pc' = "idle" /\ last' = "true"
      BY <1>1, <1>2, <3>1, <3>2, DeliverTypes
    <3>4. Nameless(cut + 1, cut) /\ Nameless((p - 1) + 1, cut') /\ StartsFrame(cut' + 1)
      BY <1>2, <2>1, <2>2, <3>1 DEF Nameless, Lines
    <3>5. History'
      BY <1>1, <1>2, <1>3, <2>1, <2>4, <3>1, <3>2, <3>4, DeliverKeeps
    <3>6. TypeOK'
      BY <1>1, <1>2, <1>3, <2>1, <3>1, <3>3 DEF TypeOK
    <3>7. Ending'
      BY <1>3, <3>3 DEF Ending
    <3>. QED  BY <3>5, <3>6, <3>7 DEF IInv, History
  <2>. QED  BY <2>3, <2>4
<1>. QED  BY <1>4, <1>5 DEF ReadEnd

LEMMA NextIInv == IInv /\ [Next]_vars => IInv'
<1>. SUFFICES ASSUME IInv, [Next]_vars PROVE IInv'
  OBVIOUS
<1>1. TypeOK /\ History /\ Ending
  BY DEF IInv, History, TypeOK
<1>2. /\ wire \in Seq(Kinds) /\ Len(wire) \in Nat /\ got \in Nat /\ cut \in Nat
      /\ cut <= got /\ got <= Len(wire)
  BY <1>1, WireFacts
<1>3. ASSUME wire' = wire, fate' = fate, delivered' = delivered, cut' = cut, done => done',
             TypeOK', Ending'
      PROVE  IInv'
  BY <1>1, <1>3, HistoryKept DEF IInv, History
<1>4. ASSUME wire' = wire, cut' = cut PROVE Nameless(cut + 1, Len(wire))' <=> Nameless(cut + 1, Len(wire))
  BY <1>4 DEF Nameless, Lines
<1>5. CASE Open \/ OpenFails \/ NoStream \/ UNCHANGED vars
  <2>1. TypeOK'
    BY <1>1, <1>5 DEF Open, OpenFails, NoStream, vars, stream, TypeOK
  <2>. QED
    BY <1>1, <1>3, <1>4, <1>5, <2>1
    DEF Open, OpenFails, NoStream, vars, stream, Ending
<1>6. CASE NextCall
  <2>1. TypeOK'
    BY <1>1, <1>6 DEF NextCall, Return, stream, TypeOK
  <2>2. CASE err = "nil" /\ done /\ cut = got /\ closedBy # "caller"
    <3>1. Nameless(cut + 1, Len(wire))
      BY <1>1, <1>2, <2>2 DEF Ending, Nameless, Lines
    <3>. QED
      BY <1>1, <1>3, <1>4, <1>6, <2>1, <2>2, <3>1 DEF NextCall, Return, stream, Ending
  <2>. QED
    BY <1>1, <1>3, <1>4, <1>6, <2>1, <2>2 DEF NextCall, Return, stream, Ending
<1>7. CASE \E p \in 1 .. Len(wire) : TakeFrame(p)
  BY <1>7, TakeFrameKeeps
<1>8. CASE SeeCancel \/ StartRead
  <2>1. TypeOK'
    BY <1>1, <1>8 DEF SeeCancel, StartRead, Shut, Return, stream, TypeOK
  <2>. QED
    BY <1>1, <1>3, <1>4, <1>8, <2>1 DEF SeeCancel, StartRead, Shut, Return, stream, Ending
<1>9. CASE \E end \in 1 .. Len(wire) : ReadChunk(end)
  <2>1. PICK end \in 1 .. Len(wire) : ReadChunk(end)
    BY <1>9
  <2>2. TypeOK'
    BY <1>1, <1>2, <2>1 DEF ReadChunk, stream, TypeOK
  <2>3. ~done
    BY <1>1, <1>2, <2>1 DEF ReadChunk, Ending
  <2>. QED
    BY <1>1, <1>3, <1>4, <2>1, <2>2, <2>3 DEF ReadChunk, stream, Ending
<1>10. CASE ReadEnd
  BY <1>10, ReadEndKeeps
<1>11. CASE \E end \in 0 .. Len(wire), what \in {"closed", "canceled", "broken"} :
              ReadFails(end, what)
  <2>1. PICK end \in 0 .. Len(wire), what \in {"closed", "canceled", "broken"} :
           ReadFails(end, what)
    BY <1>11
  <2>2. TypeOK'
    BY <1>1, <1>2, <2>1 DEF ReadFails, Shut, Return, stream, TypeOK
  <2>3. err' # "nil" /\ (done' => done) /\ wire' = wire /\ fate' = fate
    BY <2>1 DEF ReadFails, stream
  <2>4. done /\ closedBy' # "caller" => got' = Len(wire)
    BY <1>1, <1>2, <2>1 DEF ReadFails, Shut, Ending
  <2>. QED
    BY <1>1, <1>3, <1>4, <2>1, <2>2, <2>3, <2>4 DEF ReadFails, Shut, Return, stream, Ending
<1>12. CASE CloseCall \/ Drained
  <2>1. TypeOK'
    BY <1>1, <1>12 DEF CloseCall, Drained, stream, TypeOK
  <2>. QED
    BY <1>1, <1>3, <1>4, <1>12, <2>1 DEF CloseCall, Drained, stream, Ending
<1>13. CASE Cancel
  <2>1. TypeOK'
    BY <1>1, <1>13 DEF Cancel, stream, TypeOK
  <2>. QED
    BY <1>1, <1>3, <1>4, <1>13, <2>1 DEF Cancel, stream, Ending
<1>. QED
  BY <1>5, <1>6, <1>7, <1>8, <1>9, <1>10, <1>11, <1>12, <1>13
  DEF Next, NextStep, ReadStep

(* The history of the stream is what the code says it is (IInv is          *)
(* inductive).                                                             *)
THEOREM Invariant == Spec => []IInv
BY InitIInv, NextIInv, PTL DEF Spec

(* Every variable keeps its type: in particular the buffer is always a     *)
(* part of what was read (sandbox.go:944-961).                             *)
THEOREM TypeCorrect == Spec => []TypeOK
<1>1. IInv => TypeOK
  BY DEF IInv
<1>. QED  BY <1>1, Invariant, PTL

(* Events lie apart, hence come in order.                                  *)
LEMMA InOrder ==
  ASSUME IInv, NEW i \in 1 .. Len(delivered), NEW j \in 1 .. Len(delivered), i < j
  PROVE  delivered[i].name < delivered[j].name
<1>1. delivered[i] \in Events /\ delivered[j] \in Events
  BY DEF IInv, TypeOK
<1>2. delivered[i].name \in Nat /\ delivered[j].name \in Nat
  BY <1>1 DEF Events
<1>3. delivered[i].hi \in Nat /\ delivered[j].lo \in Nat
  BY <1>1 DEF Events
<1>4. delivered[i].hi < delivered[j].lo
  BY DEF IInv, Apart
<1>5. delivered[i].name <= delivered[i].hi /\ delivered[j].lo <= delivered[j].name
  BY <1>2, <1>3 DEF IInv, Parsed, IsParse, Lines
<1>. QED  BY <1>2, <1>3, <1>4, <1>5

(* A position outside the frame of a line is on the other side of a blank  *)
(* line.                                                                   *)
LEMMA FrameOf ==
  ASSUME wire \in Seq(Kinds), NEW lo \in Nat, NEW hi \in Nat, hi <= Len(wire), 1 <= lo,
         StartsFrame(lo), EndsFrame(hi),
         NEW n \in lo .. hi, NEW m \in 1 .. Len(wire), wire[m] # "nl",
         SameFrame(n, m)
  PROVE  m \in lo .. hi
<1>1. Len(wire) \in Nat
  OBVIOUS
<1>2. CASE m < lo
  <2>1. Blank(lo - 2) /\ lo - 2 \in 1 .. Len(wire) - 1
    BY <1>1, <1>2 DEF StartsFrame, Blank
  <2>2. wire[lo - 2] = "nl" /\ wire[(lo - 2) + 1] = "nl"
    BY <2>1 DEF Blank
  <2>3. m # lo - 2 /\ m # (lo - 2) + 1
    BY <2>2
  <2>4. lo - 2 \in m .. n - 1
    BY <1>1, <1>2, <2>1, <2>3
  <2>. QED  BY <2>1, <2>4 DEF SameFrame, NoBlank
<1>3. CASE hi < m
  <2>1. Blank(hi + 1) /\ hi + 1 \in 1 .. Len(wire) - 1
    BY <1>1, <1>3 DEF EndsFrame, Blank
  <2>2. wire[hi + 1] = "nl" /\ wire[(hi + 1) + 1] = "nl"
    BY <2>1 DEF Blank
  <2>3. m # hi + 1 /\ m # (hi + 1) + 1
    BY <2>2
  <2>4. hi + 1 \in n .. m - 1
    BY <1>1, <1>3, <2>1, <2>3
  <2>. QED  BY <2>1, <2>4 DEF SameFrame, NoBlank
<1>. QED  BY <1>1, <1>2, <1>3

(* An event that no blank line divides is a whole frame.                   *)
LEMMA OneFrame ==
  ASSUME IInv, NEW i \in 1 .. Len(delivered),
         NoBlank(delivered[i].lo, delivered[i].hi)
  PROVE  WholeFrame(delivered[i])
<1>1. /\ wire \in Seq(Kinds) /\ Len(wire) \in Nat
      /\ cut \in Nat /\ cut <= Len(wire)
  BY WireFacts DEF IInv
<1>2. delivered[i] \in Events
  BY DEF IInv, TypeOK
<1>. DEFINE lo == delivered[i].lo
            hi == delivered[i].hi
            name == delivered[i].name
<1>3. lo \in Nat /\ hi \in Nat /\ name \in Nat
  BY <1>2 DEF Events
<1>4. /\ hi <= cut /\ StartsFrame(lo) /\ EndsFrame(hi)
      /\ name \in Lines("name", lo, hi)
      /\ \A n \in Lines("name", lo, hi) : n <= name
      /\ delivered[i].data = Lines("data", lo, hi)
  BY DEF IInv, Parsed, IsParse
<1>5. 1 <= lo
  BY <1>1, <1>3, <1>4 DEF StartsFrame, Blank
<1>6. name \in lo .. hi
  BY <1>4 DEF Lines
<1>7. NoBlank(lo, hi)
  OBVIOUS
<1>. HIDE DEF lo, hi, name
<1>8. ASSUME NEW n \in lo .. hi
      PROVE  SameFrame(name, n)
  BY <1>3, <1>6, <1>7 DEF SameFrame, NoBlank
<1>9. ASSUME NEW n \in Position, SameFrame(name, n), wire[n] # "nl"
      PROVE  n \in lo .. hi
  BY <1>1, <1>3, <1>4, <1>5, <1>6, <1>9, FrameOf DEF Position
<1>10. \A n \in delivered[i].data : SameFrame(name, n)
  BY <1>4, <1>8 DEF Lines
<1>11. ASSUME NEW n \in Position, SameFrame(name, n)
       PROVE  /\ wire[n] = "data" => n \in delivered[i].data
              /\ wire[n] = "name" => n <= name
  BY <1>4, <1>9, <1>11 DEF Lines
<1>. QED  BY <1>10, <1>11 DEF name, WholeFrame

(* Chunks that end anywhere, errors, the end of the stream and Close       *)
(* notwithstanding, the events come in order, none of them twice, and each *)
(* is one whole frame, except for the last event of a stream whose last    *)
(* read brought a nameless frame first (sandbox.go:939-989).               *)
THEOREM EventsExact == Spec => []Exact
<1>1. IInv => Exact
  BY InOrder, OneFrame DEF IInv, Separate, Exact
<1>. QED  BY <1>1, Invariant, PTL

(* Positions of a stretch without a blank line are in one frame.           *)
LEMMA TogetherInFrame ==
  ASSUME NEW lo \in Nat, NEW hi \in Nat, NEW a \in lo .. hi, NEW b \in lo .. hi,
         NoBlank(lo, hi)
  PROVE  SameFrame(a, b)
<1>1. \A q \in a .. b - 1 : q \in lo .. hi - 1
  OBVIOUS
<1>2. \A q \in b .. a - 1 : q \in lo .. hi - 1
  OBVIOUS
<1>3. NoBlank(a, b)
  BY <1>1 DEF NoBlank
<1>4. NoBlank(b, a)
  BY <1>2 DEF NoBlank
<1>. QED  BY <1>3, <1>4 DEF SameFrame

(* "for stream.Next() {...}; if err := stream.Err(); err != nil"           *)
(* (README.md:135-138): a loop that ends without an error has read the     *)
(* stream to its end, and every frame with a name had an event of its own  *)
(* or is part of the last event, which was made of all frames behind a     *)
(* keep-alive that came with the end of the stream.                        *)
THEOREM NothingLost == Spec => []EndMeansAll
<1>1. IInv => EndMeansAll
  <2>. SUFFICES ASSUME IInv, pc = "idle", last = "false", err = "nil", closedBy # "caller"
                PROVE  /\ fate = "eof" /\ got = Len(wire)
                       /\ \A n \in Position : wire[n] = "name" =>
                            \E i \in 1 .. Len(delivered) :
                              \/ SameFrame(delivered[i].name, n)
                              \/ Merged(i) /\ n \in delivered[i].lo .. delivered[i].hi
    BY DEF EndMeansAll
  <2>1. /\ fate = "eof" /\ got = Len(wire)
        /\ Nameless(cut + 1, Len(wire))
    BY DEF IInv, Ending
  <2>2. Len(wire) \in Nat /\ cut \in Nat
    BY WireFacts DEF IInv
  <2>3. ASSUME NEW n \in Position, wire[n] = "name"
        PROVE  \E i \in 1 .. Len(delivered) :
                 \/ SameFrame(delivered[i].name, n)
                 \/ Merged(i) /\ n \in delivered[i].lo .. delivered[i].hi
    <3>1. n \in 1 .. cut
      BY <2>1, <2>2, <2>3 DEF Nameless, Lines, Position
    <3>2. PICK i \in 1 .. Len(delivered) : n \in delivered[i].lo .. delivered[i].hi
      BY <2>3, <3>1 DEF IInv, Covered
    <3>3. delivered[i] \in Events
      BY DEF IInv, TypeOK
    <3>4. /\ delivered[i].lo \in Nat /\ delivered[i].hi \in Nat
          /\ delivered[i].name \in delivered[i].lo .. delivered[i].hi
      BY <3>3 DEF Events, IInv, Parsed, IsParse, Lines
    <3>5. NoBlank(delivered[i].lo, delivered[i].hi) => SameFrame(delivered[i].name, n)
      BY <3>2, <3>4, TogetherInFrame
    <3>6. NoBlank(delivered[i].lo, delivered[i].hi) \/ Merged(i)
      BY DEF IInv, Separate
    <3>. QED  BY <3>2, <3>5, <3>6
  <2>. QED  BY <2>1, <2>3
<1>. QED  BY <1>1, Invariant, PTL

(* What the rest of the buffer loses with an event.                        *)
LEMMA RestUsesUp ==
  ASSUME TypeOK, NEW from \in cut .. Len(wire), Rest(from)
  PROVE  (delivered' # delivered => cut' > cut) /\ pc' = "idle"
<1>1. Len(wire) \in Nat /\ cut \in Nat
  BY WireFacts
<1>2. CASE Nameless(from + 1, Len(wire))
  BY <1>2 DEF Rest, Return
<1>3. CASE ~Nameless(from + 1, Len(wire))
  <2>1. cut' = Len(wire) /\ pc' = "idle"
    BY <1>3 DEF Rest, Deliver, Return
  <2>2. from < Len(wire)
    BY <1>1, <1>3 DEF Nameless, Lines
  <2>. QED  BY <1>1, <2>1, <2>2
<1>. QED  BY <1>2, <1>3

(* Every event uses up a part of the stream, and so does every round of a  *)
(* Next that has not returned (sandbox.go:939-989): Next does not go round *)
(* for ever over a buffer it already has.                                  *)
THEOREM BufferUsedUp == Spec => UsesUp
<1>. DEFINE Used ==
        /\ delivered' # delivered => cut' > cut
        /\ InNext /\ InNext' =>
             \/ cut' > cut /\ UNCHANGED got
             \/ got' > got /\ UNCHANGED cut
             \/ pc = "loop" /\ pc' = "read" /\ UNCHANGED <<cut, got>>
             \/ ctxDone' # ctxDone /\ UNCHANGED <<pc, cut, got>>
<1>1. ASSUME TypeOK, [Next]_vars
      PROVE  [Used]_vars
  <2>1. /\ Len(wire) \in Nat /\ got \in Nat /\ cut \in Nat
        /\ cut <= got /\ got <= Len(wire)
    BY <1>1, WireFacts
  <2>2. CASE Open \/ OpenFails \/ NoStream
    BY <2>2 DEF Open, OpenFails, NoStream, InNext, vars
  <2>3. CASE NextCall
    BY <2>3 DEF NextCall, InNext
  <2>4. ASSUME NEW p \in 1 .. Len(wire), TakeFrame(p)
        PROVE  Used
    <3>1. p \in Nat /\ cut + 1 <= p
      BY <1>1, <2>1, <2>4, BlankFacts DEF TakeFrame
    <3>2. cut' = p + 1 /\ got' = got
      BY <2>4 DEF TakeFrame
    <3>. QED  BY <2>1, <3>1, <3>2
  <2>5. CASE SeeCancel \/ StartRead
    BY <2>5 DEF SeeCancel, StartRead, Return, InNext
  <2>6. ASSUME NEW end \in 1 .. Len(wire), ReadChunk(end)
        PROVE  Used
    BY <2>1, <2>6 DEF ReadChunk
  <2>7. CASE ReadEnd
    <3>1. CASE NoBlank(cut + 1, Len(wire)) /\ Rest(cut)
      <4>1. cut \in cut .. Len(wire)
        BY <2>1
      <4>. QED  BY <1>1, <3>1, <4>1, RestUsesUp DEF InNext
    <3>2. ASSUME NEW p \in 1 .. Len(wire), FirstBlank(Len(wire), p),
                 IF Nameless(cut + 1, p - 1)
                 THEN Rest(p + 1)
                 ELSE cut' = p + 1 /\ Deliver(cut + 1, p - 1) /\ UNCHANGED closedBy
          PROVE  Used
      <4>1. p \in Nat /\ cut + 1 <= p /\ p + 1 <= Len(wire)
        BY <1>1, <2>1, <3>2, BlankFacts
      <4>2. CASE Nameless(cut + 1, p - 1)
        <5>1. p + 1 \in cut .. Len(wire) /\ Rest(p + 1)
          BY <2>1, <3>2, <4>1, <4>2
        <5>. QED  BY <1>1, <5>1, RestUsesUp DEF InNext
      <4>3. CASE ~Nameless(cut + 1, p - 1)
        <5>1. cut' = p + 1 /\ pc' = "idle"
          BY <3>2, <4>3 DEF Deliver, Return
        <5>. QED  BY <2>1, <4>1, <5>1 DEF InNext
      <4>. QED  BY <4>2, <4>3
    <3>. QED  BY <2>7, <3>1, <3>2 DEF ReadEnd
  <2>8. ASSUME NEW end \in 0 .. Len(wire),
               NEW what \in {"closed", "canceled", "broken"}, ReadFails(end, what)
        PROVE  Used
    BY <2>8 DEF ReadFails, Return, InNext
  <2>9. CASE CloseCall \/ Drained
    BY <2>9 DEF CloseCall, Drained, InNext
  <2>10. CASE Cancel
    BY <2>10 DEF Cancel
  <2>11. CASE UNCHANGED vars
    BY <2>11
  <2>. QED
    BY <1>1, <2>2, <2>3, <2>4, <2>5, <2>6, <2>7, <2>8, <2>9, <2>10, <2>11
    DEF Next, NextStep, ReadStep
<1>. QED  BY <1>1, TypeCorrect, PTL DEF Spec, UsesUp
=============================================================================
