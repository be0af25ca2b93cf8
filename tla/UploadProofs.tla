---------------------------- MODULE UploadProofs ----------------------------
(***************************************************************************)
(* Theorems about Upload: for any number of writers and Writes, any sizes  *)
(* of content and chunks, and any number of resends, IInv is inductive,    *)
(* and it implies the invariants.                                          *)
(***************************************************************************)
EXTENDS Upload, SequenceTheorems, TLAPS

Pieces == [by : Numbers, lo : Nat, hi : Nat]

-----------------------------------------------------------------------------
(* Pieces of a file.                                                       *)

(* A request adds one piece or, when it is empty, none.                    *)
LEMMA PieceIs ==
  ASSUME NEW n \in Numbers, NEW lo \in Nat, NEW hi \in Nat
  PROVE  /\ Piece(n, lo, hi) \in Seq(Pieces)
         /\ Len(Piece(n, lo, hi)) = IF lo = hi THEN 0 ELSE 1
         /\ lo # hi => Piece(n, lo, hi)[1] = [by |-> n, lo |-> lo, hi |-> hi]
<1>1. [by |-> n, lo |-> lo, hi |-> hi] \in Pieces
  BY DEF Pieces
<1>2. CASE lo = hi
  BY <1>2 DEF Piece
<1>3. CASE lo # hi
  <2>1. Piece(n, lo, hi) = <<[by |-> n, lo |-> lo, hi |-> hi]>>
    BY <1>3 DEF Piece
  <2>. QED  BY <1>1, <1>3, <2>1
<1>. QED  BY <1>2, <1>3

(* The file g is the file f with a request applied to it: the pieces of f, *)
(* and behind them at most one more.                                       *)
IsAdded(g, f, n, lo, hi) ==
  /\ g \in Seq(Pieces) /\ Len(f) \in Nat
  /\ Len(g) = IF lo = hi THEN Len(f) ELSE Len(f) + 1
  /\ \A i \in 1 .. Len(f) : g[i] = f[i]
  /\ lo # hi => g[Len(f) + 1] = [by |-> n, lo |-> lo, hi |-> hi]

LEMMA Added ==
  ASSUME NEW f \in Seq(Pieces), NEW n \in Numbers, NEW lo \in Nat, NEW hi \in Nat
  PROVE  IsAdded(f \o Piece(n, lo, hi), f, n, lo, hi)
<1> DEFINE p == Piece(n, lo, hi)
           g == f \o p
<1>1. /\ p \in Seq(Pieces)
      /\ Len(p) = IF lo = hi THEN 0 ELSE 1
      /\ lo # hi => p[1] = [by |-> n, lo |-> lo, hi |-> hi]
  BY PieceIs
<1>2. g = f \o p
  OBVIOUS
<1>. HIDE DEF p, g
<1>3. /\ f \o p \in Seq(Pieces)
      /\ Len(f \o p) = Len(f) + Len(p)
      /\ \A i \in 1 .. Len(f) + Len(p) :
           (f \o p)[i] = IF i <= Len(f) THEN f[i] ELSE p[i - Len(f)]
  BY <1>1, ConcatProperties
<1>4. Len(f) \in Nat
  BY LenProperties
<1>5. ASSUME NEW i \in 1 .. Len(f)
      PROVE  g[i] = f[i]
  <2>1. i \in 1 .. Len(f) + Len(p) /\ i <= Len(f)
    BY <1>1, <1>4
  <2>. QED  BY <1>2, <1>3, <2>1
<1>6. ASSUME lo # hi
      PROVE  g[Len(f) + 1] = [by |-> n, lo |-> lo, hi |-> hi]
  <2>1. /\ Len(f) + 1 \in 1 .. Len(f) + Len(p) /\ ~(Len(f) + 1 <= Len(f))
        /\ Len(f) + 1 - Len(f) = 1
    BY <1>1, <1>4, <1>6
  <2>2. g[Len(f) + 1] = p[Len(f) + 1 - Len(f)]
    BY <1>2, <1>3, <2>1
  <2>. QED  BY <1>1, <1>6, <2>1, <2>2
<1>7. IsAdded(g, f, n, lo, hi)
  BY <1>1, <1>2, <1>3, <1>4, <1>5, <1>6 DEF IsAdded
<1>. QED  BY <1>7 DEF g, p

(* What is whole up to where a request starts is whole up to where it ends *)
(* when the request is applied.                                            *)
LEMMA Extended ==
  ASSUME NEW f \in Seq(Pieces), NEW n \in Numbers, NEW lo \in Nat, NEW hi \in Nat,
         lo <= hi, Whole(f, n, lo),
         NEW g, g = f \o Piece(n, lo, hi)
  PROVE  Whole(g, n, hi)
<1>1. /\ g \in Seq(Pieces) /\ Len(f) \in Nat
      /\ Len(g) = IF lo = hi THEN Len(f) ELSE Len(f) + 1
      /\ \A i \in 1 .. Len(f) : g[i] = f[i]
      /\ lo # hi => g[Len(f) + 1] = [by |-> n, lo |-> lo, hi |-> hi]
  BY Added DEF IsAdded
<1>2. ASSUME NEW i \in 1 .. Len(f)
      PROVE  f[i].hi \in Nat
  <2>1. f[i] \in Pieces
    BY ElementOfSeq
  <2>. QED  BY <2>1 DEF Pieces
<1>3. ASSUME NEW i \in 1 .. Len(g)
      PROVE  /\ g[i].by = n /\ g[i].hi <= hi
             /\ g[i].lo = IF i = 1 THEN 0 ELSE g[i - 1].hi
  <2>1. CASE i \in 1 .. Len(f)
    <3>1. /\ f[i].by = n /\ f[i].hi <= lo
          /\ f[i].lo = IF i = 1 THEN 0 ELSE f[i - 1].hi
      BY <2>1 DEF Whole
    <3>2. i # 1 => i - 1 \in 1 .. Len(f)
      BY <1>1, <2>1
    <3>. QED  BY <1>1, <1>2, <2>1, <3>1, <3>2
  <2>2. CASE i \notin 1 .. Len(f)
    <3>1. lo # hi /\ i = Len(f) + 1
      BY <1>1, <2>2
    <3>2. g[i] = [by |-> n, lo |-> lo, hi |-> hi]
      BY <1>1, <3>1
    <3>3. CASE Len(f) = 0
      BY <3>1, <3>2, <3>3 DEF Whole
    <3>4. CASE Len(f) # 0
      <4>1. i # 1 /\ i - 1 = Len(f) /\ Len(f) \in 1 .. Len(f)
        BY <1>1, <3>1, <3>4
      <4>2. f[Len(f)].hi = lo
        BY <3>4 DEF Whole
      <4>3. g[i - 1] = f[Len(f)]
        BY <1>1, <4>1
      <4>. QED  BY <3>2, <4>1, <4>2, <4>3
    <3>. QED  BY <3>3, <3>4
  <2>. QED  BY <2>1, <2>2
<1>4. IF Len(g) = 0 THEN hi = 0 ELSE g[Len(g)].hi = hi
  <2>1. CASE lo = hi
    <3>1. Len(g) = Len(f) /\ (Len(f) # 0 => Len(f) \in 1 .. Len(f))
      BY <1>1, <2>1
    <3>. QED  BY <1>1, <2>1, <3>1 DEF Whole
  <2>2. CASE lo # hi
    BY <1>1, <2>2
  <2>. QED  BY <2>1, <2>2
<1>. QED  BY <1>3, <1>4 DEF Whole

(* What is whole is content, and holds its first bytes.                    *)
LEMMA WholeIsContent ==
  ASSUME NEW n \in Numbers, NEW bytes \in Nat, file \in Seq(Pieces),
         Whole(file, n, bytes)
  PROVE  Holds(n, bytes) /\ IsContent(n, bytes)
<1>1. Len(file) \in Nat
  BY LenProperties
<1>2. CASE Len(file) = 0
  BY <1>2 DEF Whole, Holds, IsContent
<1>3. CASE Len(file) # 0
  <2>1. Len(file) \in 1 .. Len(file) /\ 1 \in 1 .. Len(file)
    BY <1>1, <1>3
  <2>2. file[1].lo = 0 /\ file[Len(file)].hi = bytes
    BY <1>3, <2>1 DEF Whole
  <2>3. \A i \in 1 .. Len(file) : file[i].by = n /\ file[i].hi <= bytes
    BY DEF Whole
  <2>4. \A i \in 2 .. Len(file) : file[i].lo = file[i - 1].hi
    BY <1>1 DEF Whole
  <2>. QED  BY <2>1, <2>2, <2>3, <2>4 DEF Holds, IsContent
<1>. QED  BY <1>2, <1>3
-----------------------------------------------------------------------------
(* Writers.                                                                *)

(* Where the request at hand ends.                                         *)
LEMMA Bounds ==
  ASSUME TypeOK, NEW w \in Writers
  PROVE  /\ number[w] \in Numbers /\ size[w] \in Nat /\ offset[w] \in Nat /\ NextEnd(w) \in Nat
         /\ offset[w] <= NextEnd(w) /\ NextEnd(w) <= size[w]
         /\ NextEnd(w) - offset[w] <= MaxUploadBytes
         /\ NextEnd(w) # size[w] => ~Single(w) /\ NextEnd(w) = offset[w] + UploadChunkBytes
BY LimitsAssumption DEF TypeOK, NextEnd, Single

(* A writer whose variables a step leaves alone.                           *)
LEMMA Unmoved ==
  ASSUME NEW v \in Writers,
         pc'[v] = pc[v], number'[v] = number[v], size'[v] = size[v],
         offset'[v] = offset[v], landed'[v] = landed[v], attempt'[v] = attempt[v],
         answer'[v] = answer[v], result'[v] = result[v]
  PROVE  /\ Writing(v)' <=> Writing(v)
         /\ NextEnd(v)' = NextEnd(v)
         /\ Request(v)' = Request(v)
         /\ Position(v)' <=> Position(v)
<1>1. (Writing(v)' <=> Writing(v)) /\ (Single(v)' <=> Single(v))
  BY DEF Writing, Single
<1>2. NextEnd(v)' = NextEnd(v)
  BY <1>1 DEF NextEnd
<1>3. Request(v)' = Request(v)
  BY <1>2 DEF Request, Appended
<1>4. Position(v)' <=> Position(v)
  BY <1>1, <1>2 DEF Position
<1>. QED  BY <1>1, <1>2, <1>3, <1>4

(* What a step inside Write has to preserve that moves one writer and      *)
(* leaves requests and file alone.                                         *)
LEMMA OwnStep ==
  ASSUME IInv, TypeOK', NEW w \in Writers, Writing(w),
         UNCHANGED <<number, size, alone, writes, net, file>>,
         \A v \in Writers \ {w} :
           /\ pc'[v] = pc[v] /\ offset'[v] = offset[v] /\ landed'[v] = landed[v]
           /\ attempt'[v] = attempt[v] /\ answer'[v] = answer[v] /\ result'[v] = result[v],
         Position(w)',
         \A r \in net : r.by = number[w] =>
           /\ r = Request(w)' /\ answer'[w] = "none"
           /\ pc'[w] \in {"waiting", "done"} /\ result'[w] # "ok",
         \A i \in 1 .. Len(file) : Writing(w)' /\ file[i].by = number[w] =>
           /\ file[i].hi <= NextEnd(w)'
           /\ pc'[w] = "ready" \/ answer'[w] = "limited" => file[i].hi <= offset'[w],
         alone[w] => Undisturbed(w)'
  PROVE  IInv'
<1>1. ASSUME NEW v \in Writers \ {w}
      PROVE  /\ Writing(v)' <=> Writing(v)
             /\ NextEnd(v)' = NextEnd(v)
             /\ Request(v)' = Request(v)
             /\ Position(v)' <=> Position(v)
  <2>1. number'[v] = number[v] /\ size'[v] = size[v]
    OBVIOUS
  <2>. QED  BY <2>1, Unmoved
<1>2. Numbering'
  BY <1>1 DEF IInv, Numbering
<1>3. InFlight'
  BY <1>1 DEF IInv, InFlight
<1>4. NoByteTwice'
  BY DEF IInv, InOrder, NoByteTwice
<1>5. InOrder'
  BY <1>1, <1>4 DEF IInv, InOrder
<1>6. ASSUME NEW v \in Writers
      PROVE  Position(v)' /\ (alone'[v] /\ result'[v] # "rejected" => Undisturbed(v)')
  <2>1. CASE v = w
    BY <2>1, Zenon
  <2>2. CASE v # w
    <3>1. Position(v)'
      BY <1>1, <2>2 DEF IInv
    <3>2. ~(alone[v] /\ result[v] # "rejected")
      BY <2>2, Zenon DEF IInv, Undisturbed
    <3>3. result'[v] = result[v]
      BY <2>2
    <3>. QED  BY <3>1, <3>2, <3>3, Zenon
  <2>. QED  BY <2>1, <2>2
<1>. QED  BY <1>2, <1>3, <1>5, <1>6, Zenon DEF IInv
-----------------------------------------------------------------------------
(* What is inside Write.                                                   *)

(* A Write that nobody has disturbed so far.                               *)
LEMMA StillAlone ==
  ASSUME IInv, NEW w \in Writers, Writing(w), alone[w]
  PROVE  Undisturbed(w)
<1>1. result[w] # "rejected"
  BY DEF IInv, Position
<1>. QED  BY <1>1, Zenon DEF IInv

(* A Write that ends with an error.                                        *)
LEMMA GiveUp ==
  ASSUME IInv, NEW w \in Writers, Writing(w), Fail(w),
         answer' = [answer EXCEPT ![w] = "none"],
         UNCHANGED <<number, size, offset, landed, attempt, alone, writes, net, file>>
  PROVE  IInv'
<1>0. TypeOK /\ Position(w)
  BY DEF IInv
<1>1. /\ pc' = [pc EXCEPT ![w] = "done"]
      /\ result' = [result EXCEPT ![w] = IF Single(w) THEN "failed" ELSE "partial"]
  BY DEF Fail, Return
<1>2. TypeOK'
  BY <1>0, <1>1 DEF TypeOK
<1>3. /\ pc'[w] = "done" /\ answer'[w] = "none"
      /\ result'[w] = IF Single(w) THEN "failed" ELSE "partial"
  BY <1>0, <1>1 DEF TypeOK
<1>4. \A v \in Writers \ {w} :
        pc'[v] = pc[v] /\ answer'[v] = answer[v] /\ result'[v] = result[v]
  BY <1>0, <1>1 DEF TypeOK
<1>5. /\ Single(w)' <=> Single(w)
      /\ NextEnd(w)' = NextEnd(w)
      /\ Request(w)' = Request(w)
  BY DEF Single, NextEnd, Request, Appended
<1>6. ~Writing(w)'
  BY <1>3 DEF Writing
<1>7. Position(w)'
  BY <1>0, <1>3, <1>5, <1>6 DEF Position
<1>8. \A r \in net : r.by = number[w] => r = Request(w)'
  BY <1>5 DEF IInv, InFlight
<1>9. ASSUME alone[w]
      PROVE  Undisturbed(w)'
  <2>1. Undisturbed(w)
    BY <1>9, StillAlone
  <2>2. (Before(w)' <=> Before(w)) /\ (After(w)' <=> After(w))
    BY <1>5 DEF Before, After, Whole
  <2>3. \A v \in Writers \ {w} : ~Writing(v)'
    BY <1>4, <2>1 DEF Undisturbed, Writing
  <2>4. Holds(number[w], offset[w])'
    BY <2>1 DEF Undisturbed, Holds
  <2>. QED  BY <1>3, <2>1, <2>2, <2>3, <2>4 DEF Undisturbed, Success
<1>. QED  BY <1>2, <1>3, <1>4, <1>6, <1>7, <1>8, <1>9, OwnStep

(* A request that is sent again: it was refused.                           *)
LEMMA Resend ==
  ASSUME IInv, NEW w \in Writers,
         pc[w] = "waiting", CanRetry(Site, answer[w], attempt[w], Retries),
         pc' = [pc EXCEPT ![w] = "ready"],
         attempt' = [attempt EXCEPT ![w] = @ + 1],
         answer' = [answer EXCEPT ![w] = "none"],
         UNCHANGED <<number, size, offset, landed, result, alone, writes, net, file>>
  PROVE  IInv'
<1>0. TypeOK /\ Position(w) /\ Writing(w)
  BY DEF IInv, Writing
<1>1. answer[w] = "limited" /\ attempt[w] < Retries
  BY DEF CanRetry, Replayable, Site, KeyedRoutes, IdempotentPostRoutes
<1>2. TypeOK'
  BY <1>0, <1>1, LimitsAssumption DEF TypeOK
<1>3. pc'[w] = "ready" /\ answer'[w] = "none" /\ result'[w] = result[w]
  BY <1>0 DEF TypeOK
<1>4. \A v \in Writers \ {w} :
        pc'[v] = pc[v] /\ answer'[v] = answer[v] /\ attempt'[v] = attempt[v]
  BY <1>0 DEF TypeOK
<1>5. /\ Single(w)' <=> Single(w)
      /\ NextEnd(w)' = NextEnd(w)
      /\ Writing(w)'
  BY <1>3 DEF Single, NextEnd, Writing
<1>6. Position(w)'
  BY <1>0, <1>3, <1>5 DEF Position
<1>7. \A r \in net : r.by # number[w]
  BY <1>1 DEF IInv, InFlight
<1>8. \A i \in 1 .. Len(file) : file[i].by = number[w] =>
        file[i].hi <= NextEnd(w) /\ file[i].hi <= offset[w]
  BY <1>0, <1>1 DEF IInv, InOrder
<1>9. ASSUME alone[w]
      PROVE  Undisturbed(w)'
  <2>1. Undisturbed(w)
    BY <1>0, <1>9, StillAlone
  <2>2. (Before(w)' <=> Before(w)) /\ (After(w)' <=> After(w)) /\ Before(w)
    BY <1>1, <1>5, <2>1 DEF Before, After, Whole, Undisturbed
  <2>3. \A v \in Writers \ {w} : ~Writing(v)'
    BY <1>4, <2>1 DEF Undisturbed, Writing
  <2>4. Holds(number[w], offset[w])'
    BY <2>1 DEF Undisturbed, Holds
  <2>5. result[w] = "none"
    BY <1>0 DEF Position
  <2>. QED  BY <1>3, <2>1, <2>2, <2>3, <2>4, <2>5 DEF Undisturbed, Success
<1>. QED  BY <1>0, <1>2, <1>3, <1>4, <1>5, <1>6, <1>7, <1>8, <1>9, OwnStep
(* What a success says: nothing is in flight, and all has landed up to the *)
(* end of the request.                                                     *)
LEMMA Succeeded ==
  ASSUME IInv, NEW w \in Writers, pc[w] = "waiting", answer[w] \in Success
  PROVE  /\ TypeOK /\ Writing(w) /\ Position(w) /\ result[w] = "none"
         /\ \A r \in net : r.by # number[w]
         /\ \A i \in 1 .. Len(file) : file[i].by = number[w] => file[i].hi <= NextEnd(w)
         /\ alone[w] => Undisturbed(w) /\ After(w) /\ Holds(number[w], NextEnd(w))
<1>1. TypeOK /\ Writing(w) /\ Position(w)
  BY DEF IInv, Writing
<1>2. result[w] = "none" /\ answer[w] # "none"
  BY <1>1 DEF Position, Success
<1>3. \A r \in net : r.by # number[w]
  BY <1>2 DEF IInv, InFlight
<1>4. \A i \in 1 .. Len(file) : file[i].by = number[w] => file[i].hi <= NextEnd(w)
  BY <1>1 DEF IInv, InOrder
<1>5. ASSUME alone[w]
      PROVE  Undisturbed(w) /\ After(w) /\ Holds(number[w], NextEnd(w))
  <2>1. Undisturbed(w)
    BY <1>1, <1>5, StillAlone
  <2>2. After(w)
    BY <2>1 DEF Undisturbed
  <2>3. number[w] \in Numbers /\ NextEnd(w) \in Nat /\ file \in Seq(Pieces)
    BY <1>1, Bounds DEF TypeOK, Pieces
  <2>. QED  BY <2>1, <2>2, <2>3, WholeIsContent DEF After
<1>. QED  BY <1>1, <1>2, <1>3, <1>4, <1>5

(* The last request of a Write succeeds.                                   *)
LEMMA LastLands ==
  ASSUME IInv, NEW w \in Writers, HandleSuccess(w), NextEnd(w) = size[w]
  PROVE  IInv'
<1>0. /\ pc[w] = "waiting" /\ answer[w] \in Success
      /\ pc' = [pc EXCEPT ![w] = "done"]
      /\ result' = [result EXCEPT ![w] = "ok"]
      /\ landed' = [landed EXCEPT ![w] = IF Single(w) THEN @ ELSE @ + (NextEnd(w) - offset[w])]
      /\ attempt' = [attempt EXCEPT ![w] = 0]
      /\ answer' = [answer EXCEPT ![w] = "none"]
      /\ UNCHANGED <<number, size, offset, alone, writes, net, file>>
  BY DEF HandleSuccess, Return
<1>1. /\ TypeOK /\ Writing(w) /\ Position(w) /\ result[w] = "none"
      /\ \A r \in net : r.by # number[w]
      /\ alone[w] => Undisturbed(w) /\ After(w)
  BY <1>0, Succeeded
<1>2. /\ pc'[w] = "done" /\ result'[w] = "ok" /\ answer'[w] = "none"
      /\ landed'[w] = IF Single(w) THEN landed[w] ELSE landed[w] + (NextEnd(w) - offset[w])
      /\ \A v \in Writers \ {w} :
           /\ pc'[v] = pc[v] /\ landed'[v] = landed[v] /\ attempt'[v] = attempt[v]
           /\ answer'[v] = answer[v] /\ result'[v] = result[v]
  BY <1>0, <1>1 DEF TypeOK
<1>3. landed'[w] \in Nat /\ landed'[w] <= size[w]
  <2>1. ~Single(w) => landed[w] = offset[w]
    BY <1>1 DEF Position
  <2>. QED  BY <1>1, <1>2, <2>1, Bounds DEF TypeOK
<1>4. TypeOK'
  <2>1. landed' \in [Writers -> Nat] /\ \A v \in Writers : landed'[v] <= size[v]
    BY <1>0, <1>1, <1>2, <1>3 DEF TypeOK
  <2>2. attempt' \in [Writers -> 0 .. Retries]
    BY <1>0, <1>1, LimitsAssumption DEF TypeOK
  <2>. QED  BY <1>0, <1>1, <2>1, <2>2 DEF TypeOK
<1>5. /\ Single(w)' <=> Single(w)
      /\ NextEnd(w)' = NextEnd(w)
      /\ ~Writing(w)'
  BY <1>0, <1>2 DEF Single, NextEnd, Writing
<1>6. Position(w)'
  BY <1>0, <1>2, <1>5 DEF Position
<1>7. ASSUME alone[w]
      PROVE  Undisturbed(w)'
  <2>1. Undisturbed(w) /\ After(w)
    BY <1>1, <1>7
  <2>2. After(w)'
    BY <1>0, <1>5, <2>1 DEF After, Whole
  <2>3. \A v \in Writers \ {w} : ~Writing(v)'
    BY <1>2, <2>1 DEF Undisturbed, Writing
  <2>4. Holds(number[w], offset[w])'
    BY <1>0, <2>1 DEF Undisturbed, Holds
  <2>5. net = {}
    BY <1>1, <2>1 DEF Undisturbed
  <2>. QED  BY <1>0, <1>2, <2>1, <2>2, <2>3, <2>4, <2>5 DEF Undisturbed
<1>. QED  BY <1>0, <1>1, <1>2, <1>4, <1>5, <1>6, <1>7, OwnStep

(* A chunk lands and there is another one.                                 *)
LEMMA ChunkLands ==
  ASSUME IInv, NEW w \in Writers, HandleSuccess(w), NextEnd(w) # size[w]
  PROVE  IInv'
<1>0. /\ pc[w] = "waiting" /\ answer[w] \in Success
      /\ pc' = [pc EXCEPT ![w] = "ready"]
      /\ offset' = [offset EXCEPT ![w] = @ + UploadChunkBytes]
      /\ landed' = [landed EXCEPT ![w] = IF Single(w) THEN @ ELSE @ + (NextEnd(w) - offset[w])]
      /\ attempt' = [attempt EXCEPT ![w] = 0]
      /\ answer' = [answer EXCEPT ![w] = "none"]
      /\ UNCHANGED <<number, size, result, alone, writes, net, file>>
  BY DEF HandleSuccess
<1>1. /\ TypeOK /\ Writing(w) /\ Position(w) /\ result[w] = "none"
      /\ \A r \in net : r.by # number[w]
      /\ \A i \in 1 .. Len(file) : file[i].by = number[w] => file[i].hi <= NextEnd(w)
      /\ alone[w] => Undisturbed(w) /\ After(w) /\ Holds(number[w], NextEnd(w))
  BY <1>0, Succeeded
<1>2. /\ pc'[w] = "ready" /\ result'[w] = "none" /\ answer'[w] = "none"
      /\ offset'[w] = offset[w] + UploadChunkBytes
      /\ landed'[w] = IF Single(w) THEN landed[w] ELSE landed[w] + (NextEnd(w) - offset[w])
      /\ \A v \in Writers \ {w} :
           /\ pc'[v] = pc[v] /\ offset'[v] = offset[v] /\ landed'[v] = landed[v]
           /\ attempt'[v] = attempt[v] /\ answer'[v] = answer[v] /\ result'[v] = result[v]
  BY <1>0, <1>1 DEF TypeOK
<1>3. /\ ~Single(w) /\ NextEnd(w) \in Nat /\ NextEnd(w) < size[w]
      /\ offset'[w] = NextEnd(w) /\ landed'[w] = NextEnd(w)
  <2>1. ~Single(w) => landed[w] = offset[w]
    BY <1>1 DEF Position
  <2>2. ~Single(w) /\ NextEnd(w) \in Nat /\ NextEnd(w) < size[w]
    BY <1>1, Bounds
  <2>. QED  BY <1>1, <1>2, <2>1, <2>2, Bounds
<1>4. TypeOK'
  <2>1. landed' \in [Writers -> Nat] /\ \A v \in Writers : landed'[v] <= size[v]
    BY <1>0, <1>1, <1>2, <1>3 DEF TypeOK
  <2>2. offset' \in [Writers -> Nat] /\ \A v \in Writers : offset'[v] <= size[v]
    BY <1>0, <1>1, <1>2, <1>3 DEF TypeOK
  <2>3. attempt' \in [Writers -> 0 .. Retries]
    BY <1>0, <1>1, LimitsAssumption DEF TypeOK
  <2>. QED  BY <1>0, <1>1, <2>1, <2>2, <2>3 DEF TypeOK
<1>5. (Single(w)' <=> Single(w)) /\ Writing(w)'
  BY <1>0, <1>2 DEF Single, Writing
<1>6. Position(w)'
  BY <1>0, <1>2, <1>3, <1>5 DEF Position
<1>7. offset'[w] <= NextEnd(w)' /\ NextEnd(w)' \in Nat
  BY <1>0, <1>2, <1>3, <1>4, LimitsAssumption DEF NextEnd, Single, TypeOK
<1>8. \A i \in 1 .. Len(file) : file[i].by = number[w] =>
        file[i].hi <= NextEnd(w)' /\ file[i].hi <= offset'[w]
  <2>1. ASSUME NEW i \in 1 .. Len(file)
        PROVE  file[i].hi \in Nat
    <3>1. file[i] \in Pieces
      BY <1>1, ElementOfSeq DEF TypeOK, Pieces
    <3>. QED  BY <3>1 DEF Pieces
  <2>. QED  BY <1>1, <1>3, <1>7, <2>1
<1>9. ASSUME alone[w]
      PROVE  Undisturbed(w)'
  <2>1. Undisturbed(w) /\ After(w) /\ Holds(number[w], NextEnd(w))
    BY <1>1, <1>9
  <2>2. Before(w)'
    BY <1>0, <1>3, <2>1 DEF After, Before, Whole
  <2>3. \A v \in Writers \ {w} : ~Writing(v)'
    BY <1>2, <2>1 DEF Undisturbed, Writing
  <2>4. Holds(number[w], offset[w])'
    BY <1>0, <1>3, <2>1 DEF Holds
  <2>. QED  BY <1>0, <1>2, <2>1, <2>2, <2>3, <2>4 DEF Undisturbed, Success
<1>. QED  BY <1>0, <1>1, <1>2, <1>4, <1>5, <1>6, <1>8, <1>9, OwnStep
(* The steps inside Write but Send.                                        *)
LEMMA InsideIInv ==
  ASSUME IInv, NEW w \in Writers,
         Cancelled(w) \/ TransportError(w) \/ HandleSuccess(w)
           \/ HandleMalformed(w) \/ HandleError(w)
  PROVE  IInv'
<1>1. CASE Cancelled(w)
  <2>1. Writing(w) /\ answer[w] = "none" /\ answer \in [Writers -> Answers \cup {"none"}]
    BY <1>1 DEF Cancelled, Writing, IInv, Position, TypeOK
  <2>2. answer' = [answer EXCEPT ![w] = "none"]
    BY <1>1, <2>1 DEF Cancelled
  <2>. QED  BY <1>1, <2>1, <2>2, GiveUp DEF Cancelled
<1>2. CASE TransportError(w)
  <2>1. Writing(w)
    BY <1>2 DEF TransportError, Writing
  <2>. QED  BY <1>2, <2>1, GiveUp DEF TransportError
<1>3. CASE HandleSuccess(w)
  BY <1>3, LastLands, ChunkLands
<1>4. CASE HandleMalformed(w)
  <2>1. Writing(w)
    BY <1>4 DEF HandleMalformed, Writing
  <2>. QED  BY <1>4, <2>1, GiveUp DEF HandleMalformed
<1>5. CASE HandleError(w)
  <2>1. Writing(w)
    BY <1>5 DEF HandleError, Writing
  <2>2. CASE CanRetry(Site, answer[w], attempt[w], Retries)
    BY <1>5, <2>2, Resend DEF HandleError
  <2>3. CASE ~CanRetry(Site, answer[w], attempt[w], Retries)
    BY <1>5, <2>1, <2>3, GiveUp DEF HandleError
  <2>. QED  BY <2>2, <2>3
<1>. QED  BY <1>1, <1>2, <1>3, <1>4, <1>5

(* A request is sent: it starts where the Write is.                        *)
LEMMA SendIInv ==
  ASSUME IInv, NEW w \in Writers, Send(w)
  PROVE  IInv'
<1>0. /\ pc[w] = "ready" /\ pc' = [pc EXCEPT ![w] = "waiting"]
      /\ net' = net \cup {Request(w)}
      /\ UNCHANGED <<number, size, offset, landed, attempt, answer, result, alone, writes, file>>
  BY DEF Send, client
<1>1. TypeOK /\ Writing(w) /\ Position(w)
  BY <1>0 DEF IInv, Writing
<1>2. /\ pc'[w] = "waiting" /\ \A v \in Writers \ {w} : pc'[v] = pc[v]
      /\ answer[w] = "none" /\ result[w] = "none"
  BY <1>0, <1>1 DEF TypeOK, Position
<1>3. \A v \in Writers :
        /\ Single(v)' <=> Single(v)
        /\ NextEnd(v)' = NextEnd(v)
        /\ Request(v)' = Request(v)
        /\ Writing(v)' <=> Writing(v)
  BY <1>0, <1>1, <1>2 DEF Single, NextEnd, Request, Appended, Writing
<1>4. /\ Request(w).by = number[w] /\ Request(w).lo = offset[w]
      /\ Request(w).hi = NextEnd(w) /\ Request(w) \in Requests
      /\ Request(w).append <=> Request(w).lo > 0
      /\ Request(w).lo <= Request(w).hi /\ Request(w).hi - Request(w).lo <= MaxUploadBytes
  <2>1. attempt[w] \in 0 .. Retries /\ Appended(w) \in BOOLEAN
    BY <1>1 DEF TypeOK, Appended
  <2>2. Request(w) \in Requests
    BY <1>1, <2>1, Bounds DEF Request, Requests
  <2>3. Request(w).append <=> Request(w).lo > 0
    BY DEF Request, Appended
  <2>. QED  BY <1>1, <2>2, <2>3, Bounds DEF Request
<1>5. TypeOK'
  <2>1. pc' \in [Writers -> {"idle", "ready", "waiting", "done"}]
    BY <1>0, <1>1 DEF TypeOK
  <2>2. net' \subseteq Requests /\ \A r \in net' : r.lo <= r.hi /\ r.hi - r.lo <= MaxUploadBytes
    BY <1>0, <1>1, <1>4 DEF TypeOK
  <2>. QED  BY <1>0, <1>1, <2>1, <2>2 DEF TypeOK
<1>6. number[w] \in Nat /\ number[w] > 0 /\ number[w] <= writes
  BY <1>1 DEF IInv, Numbering, TypeOK, Numbers
<1>7. Numbering'
  BY <1>0, <1>3, <1>4, <1>6 DEF IInv, Numbering
<1>8. \A r \in net : r.by # number[w]
  BY <1>0 DEF IInv, InFlight
<1>9. InFlight'
  <2>1. \A r \in net' : r.append <=> r.lo > 0
    BY <1>0, <1>4 DEF IInv, InFlight
  <2>2. \A r, q \in net' : r.by = q.by => r = q
    BY <1>0, <1>4, <1>8 DEF IInv, InFlight
  <2>3. ASSUME NEW v \in Writers, NEW r \in net', r.by = number[v]
        PROVE  /\ r = Request(v) /\ answer[v] = "none"
               /\ pc'[v] \in {"waiting", "done"} /\ result[v] # "ok"
    <3>1. CASE r \in net
      <4>1. v # w
        BY <1>8, <2>3, <3>1
      <4>. QED  BY <1>2, <2>3, <3>1, <4>1 DEF IInv, InFlight
    <3>2. CASE r = Request(w)
      <4>1. v = w
        BY <1>4, <1>6, <2>3, <3>2 DEF IInv, Numbering
      <4>. QED  BY <1>2, <3>2, <4>1
    <3>. QED  BY <1>0, <3>1, <3>2
  <2>. QED  BY <1>0, <1>3, <2>1, <2>2, <2>3 DEF InFlight
<1>10. InOrder'
  <2>1. NoByteTwice'
    BY <1>0 DEF IInv, InOrder, NoByteTwice
  <2>2. \A i \in 1 .. Len(file), r \in net' : file[i].by = r.by => file[i].hi <= r.lo
    BY <1>0, <1>1, <1>4 DEF IInv, InOrder
  <2>3. \A i \in 1 .. Len(file), v \in Writers : Writing(v) /\ file[i].by = number[v] =>
          /\ file[i].hi <= NextEnd(v)
          /\ pc'[v] = "ready" \/ answer[v] = "limited" => file[i].hi <= offset[v]
    BY <1>2 DEF IInv, InOrder
  <2>. QED  BY <1>0, <1>3, <2>1, <2>2, <2>3 DEF InOrder
<1>11. ASSUME NEW v \in Writers
       PROVE  Position(v)'
  <2>1. Position(v)
    BY DEF IInv
  <2>2. pc'[v] # "waiting" => pc[v] # "waiting"
    BY <1>2
  <2>. QED  BY <1>0, <1>3, <2>1, <2>2 DEF Position
<1>12. ASSUME NEW v \in Writers, alone[v], result[v] # "rejected"
       PROVE  Undisturbed(v)'
  <2>1. Undisturbed(v)
    BY <1>12, Zenon DEF IInv
  <2>2. v = w
    BY <1>1, <2>1 DEF Undisturbed
  <2>3. Before(w) /\ (Before(w)' <=> Before(w)) /\ (After(w)' <=> After(w))
    BY <1>0, <1>3, <2>1, <2>2 DEF Undisturbed, Before, After
  <2>4. Holds(number[w], offset[w])'
    BY <1>0, <2>1, <2>2 DEF Undisturbed, Holds
  <2>5. \A r \in net' : r.by = number[w]
    BY <1>0, <1>4, <2>1, <2>2 DEF Undisturbed
  <2>. QED  BY <1>0, <1>2, <1>3, <2>1, <2>2, <2>3, <2>4, <2>5 DEF Undisturbed, Success
<1>13. \A v \in Writers : alone'[v] /\ result'[v] # "rejected" => Undisturbed(v)'
  BY <1>0, <1>12, Zenon
<1>. QED  BY <1>5, <1>7, <1>9, <1>10, <1>11, <1>13, Zenon DEF IInv
-----------------------------------------------------------------------------
(* A Write begins: nothing that is there has its number.                   *)
LEMMA WriteIInv ==
  ASSUME IInv, NEW w \in Writers, NEW bytes \in Sizes, Write(w, bytes)
  PROVE  IInv'
<1> DEFINE rejected == bytes > MaxUploadFileBytes
<1>0. /\ ~Writing(w) /\ writes < MaxWrites /\ writes' = writes + 1
      /\ number' = [number EXCEPT ![w] = writes + 1]
      /\ size' = [size EXCEPT ![w] = bytes]
      /\ offset' = [offset EXCEPT ![w] = 0]
      /\ landed' = [landed EXCEPT ![w] = 0]
      /\ attempt' = [attempt EXCEPT ![w] = 0]
      /\ UNCHANGED <<answer, net, file>>
  BY DEF Write
<1>1. /\ rejected => /\ pc' = [pc EXCEPT ![w] = "done"]
                     /\ result' = [result EXCEPT ![w] = "rejected"]
      /\ ~rejected => /\ pc' = [pc EXCEPT ![w] = "ready"]
                      /\ result' = [result EXCEPT ![w] = "none"]
  BY DEF Write
<1>2. /\ rejected => alone' = alone
      /\ ~rejected => alone' = [v \in Writers |->
           v = w /\ net = {} /\ \A u \in Writers \ {w} : ~Writing(u)]
  BY DEF Write
<1>. HIDE DEF rejected
<1>3. TypeOK /\ bytes \in Nat /\ writes \in Nat /\ writes <= MaxWrites /\ writes + 1 \in Numbers
  BY <1>0, LimitsAssumption DEF IInv, TypeOK, Numbers
<1>4. /\ number'[w] = writes + 1 /\ size'[w] = bytes /\ offset'[w] = 0 /\ landed'[w] = 0
      /\ rejected => pc'[w] = "done" /\ result'[w] = "rejected"
      /\ ~rejected => pc'[w] = "ready" /\ result'[w] = "none"
      /\ \A v \in Writers \ {w} :
           /\ number'[v] = number[v] /\ size'[v] = size[v] /\ offset'[v] = offset[v]
           /\ landed'[v] = landed[v] /\ attempt'[v] = attempt[v] /\ pc'[v] = pc[v]
           /\ result'[v] = result[v]
  BY <1>0, <1>1, <1>3 DEF TypeOK
<1>5. TypeOK'
  <2>1. alone' \in [Writers -> BOOLEAN]
    BY <1>2, <1>3, Zenon DEF TypeOK
  <2>2. /\ pc' \in [Writers -> {"idle", "ready", "waiting", "done"}]
        /\ result' \in [Writers -> {"none", "ok", "failed", "partial", "rejected"}]
    BY <1>1, <1>3 DEF TypeOK
  <2>3. attempt' \in [Writers -> 0 .. Retries]
    BY <1>0, <1>3, LimitsAssumption DEF TypeOK
  <2>4. /\ number' \in [Writers -> Numbers] /\ size' \in [Writers -> Nat]
        /\ offset' \in [Writers -> Nat] /\ landed' \in [Writers -> Nat] /\ writes' \in Numbers
    BY <1>0, <1>3 DEF TypeOK
  <2>5. ASSUME NEW v \in Writers
        PROVE  offset'[v] <= size'[v] /\ landed'[v] <= size'[v]
    <3>1. CASE v = w
      BY <1>3, <1>4, <3>1
    <3>2. CASE v # w
      BY <1>3, <1>4, <3>2 DEF TypeOK
    <3>. QED  BY <3>1, <3>2
  <2>. QED  BY <1>0, <1>3, <2>1, <2>2, <2>3, <2>4, <2>5 DEF TypeOK
<1>6. ASSUME NEW v \in Writers \ {w}
      PROVE  /\ Writing(v)' <=> Writing(v)
             /\ NextEnd(v)' = NextEnd(v)
             /\ Request(v)' = Request(v)
             /\ Position(v)' <=> Position(v)
             /\ number'[v] = number[v] /\ number[v] <= writes /\ number[v] \in Nat
  <2>1. answer'[v] = answer[v]
    BY <1>0
  <2>2. number[v] <= writes /\ number[v] \in Nat
    BY <1>3 DEF IInv, Numbering, TypeOK, Numbers
  <2>. QED  BY <1>4, <2>1, <2>2, Unmoved
<1>7. \A r \in net : r.by \in Nat /\ r.by > 0 /\ r.by <= writes
  BY <1>3 DEF IInv, Numbering, TypeOK, Requests, Numbers
<1>8. ASSUME NEW i \in 1 .. Len(file)
      PROVE  file[i].by \in Nat /\ file[i].by <= writes
  <2>1. file[i] \in Pieces
    BY <1>3, ElementOfSeq DEF TypeOK, Pieces
  <2>. QED  BY <2>1 DEF Pieces, Numbers, IInv, Numbering
<1>9. Numbering'
  <2>1. \A v \in Writers : number'[v] <= writes' /\ (Writing(v)' => number'[v] > 0)
    BY <1>0, <1>3, <1>4, <1>6 DEF IInv, Numbering
  <2>2. \A u, v \in Writers : number'[u] = number'[v] /\ number'[u] > 0 => u = v
    BY <1>3, <1>4, <1>6 DEF IInv, Numbering
  <2>. QED  BY <1>0, <1>3, <1>7, <1>8, <2>1, <2>2 DEF Numbering
<1>10. InFlight'
  <2>1. \A v \in Writers : \A r \in net : r.by = number'[v] =>
          /\ r = Request(v)' /\ answer[v] = "none"
          /\ pc'[v] \in {"waiting", "done"} /\ result'[v] # "ok"
    <3>1. ASSUME NEW v \in Writers, NEW r \in net, r.by = number'[v]
          PROVE  v # w
      BY <1>3, <1>4, <1>7, <3>1
    <3>. QED  BY <1>4, <1>6, <3>1 DEF IInv, InFlight
  <2>. QED  BY <1>0, <2>1 DEF IInv, InFlight
<1>11. InOrder'
  <2>1. NoByteTwice'
    BY <1>0 DEF IInv, InOrder, NoByteTwice
  <2>2. \A i \in 1 .. Len(file), v \in Writers : Writing(v)' /\ file[i].by = number'[v] =>
          /\ file[i].hi <= NextEnd(v)'
          /\ pc'[v] = "ready" \/ answer[v] = "limited" => file[i].hi <= offset'[v]
    <3>1. ASSUME NEW i \in 1 .. Len(file), NEW v \in Writers, file[i].by = number'[v]
          PROVE  v # w
      BY <1>3, <1>4, <1>8, <3>1
    <3>. QED  BY <1>4, <1>6, <3>1 DEF IInv, InOrder
  <2>. QED  BY <1>0, <2>1, <2>2 DEF IInv, InOrder
<1>12. ASSUME NEW v \in Writers
       PROVE  Position(v)'
  <2>1. CASE v = w
    <3>1. answer'[w] = "none"
      BY <1>0 DEF IInv, Position, Writing
    <3>2. Single(w)' <=> bytes <= MaxUploadBytes
      BY <1>4 DEF Single
    <3>3. ~Single(w)' => 0 < bytes
      BY <1>3, <3>2, LimitsAssumption
    <3>4. /\ ~Single(w)' => offset'[w] < size'[w]
          /\ offset'[w] = 0 /\ landed'[w] = offset'[w]
          /\ result'[w] \in {"none", "rejected"}
          /\ Writing(w)' => result'[w] = "none"
      BY <1>4, <3>3 DEF Writing
    <3>. QED  BY <2>1, <3>1, <3>4 DEF Position
  <2>2. CASE v # w
    BY <1>6, <2>2 DEF IInv
  <2>. QED  BY <2>1, <2>2
<1>13. ASSUME NEW v \in Writers, alone'[v], result'[v] # "rejected"
       PROVE  Undisturbed(v)'
  <2>1. CASE rejected
    <3>1. v # w /\ result'[v] = result[v] /\ ~Writing(w)'
      BY <1>4, <1>13, <2>1 DEF Writing
    <3>2. Undisturbed(v)
      BY <1>2, <1>13, <2>1, <3>1, Zenon DEF IInv
    <3>3. \A u \in Writers \ {v} : ~Writing(u)'
      BY <1>6, <3>1, <3>2 DEF Undisturbed
    <3>4. /\ number'[v] = number[v] /\ offset'[v] = offset[v] /\ pc'[v] = pc[v]
          /\ answer'[v] = answer[v] /\ NextEnd(v)' = NextEnd(v)
      BY <1>0, <1>4, <1>6, <3>1
    <3>5. (Before(v)' <=> Before(v)) /\ (After(v)' <=> After(v))
      BY <1>0, <3>4 DEF Before, After, Whole
    <3>6. Holds(number[v], offset[v])'
      BY <1>0, <3>2, <3>4 DEF Undisturbed, Holds
    <3>. QED  BY <1>0, <3>1, <3>2, <3>3, <3>4, <3>5, <3>6 DEF Undisturbed
  <2>2. CASE ~rejected
    <3>1. v = w /\ net = {} /\ \A u \in Writers \ {w} : ~Writing(u)
      BY <1>2, <1>13, <2>2, Zenon
    <3>2. offset'[v] = 0 /\ pc'[v] = "ready" /\ result'[v] = "none" /\ answer'[v] = "none"
      BY <1>0, <1>4, <2>2, <3>1 DEF IInv, Position, Writing
    <3>3. Before(v)' /\ Holds(number[v], offset[v])'
      BY <3>2 DEF Before, Holds
    <3>4. \A u \in Writers \ {v} : ~Writing(u)'
      BY <1>6, <3>1
    <3>. QED  BY <1>0, <3>1, <3>2, <3>3, <3>4 DEF Undisturbed, Success
  <2>. QED  BY <2>1, <2>2
<1>. QED  BY <1>5, <1>9, <1>10, <1>11, <1>12, <1>13, Zenon DEF IInv
-----------------------------------------------------------------------------
(* The service and the network.                                            *)

(* What an answer, or none, leaves true: it reaches only the writer of the *)
(* request, which is no longer in flight.                                  *)
LEMMA Answering ==
  ASSUME IInv, NEW r \in net, NEW a \in Answers, Answered(r, a), net' = net \ {r},
         UNCHANGED <<pc, number, size, offset, landed, attempt, result, alone, writes>>
  PROVE  /\ answer' \in [Writers -> Answers \cup {"none"}]
         /\ \A v \in Writers : answer'[v] = answer[v] \/
              (answer'[v] = a /\ pc[v] = "waiting" /\ answer[v] = "none" /\ Request(v) = r)
         /\ \A v \in Writers : /\ Writing(v)' <=> Writing(v)
                              /\ NextEnd(v)' = NextEnd(v)
                              /\ Request(v)' = Request(v)
                              /\ Position(v)'
         /\ InFlight'
<1>1. TypeOK
  BY DEF IInv
<1>2. answer' \in [Writers -> Answers \cup {"none"}]
  BY <1>1 DEF Answered, TypeOK
<1>3. ASSUME NEW v \in Writers
      PROVE  answer'[v] = answer[v] \/
               (answer'[v] = a /\ pc[v] = "waiting" /\ answer[v] = "none" /\ Request(v) = r)
  BY <1>1 DEF Answered, TypeOK
<1>4. ASSUME NEW v \in Writers
      PROVE  /\ Writing(v)' <=> Writing(v)
             /\ NextEnd(v)' = NextEnd(v)
             /\ Request(v)' = Request(v)
             /\ Position(v)'
  <2>1. /\ Single(v)' <=> Single(v)
        /\ NextEnd(v)' = NextEnd(v)
        /\ Request(v)' = Request(v)
        /\ Writing(v)' <=> Writing(v)
    BY DEF Single, NextEnd, Request, Appended, Writing
  <2>2. Position(v)
    BY DEF IInv
  <2>3. pc[v] # "waiting" => answer'[v] = "none"
    BY <1>3, <2>2 DEF Position
  <2>. QED  BY <2>1, <2>2, <2>3 DEF Position
<1>5. InFlight'
  <2>1. ASSUME NEW v \in Writers, NEW q \in net', q.by = number[v]
        PROVE  /\ q = Request(v) /\ answer'[v] = "none"
               /\ pc[v] \in {"waiting", "done"} /\ result[v] # "ok"
    <3>1. /\ q = Request(v) /\ answer[v] = "none" /\ q # r
          /\ pc[v] \in {"waiting", "done"} /\ result[v] # "ok"
      BY <2>1 DEF IInv, InFlight
    <3>. QED  BY <1>3, <3>1
  <2>. QED  BY <1>4, <2>1 DEF IInv, InFlight
<1>. QED  BY <1>2, <1>3, <1>4, <1>5

(* A request that is refused or lost.                                      *)
LEMMA RefuseIInv ==
  ASSUME IInv, NEW r \in net, Refuse(r)
  PROVE  IInv'
<1>0. net' = net \ {r} /\ UNCHANGED <<pc, number, size, offset, landed, attempt, result, alone, writes, file>>
  BY DEF Refuse
<1>1. PICK a \in Answers : Answered(r, a) /\ a \in {"limited", "failed", "refused"}
  BY DEF Refuse, Answers
<1>2. /\ answer' \in [Writers -> Answers \cup {"none"}]
      /\ \A v \in Writers : answer'[v] = answer[v] \/
           (answer'[v] = a /\ pc[v] = "waiting" /\ answer[v] = "none" /\ Request(v) = r)
      /\ \A v \in Writers : /\ Writing(v)' <=> Writing(v)
                           /\ NextEnd(v)' = NextEnd(v)
                           /\ Request(v)' = Request(v)
                           /\ Position(v)'
      /\ InFlight'
  BY <1>0, <1>1, Answering
<1>3. TypeOK'
  BY <1>0, <1>2 DEF IInv, TypeOK
<1>4. Numbering'
  BY <1>0, <1>2 DEF IInv, Numbering
<1>5. ASSUME NEW v \in Writers, answer'[v] = "limited"
      PROVE  answer[v] = "limited" \/ (r.by = number[v] /\ r.lo = offset[v])
  BY <1>2, <1>5 DEF Request
<1>6. InOrder'
  <2>1. NoByteTwice'
    BY <1>0 DEF IInv, InOrder, NoByteTwice
  <2>2. \A i \in 1 .. Len(file), v \in Writers : Writing(v) /\ file[i].by = number[v] =>
          /\ file[i].hi <= NextEnd(v)
          /\ pc[v] = "ready" \/ answer'[v] = "limited" => file[i].hi <= offset[v]
    BY <1>5 DEF IInv, InOrder
  <2>. QED  BY <1>0, <1>2, <2>1, <2>2 DEF IInv, InOrder
<1>7. ASSUME NEW v \in Writers, alone[v], result[v] # "rejected"
      PROVE  Undisturbed(v)'
  <2>1. Undisturbed(v)
    BY <1>7, Zenon DEF IInv
  <2>2. Before(v) /\ net # {}
    BY <2>1 DEF Undisturbed
  <2>3. (Before(v)' <=> Before(v)) /\ (After(v)' <=> After(v))
    BY <1>0, <1>2 DEF Before, After, Whole
  <2>4. Holds(number[v], offset[v])'
    BY <1>0, <2>1 DEF Undisturbed, Holds
  <2>5. answer'[v] \in Success => answer[v] \in Success
    BY <1>1, <1>2 DEF Success
  <2>. QED  BY <1>0, <1>2, <2>1, <2>2, <2>3, <2>4, <2>5 DEF Undisturbed
<1>8. \A v \in Writers : alone'[v] /\ result'[v] # "rejected" => Undisturbed(v)'
  BY <1>0, <1>7, Zenon
<1>. QED  BY <1>2, <1>3, <1>4, <1>6, <1>8, Zenon DEF IInv
(* A request that is applied.                                              *)
LEMMA ApplyIInv ==
  ASSUME IInv, NEW r \in net, Apply(r)
  PROVE  IInv'
<1> DEFINE base == IF r.append THEN file ELSE <<>>
<1>0. /\ net' = net \ {r} /\ UNCHANGED <<pc, number, size, offset, landed, attempt, result, alone, writes>>
      /\ file' = base \o Piece(r.by, r.lo, r.hi)
  BY DEF Apply
<1>1. PICK a \in Answers : Answered(r, a) /\ a \in {"ok", "malformed", "failed"}
  BY DEF Apply, Answers
<1>2. /\ answer' \in [Writers -> Answers \cup {"none"}]
      /\ \A v \in Writers : answer'[v] = answer[v] \/
           (answer'[v] = a /\ pc[v] = "waiting" /\ answer[v] = "none" /\ Request(v) = r)
      /\ \A v \in Writers : /\ Writing(v)' <=> Writing(v)
                           /\ NextEnd(v)' = NextEnd(v)
                           /\ Request(v)' = Request(v)
                           /\ Position(v)'
      /\ InFlight'
  BY <1>0, <1>1, Answering
<1>3. /\ r.by \in Numbers /\ r.lo \in Nat /\ r.hi \in Nat /\ r.lo <= r.hi
      /\ r.append <=> r.lo > 0
  BY DEF IInv, TypeOK, Requests, InFlight
<1>4. base \in Seq(Pieces) /\ file \in Seq(Pieces)
  BY DEF IInv, TypeOK, Pieces
<1>5. \A i \in 1 .. Len(base) : i \in 1 .. Len(file) /\ base[i] = file[i]
  OBVIOUS
<1>6. Len(file) \in Nat /\ (r.append => base = file) /\ (~r.append => base = <<>>)
  BY <1>4, LenProperties
<1>. HIDE DEF base
<1>7. IsAdded(file', base, r.by, r.lo, r.hi)
  BY <1>0, <1>3, <1>4, Added
<1>8. ASSUME NEW i \in 1 .. Len(file')
      PROVE  \/ i \in 1 .. Len(base) /\ i \in 1 .. Len(file) /\ file'[i] = file[i]
             \/ i = Len(base) + 1 /\ file'[i] = [by |-> r.by, lo |-> r.lo, hi |-> r.hi]
  <2>1. CASE i \in 1 .. Len(base)
    BY <1>5, <1>7, <2>1 DEF IsAdded
  <2>2. CASE i \notin 1 .. Len(base)
    <3>1. r.lo # r.hi /\ i = Len(base) + 1
      BY <1>7, <2>2 DEF IsAdded
    <3>. QED  BY <1>7, <3>1 DEF IsAdded
  <2>. QED  BY <2>1, <2>2
<1>9. TypeOK'
  <2>1. file' \in Seq([by : Numbers, lo : Nat, hi : Nat])
    BY <1>7 DEF IsAdded, Pieces
  <2>. QED  BY <1>0, <1>2, <2>1 DEF IInv, TypeOK
<1>10. Numbering'
  <2>1. \A i \in 1 .. Len(file') : file'[i].by <= writes
    BY <1>8 DEF IInv, Numbering
  <2>. QED  BY <1>0, <1>2, <2>1 DEF IInv, Numbering
<1>11. InOrder'
  <2>1. ASSUME NEW i \in 1 .. Len(file'), NEW j \in 1 .. Len(file'), i < j, file'[i].by = file'[j].by
        PROVE  file'[i].hi <= file'[j].lo
    <3>1. i \in 1 .. Len(base) /\ i \in 1 .. Len(file) /\ file'[i] = file[i]
      <4>1. Len(base) \in Nat /\ Len(file') <= Len(base) + 1 /\ Len(file') \in Nat
        BY <1>7 DEF IsAdded
      <4>. QED  BY <1>8, <2>1, <4>1
    <3>2. CASE j \in 1 .. Len(file) /\ file'[j] = file[j]
      BY <2>1, <3>1, <3>2 DEF IInv, InOrder, NoByteTwice
    <3>3. CASE file'[j] = [by |-> r.by, lo |-> r.lo, hi |-> r.hi]
      BY <2>1, <3>1, <3>3 DEF IInv, InOrder
    <3>. QED  BY <1>8, <3>2, <3>3
  <2>2. ASSUME NEW i \in 1 .. Len(file'), NEW q \in net', file'[i].by = q.by
        PROVE  file'[i].hi <= q.lo
    <3>1. q \in net /\ q.by # r.by
      BY <1>0 DEF IInv, InFlight
    <3>2. i \in 1 .. Len(file) /\ file'[i] = file[i]
      BY <1>8, <2>2, <3>1
    <3>. QED  BY <2>2, <3>1, <3>2 DEF IInv, InOrder
  <2>3. ASSUME NEW i \in 1 .. Len(file'), NEW v \in Writers, Writing(v), file'[i].by = number[v]
        PROVE  /\ file'[i].hi <= NextEnd(v)
               /\ pc[v] = "ready" \/ answer'[v] = "limited" => file'[i].hi <= offset[v]
    <3>1. answer'[v] = "limited" => answer[v] = "limited"
      BY <1>1, <1>2
    <3>2. CASE i \in 1 .. Len(file) /\ file'[i] = file[i]
      BY <2>3, <3>1, <3>2 DEF IInv, InOrder
    <3>3. CASE file'[i] = [by |-> r.by, lo |-> r.lo, hi |-> r.hi]
      <4>1. r.by = number[v]
        BY <2>3, <3>3
      <4>2. /\ r = Request(v) /\ answer[v] = "none" /\ pc[v] # "ready"
        BY <4>1 DEF IInv, InFlight
      <4>3. r.hi = NextEnd(v) /\ NextEnd(v) \in Nat
        BY <4>2, Bounds DEF Request, IInv
      <4>. QED  BY <3>1, <3>3, <4>2, <4>3
    <3>. QED  BY <1>8, <3>2, <3>3
  <2>4. NoByteTwice'
    BY <2>1 DEF NoByteTwice
  <2>. QED  BY <1>0, <1>2, <2>2, <2>3, <2>4 DEF InOrder
<1>12. ASSUME NEW v \in Writers, alone[v], result[v] # "rejected"
       PROVE  Undisturbed(v)'
  <2>1. Undisturbed(v)
    BY <1>12, Zenon DEF IInv
  <2>2. /\ r.by = number[v] /\ r = Request(v) /\ answer[v] = "none"
        /\ pc[v] # "ready" /\ result[v] # "ok"
    BY <2>1 DEF Undisturbed, IInv, InFlight
  <2>3. r.lo = offset[v] /\ r.hi = NextEnd(v)
    BY <2>2 DEF Request
  <2>4. Before(v)
    BY <2>1 DEF Undisturbed
  <2>5. Whole(base, r.by, r.lo)
    <3>1. CASE r.append
      BY <1>3, <1>6, <2>2, <2>3, <2>4, <3>1 DEF Before
    <3>2. CASE ~r.append
      <4>1. r.lo = 0
        BY <1>3, <3>2
      <4>. QED  BY <1>6, <3>2, <4>1 DEF Whole
    <3>. QED  BY <3>1, <3>2
  <2>6. After(v)'
    <3>1. Whole(file', r.by, r.hi)
      BY <1>0, <1>3, <1>4, <2>5, Extended
    <3>. QED  BY <1>0, <1>2, <2>2, <2>3, <3>1 DEF After
  <2>7. Holds(number[v], offset[v])'
    <3>1. CASE ~r.append
      BY <1>0, <1>3, <2>3, <3>1 DEF Holds
    <3>2. CASE r.append
      <4>1. PICK k \in 1 .. Len(file) :
              /\ file[1].lo = 0 /\ file[k].hi = offset[v]
              /\ \A i \in 1 .. k : file[i].by = number[v]
              /\ \A i \in 2 .. k : file[i].lo = file[i - 1].hi
        BY <1>3, <2>1, <2>3, <3>2 DEF Undisturbed, Holds
      <4>2. /\ \A i \in 1 .. Len(file) : file'[i] = file[i]
            /\ Len(file') \in Nat /\ Len(file) <= Len(file')
        BY <1>6, <1>7, <3>2 DEF IsAdded
      <4>3. k \in 1 .. Len(file') /\ 1 \in 1 .. Len(file)
        BY <1>6, <4>2
      <4>4. \A i \in 1 .. k : file'[i].by = number[v]
        BY <1>6, <4>1, <4>2
      <4>5. \A i \in 2 .. k : file'[i].lo = file'[i - 1].hi
        <5>1. ASSUME NEW i \in 2 .. k
              PROVE  i \in 1 .. Len(file) /\ i - 1 \in 1 .. Len(file)
          BY <1>6
        <5>. QED  BY <4>1, <4>2, <5>1
      <4>6. file'[1].lo = 0 /\ file'[k].hi = offset[v]
        BY <4>1, <4>2, <4>3
      <4>7. Holds(number[v], offset[v])' <=>
              \/ offset[v] = 0
              \/ \E m \in 1 .. Len(file') :
                   /\ file'[1].lo = 0 /\ file'[m].hi = offset[v]
                   /\ \A i \in 1 .. m : file'[i].by = number[v]
                   /\ \A i \in 2 .. m : file'[i].lo = file'[i - 1].hi
        BY <1>0 DEF Holds
      <4>. QED  BY <4>3, <4>4, <4>5, <4>6, <4>7
    <3>. QED  BY <3>1, <3>2
  <2>8. net' = {}
    BY <1>0, <2>1, <2>2 DEF Undisturbed, IInv, InFlight
  <2>9. answer'[v] # "limited"
    BY <1>1, <1>2, <2>2
  <2>. QED  BY <1>0, <1>2, <2>1, <2>2, <2>6, <2>7, <2>8, <2>9 DEF Undisturbed
<1>13. \A v \in Writers : alone'[v] /\ result'[v] # "rejected" => Undisturbed(v)'
  BY <1>0, <1>12, Zenon
<1>. QED  BY <1>2, <1>9, <1>10, <1>11, <1>13, Zenon DEF IInv

-----------------------------------------------------------------------------
(* The invariant.                                                          *)

LEMMA InitIInv == Init => IInv
<1>. SUFFICES ASSUME Init PROVE IInv
  OBVIOUS
<1>1. /\ \A w \in Writers : /\ pc[w] = "idle" /\ number[w] = 0 /\ offset[w] = 0 /\ size[w] = 0
                            /\ answer[w] = "none" /\ result[w] = "none"
      /\ net = {} /\ writes = 0
  BY DEF Init
<1>2. file \in Seq(Pieces) /\ \A i \in 1 .. Len(file) : i = 1 /\ file[i].by = 0
  <2>1. 0 \in Numbers
    BY LimitsAssumption DEF Numbers
  <2>2. CASE file = <<>>
    BY <2>2
  <2>3. CASE file = Piece(0, 0, 1)
    <3>1. /\ Piece(0, 0, 1) \in Seq(Pieces) /\ Len(Piece(0, 0, 1)) = 1
          /\ Piece(0, 0, 1)[1] = [by |-> 0, lo |-> 0, hi |-> 1]
      BY <2>1, PieceIs
    <3>. QED  BY <2>3, <3>1
  <2>. QED  BY <2>2, <2>3 DEF Init
<1>3. TypeOK
  <2>1. /\ alone \in [Writers -> BOOLEAN]
    BY Zenon DEF Init
  <2>2. file \in Seq([by : Numbers, lo : Nat, hi : Nat])
    BY <1>2 DEF Pieces
  <2>3. 0 \in Numbers /\ 0 \in 0 .. Retries
    BY LimitsAssumption DEF Numbers
  <2>. QED  BY <1>1, <2>1, <2>2, <2>3 DEF Init, TypeOK
<1>4. Numbering
  BY <1>1, <1>2 DEF Numbering, Writing
<1>5. InFlight
  BY <1>1 DEF InFlight
<1>6. InOrder
  BY <1>1, <1>2 DEF InOrder, NoByteTwice, Writing
<1>7. \A w \in Writers : Position(w)
  BY <1>1 DEF Position, Writing
<1>8. \A w \in Writers : ~alone[w]
  BY Zenon DEF Init
<1>. QED  BY <1>3, <1>4, <1>5, <1>6, <1>7, <1>8, Zenon DEF IInv

LEMMA NextIInv == IInv /\ [Next]_vars => IInv'
<1>. SUFFICES ASSUME IInv, [Next]_vars PROVE IInv'
  OBVIOUS
<1>1. ASSUME NEW w \in Writers, NEW bytes \in Sizes, Write(w, bytes)
      PROVE  IInv'
  BY <1>1, WriteIInv
<1>2. ASSUME NEW w \in Writers, Send(w)
      PROVE  IInv'
  BY <1>2, SendIInv
<1>3. ASSUME NEW w \in Writers,
             Cancelled(w) \/ TransportError(w) \/ HandleSuccess(w)
               \/ HandleMalformed(w) \/ HandleError(w)
      PROVE  IInv'
  BY <1>3, InsideIInv
<1>4. ASSUME NEW r \in net, Apply(r) \/ Refuse(r)
      PROVE  IInv'
  BY <1>4, ApplyIInv, RefuseIInv
<1>5. CASE UNCHANGED vars
  <2>1. /\ pc' = pc /\ number' = number /\ size' = size /\ offset' = offset /\ landed' = landed
        /\ attempt' = attempt /\ answer' = answer /\ result' = result /\ alone' = alone
        /\ writes' = writes /\ net' = net /\ file' = file
    BY <1>5 DEF vars, client
  <2>2. \A v \in Writers : /\ Writing(v)' <=> Writing(v)
                           /\ NextEnd(v)' = NextEnd(v)
                           /\ Request(v)' = Request(v)
                           /\ Position(v)' <=> Position(v)
    BY <2>1, Unmoved
  <2>3. TypeOK'
    BY <2>1 DEF IInv, TypeOK
  <2>4. Numbering' /\ InFlight'
    BY <2>1, <2>2 DEF IInv, Numbering, InFlight
  <2>5. InOrder'
    BY <2>1, <2>2 DEF IInv, InOrder, NoByteTwice
  <2>6. ASSUME NEW v \in Writers, Undisturbed(v)
        PROVE  Undisturbed(v)'
    BY <2>1, <2>2, <2>6 DEF Undisturbed, Before, After, Whole, Holds
  <2>7. \A v \in Writers : alone'[v] /\ result'[v] # "rejected" => Undisturbed(v)'
    BY <2>1, <2>6, Zenon DEF IInv
  <2>. QED  BY <2>2, <2>3, <2>4, <2>5, <2>7, Zenon DEF IInv
<1>. QED  BY <1>1, <1>2, <1>3, <1>4, <1>5 DEF Next

THEOREM Invariant == Spec => []IInv
BY InitIInv, NextIInv, PTL DEF Spec
-----------------------------------------------------------------------------
(* Properties.                                                             *)

(* Every variable keeps its type: among others, no more than the limit     *)
(* goes in one request, and no offset passes the end (sandbox.go:741-764). *)
THEOREM TypeCorrect == Spec => []TypeOK
<1>1. IInv => TypeOK
  BY DEF IInv
<1>. QED  BY <1>1, Invariant, PTL

(* No byte of a Write is appended twice, and none before an earlier one,   *)
(* whoever else writes and however late a request is applied               *)
(* (client.go:436, 457).                                                   *)
THEOREM OnceInOrder == Spec => []NoByteTwice
<1>1. IInv => NoByteTwice
  BY DEF IInv, InOrder
<1>. QED  BY <1>1, Invariant, PTL

(* A Write that succeeds leaves the file with its content, whole and with  *)
(* nothing else in it, until the next Write (sandbox.go:741-764).          *)
THEOREM WholeOnSuccess == Spec => []SuccessIsWhole
<1>1. ASSUME IInv, NEW w \in Writers, result[w] = "ok", alone[w]
      PROVE  IsContent(number[w], size[w])
  <2>1. Undisturbed(w) /\ Position(w) /\ TypeOK
    <3>1. result[w] # "rejected"
      BY <1>1
    <3>. QED  BY <1>1, <3>1, Zenon DEF IInv
  <2>2. Whole(file, number[w], size[w])
    BY <1>1, <2>1 DEF Undisturbed, Position, After
  <2>3. number[w] \in Numbers /\ size[w] \in Nat /\ file \in Seq(Pieces)
    BY <2>1 DEF TypeOK, Pieces
  <2>. QED  BY <2>2, <2>3, WholeIsContent
<1>2. IInv => SuccessIsWhole
  BY <1>1, Zenon DEF SuccessIsWhole
<1>. QED  BY <1>2, Invariant, PTL

(* What a Write that fails says has landed is there, as the first bytes of *)
(* the file, with at most the chunk that failed behind it                  *)
(* (sandbox.go:759).                                                       *)
THEOREM LandedStays == Spec => []LandedIsThere
<1>1. ASSUME IInv, NEW w \in Writers, result[w] = "partial", alone[w]
      PROVE  /\ Holds(number[w], landed[w])
             /\ landed[w] > 0 =>
                  IsContent(number[w], landed[w]) \/ IsContent(number[w], NextEnd(w))
  <2>1. Undisturbed(w) /\ Position(w) /\ TypeOK
    <3>1. result[w] # "rejected"
      BY <1>1
    <3>. QED  BY <1>1, <3>1, Zenon DEF IInv
  <2>2. landed[w] = offset[w]
    BY <1>1, <2>1 DEF Position
  <2>3. /\ number[w] \in Numbers /\ offset[w] \in Nat /\ NextEnd(w) \in Nat
        /\ file \in Seq(Pieces)
    BY <2>1, Bounds DEF TypeOK, Pieces
  <2>4. CASE After(w)
    BY <2>1, <2>2, <2>3, <2>4, WholeIsContent DEF Undisturbed, After
  <2>5. CASE Before(w)
    <3>1. ASSUME offset[w] > 0
          PROVE  IsContent(number[w], offset[w])
      BY <2>3, <2>5, <3>1, WholeIsContent DEF Before
    <3>. QED  BY <2>1, <2>2, <3>1 DEF Undisturbed
  <2>. QED  BY <2>1, <2>4, <2>5 DEF Undisturbed
<1>2. IInv => LandedIsThere
  BY <1>1, Zenon DEF LandedIsThere
<1>. QED  BY <1>2, Invariant, PTL

LEMMA ChunkProceeds ==
  ASSUME TypeOK, NEW w \in Writers, HandleSuccess(w), Writing(w)'
  PROVE  Proceeds(w)
<1>1. pc \in [Writers -> {"idle", "ready", "waiting", "done"}]
  BY DEF TypeOK
<1>2. /\ offset[w] \in Nat /\ landed[w] \in Nat
      /\ NextEnd(w) # size[w] => ~Single(w)
      /\ NextEnd(w) # size[w] => NextEnd(w) - offset[w] = UploadChunkBytes
  BY Bounds, LimitsAssumption DEF TypeOK
<1>3. NextEnd(w) # size[w]
  BY <1>1 DEF HandleSuccess, Return, Writing
<1>4. ~Single(w) /\ NextEnd(w) - offset[w] = UploadChunkBytes
  BY <1>2, <1>3
<1>5. offset'[w] = offset[w] + UploadChunkBytes
  BY <1>3 DEF HandleSuccess, TypeOK
<1>6. landed'[w] = landed[w] + UploadChunkBytes
  BY <1>4 DEF HandleSuccess, TypeOK
<1>7. attempt'[w] = 0
  BY DEF HandleSuccess, TypeOK
<1>8. UploadChunkBytes \in Nat /\ UploadChunkBytes > 0
  BY LimitsAssumption
<1>. QED  BY <1>2, <1>5, <1>6, <1>7, <1>8 DEF Proceeds

(* Every step of a Write that goes on brings it nearer to its end, and     *)
(* what it counts as landed keeps up with its offset                       *)
(* (sandbox.go:744-764).                                                   *)
THEOREM EverFurther == Spec => WriteProceeds
<1>1. ASSUME TypeOK, [Next]_vars, NEW w \in Writers, Writing(w), Writing(w)'
      PROVE  Proceeds(w) \/ UNCHANGED <<pc[w], offset[w], landed[w], attempt[w]>>
  <2>1. pc \in [Writers -> {"idle", "ready", "waiting", "done"}]
    BY <1>1 DEF TypeOK
  <2>2. CASE \E bytes \in Sizes : Write(w, bytes)
    BY <1>1, <2>2 DEF Write
  <2>3. CASE Send(w)
    BY <2>1, <2>3 DEF Send, client, Proceeds
  <2>4. CASE Cancelled(w) \/ TransportError(w) \/ HandleMalformed(w)
    BY <1>1, <2>1, <2>4
    DEF Cancelled, TransportError, HandleMalformed, Fail, Return, Writing
  <2>5. CASE HandleSuccess(w)
    BY <1>1, <2>5, ChunkProceeds
  <2>6. CASE HandleError(w)
    <3>1. CASE CanRetry(Site, answer[w], attempt[w], Retries)
      <4>1. attempt[w] \in 0 .. Retries /\ attempt[w] < Retries
        BY <1>1, <3>1 DEF TypeOK, CanRetry
      <4>2. attempt'[w] = attempt[w] + 1 /\ offset' = offset /\ landed' = landed
        BY <1>1, <2>6, <3>1 DEF HandleError, TypeOK
      <4>. QED  BY <4>1, <4>2, LimitsAssumption DEF Proceeds
    <3>2. CASE ~CanRetry(Site, answer[w], attempt[w], Retries)
      BY <1>1, <2>1, <2>6, <3>2 DEF HandleError, Fail, Return, Writing
    <3>. QED  BY <3>1, <3>2
  <2>7. ASSUME NEW v \in Writers \ {w},
               \/ \E bytes \in Sizes : Write(v, bytes)
               \/ Send(v) \/ Cancelled(v) \/ TransportError(v)
               \/ HandleSuccess(v) \/ HandleMalformed(v) \/ HandleError(v)
        PROVE  UNCHANGED <<pc[w], offset[w], landed[w], attempt[w]>>
    BY <1>1, <2>7
    DEF Write, Send, Cancelled, TransportError, HandleSuccess, HandleMalformed, HandleError,
        Fail, Return, client, TypeOK
  <2>8. ASSUME NEW r \in net, Apply(r) \/ Refuse(r)
        PROVE  UNCHANGED <<pc[w], offset[w], landed[w], attempt[w]>>
    BY <2>8 DEF Apply, Refuse
  <2>9. CASE UNCHANGED vars
    BY <2>9 DEF vars, client
  <2>. QED
    BY <1>1, <2>2, <2>3, <2>4, <2>5, <2>6, <2>7, <2>8, <2>9 DEF Next
<1>2. TypeOK /\ [Next]_vars =>
        [\A w \in Writers : Writing(w) /\ Writing(w)' =>
           Proceeds(w) \/ UNCHANGED <<pc[w], offset[w], landed[w], attempt[w]>>]_vars
  BY <1>1
<1>. QED  BY <1>2, TypeCorrect, PTL DEF Spec, WriteProceeds
=============================================================================
