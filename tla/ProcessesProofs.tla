--------------------------- MODULE ProcessesProofs ---------------------------
(***************************************************************************)
(* Theorems about Processes: for any number of goroutines and handles and  *)
(* any amount of output.                                                   *)
(***************************************************************************)
EXTENDS Processes, SequenceTheorems, TLAPS


(* Two stretches of output make one.                                       *)
LEMMA BytesJoin ==
  ASSUME NEW a \in Nat, NEW b \in Nat, NEW c \in Nat, a <= b, b <= c
  PROVE  Bytes(a, b) \o Bytes(b, c) = Bytes(a, c)
<1> DEFINE ab == Bytes(a, b)
           bc == Bytes(b, c)
           ac == Bytes(a, c)
<1>1. /\ ab \in Seq(Nat) /\ Len(ab) = b - a /\ \A i \in 1 .. b - a : ab[i] = a + i
      /\ bc \in Seq(Nat) /\ Len(bc) = c - b /\ \A i \in 1 .. c - b : bc[i] = b + i
      /\ ac \in Seq(Nat) /\ Len(ac) = c - a /\ \A i \in 1 .. c - a : ac[i] = a + i
  BY DEF Bytes
<1>. HIDE DEF ab, bc, ac
<1>2. /\ ab \o bc \in Seq(Nat)
      /\ Len(ab \o bc) = Len(ab) + Len(bc)
      /\ \A i \in 1 .. Len(ab) + Len(bc) :
           (ab \o bc)[i] = IF i <= Len(ab) THEN ab[i] ELSE bc[i - Len(ab)]
  BY <1>1, ConcatProperties
<1>3. ASSUME NEW i \in 1 .. Len(ab \o bc)
      PROVE  (ab \o bc)[i] = ac[i]
  <2>1. i \in 1 .. c - a /\ i \in 1 .. Len(ab) + Len(bc) /\ ac[i] = a + i
    BY <1>1, <1>2
  <2>2. CASE i <= Len(ab)
    <3>1. i \in 1 .. b - a /\ (ab \o bc)[i] = ab[i]
      BY <1>1, <1>2, <2>1, <2>2
    <3>. QED  BY <1>1, <2>1, <3>1
  <2>3. CASE ~(i <= Len(ab))
    <3>1. i \in Int /\ 1 <= i /\ i <= c - a /\ ~(i <= b - a)
      BY <1>1, <2>1, <2>3
    <3>2. i - (b - a) \in 1 .. c - b
      BY <3>1
    <3>3. (ab \o bc)[i] = bc[i - Len(ab)]
      BY <1>2, <2>1, <2>3, Zenon
    <3>4. i - (b - a) \in 1 .. c - b /\ (ab \o bc)[i] = bc[i - (b - a)]
      BY <1>1, <3>2, <3>3
    <3>5. bc[i - (b - a)] = b + (i - (b - a))
      BY <1>1, <3>4
    <3>. QED  BY <2>1, <3>4, <3>5
  <2>. QED  BY <2>2, <2>3
<1>4. ab \o bc = ac
  <2>1. Len(ab \o bc) = Len(ac)
    BY <1>1, <1>2
  <2>. QED  BY <1>1, <1>2, <1>3, <2>1, SeqEqual, Zenon
<1>. QED  BY <1>4 DEF ab, bc, ac

LEMMA BytesType ==
  ASSUME NEW a \in Nat, NEW b \in Nat
  PROVE  Bytes(a, b) \in Seq(Nat)
BY DEF Bytes

LEMMA BytesNone ==
  ASSUME NEW a \in Nat
  PROVE  Bytes(a, a) = <<>>
BY DEF Bytes

(* HandleOf and MaxOutput, the two streams, the offsets.                   *)
LEMMA Basics ==
  /\ \A w \in Waiters : HandleOf[w] \in Handles
  /\ \A s \in Streams : MaxOutput[s] \in Nat
  /\ "stdout" \in Streams /\ "stderr" \in Streams
  /\ Zero \in Offsets
  /\ NoLogs \in [asked : Offsets, next : Offsets, finished : BOOLEAN]
  /\ Nothing \in [Streams -> Seq(Nat)]
  /\ \A s \in Streams : Zero[s] = 0 /\ Nothing[s] = <<>>
BY ConstantsAssumption DEF Streams, Zero, Offsets, NoLogs, Nothing

LEMMA Moved ==
  ASSUME NEW o \in Offsets, NEW s \in Streams, NEW n \in Nat, n <= MaxOutput[s]
  PROVE  [o EXCEPT ![s] = n] \in Offsets
BY Basics DEF Offsets

(* What TypeOK says of single values.                                      *)
LEMMA Types ==
  ASSUME TypeOK, NEW w \in Waiters, NEW s \in Streams
  PROVE  /\ produced[s] \in Nat /\ produced[s] <= MaxOutput[s]
         /\ HandleOf[w] \in Handles
         /\ offset[HandleOf[w]] \in Offsets
         /\ offset[HandleOf[w]][s] \in Nat
         /\ logs[w].asked \in Offsets /\ logs[w].next \in Offsets
         /\ logs[w].asked[s] \in Nat /\ logs[w].next[s] \in Nat
         /\ logs[w].next[s] <= MaxOutput[s]
         /\ logs[w].finished \in BOOLEAN
         /\ from[w][s] \in Nat
         /\ collected[w] \in [Streams -> Seq(Nat)]
         /\ collected[w][s] \in Seq(Nat)
<1>1. HandleOf[w] \in Handles
  BY Basics
<1>2. /\ produced \in Offsets /\ offset[HandleOf[w]] \in Offsets
      /\ logs[w] \in [asked : Offsets, next : Offsets, finished : BOOLEAN]
      /\ from[w] \in Offsets /\ collected[w] \in [Streams -> Seq(Nat)]
  BY <1>1 DEF TypeOK
<1>3. logs[w].asked \in Offsets /\ logs[w].next \in Offsets /\ logs[w].finished \in BOOLEAN
  BY <1>2
<1>4. \A o \in Offsets : o[s] \in Nat /\ o[s] <= MaxOutput[s]
  BY DEF Offsets
<1>5. collected[w][s] \in Seq(Nat)
  BY <1>2
<1>. QED  BY <1>1, <1>2, <1>3, <1>4, <1>5, Zenon

LEMMA OutputType ==
  ASSUME TypeOK, NEW w \in Waiters, NEW s \in Streams
  PROVE  Output(w, s) \subseteq Nat
<1>1. collected[w][s] \in Seq(Nat) /\ logs[w].asked[s] \in Nat /\ logs[w].next[s] \in Nat
  BY Types
<1>2. \A i \in 1 .. Len(collected[w][s]) : collected[w][s][i] \in Nat
  BY <1>1
<1>3. logs[w].asked[s] + 1 .. logs[w].next[s] \subseteq Nat
  BY <1>1
<1>. QED  BY <1>2, <1>3 DEF Output

(* What Added adds, and to whom.                                           *)
LEMMA AddedFacts ==
  ASSUME TypeOK, NEW w \in Waiters,
         NEW to \in [Handles -> [Streams -> SUBSET Nat]]
  PROVE  /\ Added(to, w) \in [Handles -> [Streams -> SUBSET Nat]]
         /\ \A s \in Streams : Added(to, w)[HandleOf[w]][s] = to[HandleOf[w]][s] \cup Output(w, s)
         /\ \A h \in Handles, s \in Streams : to[h][s] \subseteq Added(to, w)[h][s]
<1>1. HandleOf[w] \in Handles
  BY Basics
<1>. DEFINE more == [s \in Streams |-> to[HandleOf[w]][s] \cup Output(w, s)]
<1>2. more \in [Streams -> SUBSET Nat]
  BY <1>1, OutputType
<1>3. \A s \in Streams : more[s] = to[HandleOf[w]][s] \cup Output(w, s)
  OBVIOUS
<1>4. Added(to, w) = [to EXCEPT ![HandleOf[w]] = more]
  BY DEF Added
<1>. HIDE DEF more
<1>. QED  BY <1>1, <1>2, <1>3, <1>4

THEOREM InitIInv == Init => IInv
<1>. SUFFICES ASSUME Init PROVE IInv
  OBVIOUS
<1>1. TypeOK
  <2>1. info \in Infos
    BY DEF Init, Infos
  <2>2. result \in [Waiters -> [success : BOOLEAN, reason : Reasons]]
    BY DEF Init, NoResult, Reasons
  <2>. QED  BY <2>1, <2>2, Basics DEF Init, TypeOK
<1>2. NotStarted
  BY DEF Init, NotStarted
<1>3. Passed
  BY Basics DEF Init, Passed, Zero
<1>4. ASSUME NEW w \in Waiters PROVE Local(w)
  <2>1. Asked(w) /\ Answered(w) /\ Ended(w) /\ HandedOn(w) /\ Truthful(w)
    BY Basics DEF Init, Asked, Answered, Ended, HandedOn, Truthful, Zero, NoLogs
  <2>2. Collected(w)
    BY Basics, BytesNone DEF Init, Collected, Reached, Zero, Nothing
  <2>. QED  BY <2>1, <2>2 DEF Local
<1>. QED  BY <1>1, <1>2, <1>3, <1>4 DEF IInv

-----------------------------------------------------------------------------
(* Nothing that has been read is forgotten.                                *)

Grown == \A h \in Handles, s \in Streams : Seen(h, s) \subseteq Seen(h, s)'

(* What w holds no longer has been handed on.                              *)
Handing(w) ==
  /\ \A h \in Handles, s \in Streams :
       given[h][s] \subseteq given'[h][s] /\ dropped[h][s] \subseteq dropped'[h][s]
  /\ \A s \in Streams :
       Output(w, s) \subseteq
         Output(w, s)' \cup given'[HandleOf[w]][s] \cup dropped'[HandleOf[w]][s]

LEMMA SeenGrows ==
  ASSUME NEW w \in Waiters, Handing(w),
         \A v \in Waiters \ {w} :
           pc'[v] = pc[v] /\ logs'[v] = logs[v] /\ collected'[v] = collected[v]
  PROVE  Grown
<1>. SUFFICES ASSUME NEW h \in Handles, NEW s \in Streams, NEW k \in Seen(h, s)
              PROVE  k \in Seen(h, s)'
  BY DEF Grown
<1>1. CASE k \in given[h][s] \cup dropped[h][s]
  BY <1>1 DEF Handing, Seen
<1>2. ASSUME NEW v \in Waiters, HandleOf[v] = h, k \in Output(v, s)
      PROVE  k \in Seen(h, s)'
  <2>1. CASE v = w
    BY <1>2, <2>1 DEF Handing, Seen
  <2>2. CASE v # w
    <3>1. Output(v, s)' = Output(v, s)
      BY <2>2 DEF Output
    <3>. QED  BY <1>2, <3>1 DEF Seen
  <2>. QED  BY <2>1, <2>2
<1>. QED  BY <1>1, <1>2 DEF Seen

(* A goroutine that adds to its output, or leaves it, hands nothing on.    *)
LEMMA KeepsOutput ==
  ASSUME NEW w \in Waiters, UNCHANGED handed,
         collected'[w] = collected[w], pc[w] # "half"
  PROVE  Handing(w)
BY DEF Handing, handed, Output

(* A step that leaves a goroutine where it is leaves its invariant alone.  *)
LEMMA Unmoved ==
  ASSUME TypeOK, NEW v \in Waiters, Local(v),
         pc'[v] = pc[v], logs'[v] = logs[v], from'[v] = from[v],
         collected'[v] = collected[v], result'[v] = result[v],
         UNCHANGED service, Grown,
         \A h \in Handles, s \in Streams : given[h][s] \subseteq given'[h][s],
         Alone(v) => offset'[HandleOf[v]] = offset[HandleOf[v]]
  PROVE  Local(v)'
<1>. HandleOf[v] \in Handles
  BY Basics
<1>1. Asked(v)'
  BY DEF Local, Asked, service, Grown
<1>2. Answered(v)'
  BY DEF Local, Answered, Finished, service
<1>3. Ended(v)'
  BY DEF Local, Ended, Finished, service, Grown
<1>4. Collected(v)'
  BY DEF Local, Collected, Reached, Alone, service
<1>5. HandedOn(v)'
  BY DEF Local, HandedOn, Output
<1>6. Truthful(v)'
  BY DEF Local, Truthful, service, ExitCode, Reason
<1>. QED  BY <1>1, <1>2, <1>3, <1>4, <1>5, <1>6 DEF Local

(* A step of goroutine w, seen from the others.                            *)
OthersRest(w) ==
  /\ UNCHANGED service
  /\ \A v \in Waiters \ {w} :
       /\ pc'[v] = pc[v] /\ logs'[v] = logs[v] /\ from'[v] = from[v]
       /\ collected'[v] = collected[v] /\ result'[v] = result[v]
  /\ \A h \in Handles \ {HandleOf[w]} : offset'[h] = offset[h]

LEMMA StepOf ==
  ASSUME IInv, NEW w \in Waiters, OthersRest(w), Handing(w),
         TypeOK', NotStarted', Passed', Local(w)'
  PROVE  IInv'
<1>1. Grown
  BY SeenGrows DEF OthersRest
<1>2. ASSUME NEW v \in Waiters \ {w} PROVE Local(v)'
  <2>1. Alone(v) => HandleOf[w] # HandleOf[v]
    BY DEF Alone
  <2>2. \A h \in Handles, s \in Streams : given[h][s] \subseteq given'[h][s]
    BY DEF Handing
  <2>. QED  BY <1>1, <2>1, <2>2, Unmoved, Basics DEF IInv, OthersRest
<1>. QED  BY <1>2 DEF IInv

(* A step that moves no offset.                                            *)
LEMMA QuietStep ==
  ASSUME IInv, NEW w \in Waiters, UNCHANGED <<service, offset>>,
         NEW label, Goto(w, label),
         process = "none" => label \in {"idle", "start", "failed"},
         label = "start" => process = "none" /\ \A v \in Waiters : pc[v] # "start",
         \A v \in Waiters \ {w} :
           /\ logs'[v] = logs[v] /\ from'[v] = from[v]
           /\ collected'[v] = collected[v] /\ result'[v] = result[v],
         Handing(w), TypeOK', Local(w)'
  PROVE  IInv'
<1>1. pc'[w] = label /\ \A v \in Waiters \ {w} : pc'[v] = pc[v]
  BY DEF IInv, TypeOK, Goto
<1>2. NotStarted'
  BY <1>1 DEF IInv, NotStarted, service
<1>3. OthersRest(w)
  BY <1>1 DEF OthersRest, service
<1>4. Passed'
  <2>1. Grown
    BY <1>3, SeenGrows DEF OthersRest
  <2>. QED  BY <2>1 DEF IInv, Passed, service, Grown
<1>. QED  BY <1>2, <1>3, <1>4, StepOf

LEMMA RunKeeps ==
  ASSUME IInv, NEW w \in Waiters, Run(w)
  PROVE  IInv'
<1>1. TypeOK'
  BY DEF IInv, TypeOK, Run, Goto, service, handed
<1>2. pc[w] \in {"idle", "failed"} /\ pc'[w] = "start" /\ process = "none"
  BY DEF IInv, TypeOK, Run, Goto
<1>3. Handing(w)
  BY <1>2, KeepsOutput DEF Run
<1>4. Grown
  BY <1>3, SeenGrows DEF IInv, TypeOK, Run, Goto
<1>5. UNCHANGED <<service, offset, logs, from, collected, handed, result>>
  BY DEF Run
<1>6. Local(w)'
  <2>1. Asked(w)'
    BY <1>4, <1>5, Basics DEF IInv, Local, service, Asked, Grown
  <2>2. Answered(w)' /\ Ended(w)' /\ Truthful(w)'
    BY <1>2 DEF Answered, Ended, Truthful
  <2>3. Collected(w)'
    BY <1>2, <1>5 DEF IInv, Local, service, Collected, Reached, Alone
  <2>4. HandedOn(w)'
    BY <1>2, <1>5 DEF IInv, Local, HandedOn
  <2>. QED  BY <2>1, <2>2, <2>3, <2>4 DEF Local
<1>. QED  BY <1>1, <1>3, <1>6, QuietStep DEF Run

(* What the last Wait put together has been handed on by then.             *)
LEMMA WaitKeeps ==
  ASSUME IInv, NEW w \in Waiters, Wait(w)
  PROVE  IInv'
<1>1. TypeOK'
  <2>1. NoResult \in [success : BOOLEAN, reason : Reasons]
    BY DEF NoResult, Reasons
  <2>2. (IF Alone(w) THEN offset[HandleOf[w]] ELSE Zero) \in Offsets
    BY Basics DEF IInv, TypeOK
  <2>. QED  BY <2>1, <2>2, Basics DEF IInv, TypeOK, Wait, Goto, service, handed
<1>2. /\ pc[w] \in {"idle", "failed", "done"} /\ pc'[w] = "ask" /\ process # "none"
      /\ collected'[w] = Nothing
      /\ UNCHANGED <<service, offset, logs, handed>>
  BY DEF IInv, TypeOK, Wait, Goto
<1>3. \A v \in Waiters \ {w} :
        /\ pc'[v] = pc[v] /\ from'[v] = from[v]
        /\ collected'[v] = collected[v] /\ result'[v] = result[v]
  BY DEF IInv, TypeOK, Wait, Goto
<1>4. Handing(w)
  <2>. SUFFICES ASSUME NEW s \in Streams
                PROVE  Output(w, s) \subseteq given[HandleOf[w]][s]
    BY <1>2 DEF Handing, handed
  <2>1. CASE pc[w] = "done"
    BY <2>1 DEF IInv, Local, HandedOn
  <2>2. CASE pc[w] \in {"idle", "failed"}
    <3>1. collected[w][s] = <<>>
      BY <2>2, Basics DEF IInv, Local, HandedOn
    <3>. QED  BY <2>2, <3>1 DEF Output
  <2>. QED  BY <1>2, <2>1, <2>2
<1>5. Grown
  BY <1>2, <1>3, <1>4, SeenGrows
<1>6. Local(w)'
  <2>1. Asked(w)'
    BY <1>2, <1>5, Basics DEF IInv, Local, service, Asked, Grown
  <2>2. Answered(w)' /\ Ended(w)' /\ HandedOn(w)' /\ Truthful(w)'
    BY <1>2 DEF Answered, Ended, HandedOn, Truthful
  <2>3. Collected(w)'
    <3>1. Alone(w) => from'[w] = offset[HandleOf[w]]
      BY DEF IInv, TypeOK, Wait
    <3>. QED  BY <1>2, <3>1, Types, BytesNone, Basics DEF IInv, Collected, Reached, Alone
  <2>. QED  BY <2>1, <2>2, <2>3 DEF Local
<1>. QED  BY <1>1, <1>2, <1>3, <1>4, <1>6, QuietStep DEF Wait

(* One of the two offsets is read, which the handle has at this moment.    *)
LEMMA AskKeeps ==
  ASSUME IInv, NEW w \in Waiters, AskStdout(w) \/ AskStderr(w)
  PROVE  IInv'
<1>. DEFINE label == IF pc[w] = "ask" THEN "asking" ELSE "asked"
            read  == IF pc[w] = "ask" THEN "stdout" ELSE "stderr"
            was   == logs[w].asked
            new   == offset[HandleOf[w]][read]
            asked == [was EXCEPT ![read] = new]
<1>1. /\ pc[w] \in {"ask", "asking"} /\ Goto(w, label)
      /\ read \in Streams
      /\ UNCHANGED <<service, offset, from, collected, handed, result>>
  BY DEF AskStdout, AskStderr, Streams
<1>2. logs' = [logs EXCEPT ![w].asked[read] = new]
  BY DEF AskStdout, AskStderr
<1>3. /\ was \in Offsets /\ new \in Nat /\ new <= produced[read]
      /\ produced[read] \in Nat /\ produced[read] <= MaxOutput[read]
      /\ HandleOf[w] \in Handles
  BY <1>1, Types DEF IInv, Passed
<1>4. asked \in Offsets
  <2>1. new <= MaxOutput[read]
    BY <1>1, <1>3, Basics
  <2>. HIDE DEF new, read, was
  <2>. QED  BY <1>1, <1>3, <2>1, Moved
<1>5. \A s \in Streams : asked[s] = IF s = read THEN new ELSE was[s]
  BY <1>1, <1>3 DEF Offsets
<1>6. /\ logs' = [logs EXCEPT ![w] = [logs[w] EXCEPT !.asked = asked]]
      /\ logs'[w].asked = asked
      /\ \A v \in Waiters \ {w} : logs'[v] = logs[v]
  BY <1>2 DEF IInv, TypeOK
<1>7. pc'[w] = label /\ label \in {"asking", "asked"}
      /\ \A v \in Waiters \ {w} : pc'[v] = pc[v]
  BY <1>1 DEF IInv, TypeOK, Goto
<1>8. TypeOK'
  <2>1. logs' \in [Waiters -> [asked : Offsets, next : Offsets, finished : BOOLEAN]]
    <3>1. logs[w] \in [asked : Offsets, next : Offsets, finished : BOOLEAN]
      BY DEF IInv, TypeOK
    <3>. HIDE DEF asked
    <3>2. [logs[w] EXCEPT !.asked = asked] \in [asked : Offsets, next : Offsets, finished : BOOLEAN]
      BY <1>4, <3>1
    <3>. QED  BY <1>6, <3>2 DEF IInv, TypeOK
  <2>. QED  BY <1>1, <2>1 DEF IInv, TypeOK, Goto, service, handed
<1>9. Handing(w)
  BY <1>1, KeepsOutput
<1>10. Grown
  BY <1>1, <1>6, <1>7, <1>9, SeenGrows
<1>11. Local(w)'
  <2>1. Asked(w)'
    <3>. SUFFICES ASSUME NEW s \in Streams
                  PROVE  asked[s] <= produced[s] /\ 1 .. asked[s] \subseteq Seen(HandleOf[w], s)'
      BY <1>1, <1>6 DEF Asked, service
    <3>1. Seen(HandleOf[w], s) \subseteq Seen(HandleOf[w], s)'
      BY <1>3, <1>10 DEF Grown
    <3>2. CASE s = read
      BY <1>3, <1>5, <3>1, <3>2 DEF IInv, Passed
    <3>3. CASE s # read
      BY <1>5, <3>1, <3>3 DEF IInv, Local, Asked
    <3>. QED  BY <3>2, <3>3
  <2>2. Answered(w)' /\ Ended(w)' /\ HandedOn(w)' /\ Truthful(w)'
    BY <1>7 DEF Answered, Ended, HandedOn, Truthful
  <2>3. Collected(w)'
    <3>. SUFFICES ASSUME Alone(w), NEW s \in Streams
                  PROVE  /\ label = "asked" \/ s = "stdout" =>
                              asked[s] = offset[HandleOf[w]][s]
                         /\ from[w][s] <= offset[HandleOf[w]][s]
                         /\ collected[w][s] = Bytes(from[w][s], offset[HandleOf[w]][s])
      BY <1>1, <1>6, <1>7 DEF Collected, Reached, Alone
    <3>1. /\ from[w][s] <= offset[HandleOf[w]][s]
          /\ collected[w][s] = Bytes(from[w][s], offset[HandleOf[w]][s])
      BY <1>1 DEF IInv, Local, Collected, Reached
    <3>2. pc[w] = "asking" /\ s = "stdout" => was[s] = offset[HandleOf[w]][s]
      BY DEF IInv, Local, Collected
    <3>. QED  BY <1>1, <1>5, <3>1, <3>2 DEF Streams
  <2>. QED  BY <2>1, <2>2, <2>3 DEF Local
<1>12. process # "none"
  BY <1>1 DEF IInv, NotStarted
<1>. HIDE DEF label
<1>. QED  BY <1>1, <1>6, <1>7, <1>8, <1>9, <1>11, <1>12, QuietStep

(* A Wait that fails loses what it had put together.                       *)
LEMMA FailKeeps ==
  ASSUME IInv, NEW w \in Waiters, Fail(w), UNCHANGED offset,
         pc[w] \in {"asked", "sleep", "info"}
  PROVE  IInv'
<1>1. /\ dropped' = Added(dropped, w) /\ dropped \in [Handles -> [Streams -> SUBSET Nat]]
      /\ pc'[w] = "failed" /\ collected'[w] = Nothing /\ logs'[w] = NoLogs
      /\ \A v \in Waiters \ {w} :
           pc'[v] = pc[v] /\ collected'[v] = collected[v] /\ logs'[v] = logs[v]
      /\ UNCHANGED <<service, from, given, result>>
  BY DEF IInv, TypeOK, Fail, Goto
<1>2. /\ Added(dropped, w) \in [Handles -> [Streams -> SUBSET Nat]]
      /\ \A s \in Streams : dropped'[HandleOf[w]][s] = dropped[HandleOf[w]][s] \cup Output(w, s)
      /\ \A h \in Handles, s \in Streams : dropped[h][s] \subseteq dropped'[h][s]
  <2>. DEFINE new == Added(dropped, w)
  <2>1. TypeOK /\ dropped' = new
    BY <1>1 DEF IInv
  <2>2. /\ new \in [Handles -> [Streams -> SUBSET Nat]]
        /\ \A s \in Streams : new[HandleOf[w]][s] = dropped[HandleOf[w]][s] \cup Output(w, s)
        /\ \A h \in Handles, s \in Streams : dropped[h][s] \subseteq new[h][s]
    BY <1>1, <2>1, AddedFacts
  <2>3. new = Added(dropped, w)
    OBVIOUS
  <2>. HIDE DEF new
  <2>. QED  BY <2>1, <2>2, <2>3
<1>3. TypeOK'
  BY <1>1, <1>2, Basics DEF IInv, TypeOK, Fail, Goto, service
<1>4. Handing(w)
  BY <1>1, <1>2 DEF Handing
<1>5. process # "none"
  BY DEF IInv, NotStarted
<1>6. Local(w)'
  <2>1. Asked(w)'
    BY <1>1, Types, Basics DEF IInv, Asked, NoLogs, service
  <2>2. Answered(w)' /\ Ended(w)' /\ HandedOn(w)' /\ Truthful(w)'
    BY <1>1 DEF Answered, Ended, HandedOn, Truthful
  <2>3. Collected(w)'
    BY <1>1, <1>5 DEF Collected, service
  <2>. QED  BY <2>1, <2>2, <2>3 DEF Local
<1>. QED  BY <1>1, <1>3, <1>4, <1>6, QuietStep DEF Fail

LEMMA WakeKeeps ==
  ASSUME IInv, NEW w \in Waiters, Wake(w)
  PROVE  IInv'
<1>1. TypeOK'
  BY DEF IInv, TypeOK, Wake, Goto, service, handed
<1>2. /\ pc[w] = "sleep" /\ pc'[w] = "ask"
      /\ \A v \in Waiters \ {w} : pc'[v] = pc[v]
      /\ UNCHANGED <<service, offset, logs, from, collected, handed, result>>
  BY DEF IInv, TypeOK, Wake, Goto
<1>3. Handing(w)
  BY <1>2, KeepsOutput
<1>4. Grown
  BY <1>2, <1>3, SeenGrows
<1>5. Local(w)'
  <2>1. Asked(w)'
    BY <1>2, <1>4, Basics DEF IInv, Local, service, Asked, Grown
  <2>2. Answered(w)' /\ Ended(w)' /\ HandedOn(w)' /\ Truthful(w)'
    BY <1>2 DEF Answered, Ended, HandedOn, Truthful
  <2>3. Collected(w)'
    BY <1>2 DEF IInv, Local, service, Collected, Reached, Alone
  <2>. QED  BY <2>1, <2>2, <2>3 DEF Local
<1>6. process # "none"
  BY <1>2 DEF IInv, NotStarted
<1>. QED  BY <1>1, <1>2, <1>3, <1>5, <1>6, QuietStep DEF Wake

LEMMA InfoSucceedsKeeps ==
  ASSUME IInv, NEW w \in Waiters, InfoSucceeds(w)
  PROVE  IInv'
<1>. DEFINE told == [success |-> ExitCode = "zero", reason |-> Reason]
<1>1. /\ given' = Added(given, w) /\ given \in [Handles -> [Streams -> SUBSET Nat]]
      /\ pc[w] = "info" /\ pc'[w] = "done"
      /\ \A v \in Waiters \ {w} : pc'[v] = pc[v]
      /\ UNCHANGED <<service, offset, logs, from, collected, dropped>>
  BY DEF IInv, TypeOK, InfoSucceeds, Goto
<1>2. result' = [result EXCEPT ![w] = told]
  BY DEF InfoSucceeds
<1>3. /\ Added(given, w) \in [Handles -> [Streams -> SUBSET Nat]]
      /\ \A s \in Streams : given'[HandleOf[w]][s] = given[HandleOf[w]][s] \cup Output(w, s)
      /\ \A h \in Handles, s \in Streams : given[h][s] \subseteq given'[h][s]
  BY <1>1, AddedFacts DEF IInv
<1>4. told \in [success : BOOLEAN, reason : Reasons]
  BY DEF Reason, Reasons
<1>. HIDE DEF told
<1>5. result'[w] = told /\ \A v \in Waiters \ {w} : result'[v] = result[v]
  BY <1>2 DEF IInv, TypeOK
<1>6. TypeOK'
  BY <1>1, <1>2, <1>3, <1>4 DEF IInv, TypeOK, InfoSucceeds, Goto, service
<1>7. Handing(w)
  BY <1>1, <1>3 DEF Handing
<1>8. Grown
  BY <1>1, <1>7, SeenGrows
<1>9. \A s \in Streams : Output(w, s)' = Output(w, s)
  BY <1>1 DEF Output
<1>10. Local(w)'
  <2>1. Asked(w)'
    BY <1>1, <1>8, Basics DEF IInv, Local, service, Asked, Grown
  <2>2. Answered(w)'
    BY <1>1 DEF Answered
  <2>3. Ended(w)'
    BY <1>1, <1>8, Basics DEF IInv, Local, service, Ended, Finished, Grown
  <2>4. Collected(w)'
    BY <1>1 DEF IInv, Local, service, Collected, Reached, Alone
  <2>5. HandedOn(w)'
    BY <1>1, <1>3, <1>9 DEF HandedOn
  <2>6. Truthful(w)'
    <3>1. told' = told
      BY <1>1 DEF told, ExitCode, Reason, service
    <3>2. Truthful(w)' <=> (pc'[w] = "done" => result'[w] = told')
      BY DEF Truthful, told
    <3>. QED  BY <1>5, <3>1, <3>2
  <2>. QED  BY <2>1, <2>2, <2>3, <2>4, <2>5, <2>6 DEF Local
<1>11. process # "none"
  BY <1>1 DEF IInv, NotStarted
<1>. QED  BY <1>1, <1>5, <1>6, <1>7, <1>10, <1>11, QuietStep DEF InfoSucceeds

LEMMA AnswerKeeps ==
  ASSUME IInv, NEW w \in Waiters, NEW next \in Offsets, Answer(w, next)
  PROVE  IInv'
<1>. DEFINE answered == [asked |-> logs[w].asked, next |-> next, finished |-> Finished]
<1>1. logs[w] \in [asked : Offsets, next : Offsets, finished : BOOLEAN]
  BY DEF IInv, TypeOK
<1>2. /\ logs' = [logs EXCEPT ![w] = answered] /\ logs'[w] = answered
      /\ \A v \in Waiters \ {w} : logs'[v] = logs[v]
  BY <1>1 DEF IInv, TypeOK, Answer
<1>3. /\ pc[w] = "asked" /\ pc'[w] = "answered"
      /\ \A v \in Waiters \ {w} : pc'[v] = pc[v]
      /\ UNCHANGED <<service, offset, from, collected, handed, result>>
  BY DEF IInv, TypeOK, Answer, Goto
<1>4. TypeOK'
  <2>1. answered \in [asked : Offsets, next : Offsets, finished : BOOLEAN]
    BY <1>1 DEF Finished
  <2>. HIDE DEF answered
  <2>. QED  BY <1>2, <2>1, Basics DEF IInv, TypeOK, Answer, Goto, service, handed
<1>5. Handing(w)
  BY <1>3, KeepsOutput
<1>6. Grown
  BY <1>2, <1>3, <1>5, SeenGrows
<1>7. Local(w)'
  <2>1. Asked(w)'
    <3>1. logs'[w].asked = logs[w].asked
      BY <1>2
    <3>. QED  BY <1>3, <1>6, <3>1, Basics DEF IInv, Local, Asked, Grown, service
  <2>2. Answered(w)'
    <3>1. \A s \in Streams : next[s] \in logs[w].asked[s] .. produced[s]
      BY DEF Answer
    <3>2. \A s \in Streams : logs[w].asked[s] <= next[s] /\ next[s] <= produced[s]
      BY <3>1, Types DEF IInv
    <3>3. Finished => next = produced
      BY DEF Answer
    <3>4. UNCHANGED process /\ UNCHANGED produced
      BY <1>3 DEF service
    <3>5. /\ logs'[w].asked = logs[w].asked
          /\ logs'[w].next = next /\ logs'[w].finished = Finished
      BY <1>2
    <3>. QED  BY <1>3, <3>2, <3>3, <3>4, <3>5 DEF Answered, Finished
  <2>3. Ended(w)' /\ HandedOn(w)' /\ Truthful(w)'
    BY <1>3 DEF Ended, HandedOn, Truthful
  <2>4. Collected(w)'
    BY <1>2, <1>3 DEF IInv, Local, service, Collected, Reached, Alone
  <2>. QED  BY <2>1, <2>2, <2>3, <2>4 DEF Local
<1>8. process # "none"
  BY <1>3 DEF IInv, NotStarted
<1>. QED  BY <1>2, <1>3, <1>4, <1>5, <1>7, <1>8, QuietStep DEF Answer

(* The output about to be appended begins where what w has ends.           *)
LEMMA StoreStdoutKeeps ==
  ASSUME IInv, NEW w \in Waiters, StoreStdout(w)
  PROVE  IInv'
<1>. DEFINE h == HandleOf[w]
            next == logs[w].next
            asked == logs[w].asked
<1>1. pc[w] = "answered" /\ pc'[w] = "half" /\ logs'[w] = logs[w]
  BY DEF IInv, TypeOK, StoreStdout, Goto
<1>2. h \in Handles /\ "stdout" \in Streams
  BY Basics
<1>3. /\ offset'[h] = [offset[h] EXCEPT !["stdout"] = next["stdout"]]
      /\ \A g \in Handles \ {h} : offset'[g] = offset[g]
  BY <1>2 DEF IInv, TypeOK, StoreStdout
<1>4. \A s \in Streams :
        offset'[h][s] = IF s = "stdout" THEN next[s] ELSE offset[h][s]
  BY <1>2, <1>3, Types DEF IInv, Offsets
<1>5. \A s \in Streams :
        /\ asked[s] \in Nat /\ next[s] \in Nat /\ produced[s] \in Nat
        /\ asked[s] <= next[s] /\ next[s] <= produced[s]
        /\ 1 .. asked[s] \subseteq Seen(h, s)
  BY <1>1, Types DEF IInv, Local, Asked, Answered
<1>6. /\ UNCHANGED <<process, info, produced, logs, from, collected, handed, result>>
      /\ \A v \in Waiters \ {w} : pc'[v] = pc[v]
  BY DEF IInv, TypeOK, StoreStdout, Goto, service
<1>7. Handing(w)
  BY <1>1, <1>6, KeepsOutput
<1>8. Grown
  BY <1>6, <1>7, SeenGrows
<1>9. \A s \in Streams : 1 .. next[s] \subseteq Seen(h, s)'
  <2>. SUFFICES ASSUME NEW s \in Streams, NEW k \in 1 .. next[s]
                PROVE  k \in Seen(h, s)'
    OBVIOUS
  <2>1. CASE k \in 1 .. asked[s]
    BY <1>2, <1>5, <1>8, <2>1 DEF Grown
  <2>2. CASE k \in asked[s] + 1 .. next[s]
    <3>1. k \in Output(w, s)'
      BY <1>1, <2>2 DEF Output
    <3>. QED  BY <3>1 DEF Seen
  <2>. QED  BY <1>5, <2>1, <2>2
<1>10. TypeOK'
  <2>1. offset' \in [Handles -> Offsets]
    <3>1. offset'[h] \in Offsets
      BY <1>2, <1>3, <1>5, Types, Moved DEF IInv
    <3>. QED  BY <1>2, <3>1 DEF IInv, TypeOK, StoreStdout
  <2>. QED  BY <1>6, <2>1 DEF IInv, TypeOK, StoreStdout, Goto, handed
<1>11. NotStarted'
  BY <1>1, <1>6 DEF IInv, TypeOK, NotStarted, StoreStdout, Goto
<1>12. Passed'
  <2>. SUFFICES ASSUME NEW g \in Handles, NEW s \in Streams
                PROVE  /\ offset'[g][s] <= produced[s]
                       /\ 1 .. offset'[g][s] \subseteq Seen(g, s)'
    BY <1>6 DEF Passed
  <2>1. /\ offset[g][s] <= produced[s] /\ 1 .. offset[g][s] \subseteq Seen(g, s)
        /\ Seen(g, s) \subseteq Seen(g, s)'
    BY <1>8 DEF IInv, Passed, Grown
  <2>2. CASE g # h
    BY <2>1, <2>2, <1>3
  <2>3. CASE g = h
    BY <2>1, <2>3, <1>4, <1>5, <1>9
  <2>. QED  BY <2>2, <2>3
<1>13. OthersRest(w)
  BY <1>3, <1>6 DEF OthersRest, service
<1>14. Local(w)'
  <2>1. Asked(w)'
    BY <1>1, <1>2, <1>6, <1>8 DEF IInv, Local, Asked, Grown
  <2>2. Answered(w)'
    BY <1>1, <1>6 DEF IInv, Local, Answered, Finished
  <2>3. Ended(w)' /\ HandedOn(w)' /\ Truthful(w)'
    BY <1>1 DEF Ended, HandedOn, Truthful
  <2>4. Collected(w)'
    BY <1>1, <1>4, <1>6 DEF IInv, Local, Collected, Reached, Alone
  <2>. QED  BY <2>1, <2>2, <2>3, <2>4 DEF Local
<1>. QED  BY <1>7, <1>10, <1>11, <1>12, <1>13, <1>14, StepOf

(* What is appended is there, and what was there is.                       *)
LEMMA AppendedHas ==
  ASSUME NEW q \in Seq(Nat), NEW a \in Nat, NEW b \in Nat
  PROVE  /\ {q[i] : i \in 1 .. Len(q)} \cup a + 1 .. b \subseteq
              {(q \o Bytes(a, b))[i] : i \in 1 .. Len(q \o Bytes(a, b))}
         /\ q \o Bytes(a, b) \in Seq(Nat)
<1>. DEFINE more == Bytes(a, b)
            all == q \o more
<1>1. more \in Seq(Nat) /\ \A k \in a + 1 .. b : k - a \in 1 .. Len(more) /\ more[k - a] = k
  BY DEF Bytes
<1>. HIDE DEF more
<1>2. /\ all \in Seq(Nat) /\ Len(all) = Len(q) + Len(more)
      /\ \A i \in 1 .. Len(q) + Len(more) :
           all[i] = IF i <= Len(q) THEN q[i] ELSE more[i - Len(q)]
  BY <1>1, ConcatProperties
<1>3. Len(q) \in Nat /\ Len(more) \in Nat
  BY <1>1
<1>. HIDE DEF all
<1>4. ASSUME NEW i \in 1 .. Len(q)
      PROVE  i \in 1 .. Len(all) /\ all[i] = q[i]
  BY <1>2, <1>3
<1>5. ASSUME NEW k \in a + 1 .. b
      PROVE  \E i \in 1 .. Len(all) : all[i] = k
  <2>. DEFINE i == Len(q) + (k - a)
  <2>1. k - a \in 1 .. Len(more) /\ more[k - a] = k
    BY <1>1
  <2>2. i \in 1 .. Len(q) + Len(more) /\ ~(i <= Len(q)) /\ i - Len(q) = k - a
    BY <1>3, <2>1
  <2>3. all[i] = more[i - Len(q)]
    BY <1>2, <2>2
  <2>4. i \in 1 .. Len(all) /\ all[i] = k
    BY <1>2, <2>1, <2>2, <2>3
  <2>. QED  BY <2>4
<1>6. {q[i] : i \in 1 .. Len(q)} \cup a + 1 .. b \subseteq {all[i] : i \in 1 .. Len(all)}
  BY <1>4, <1>5
<1>. QED  BY <1>2, <1>6 DEF all, more

LEMMA StoreStderrKeeps ==
  ASSUME IInv, NEW w \in Waiters, StoreStderr(w)
  PROVE  IInv'
<1>. DEFINE h == HandleOf[w]
            next == logs[w].next
            asked == logs[w].asked
            label == IF logs[w].finished THEN "info" ELSE "sleep"
<1>1. pc[w] = "half" /\ pc'[w] = label /\ logs'[w] = NoLogs
  BY DEF IInv, TypeOK, StoreStderr, Goto
<1>2. h \in Handles /\ "stderr" \in Streams
  BY Basics
<1>3. /\ offset'[h] = [offset[h] EXCEPT !["stderr"] = next["stderr"]]
      /\ \A g \in Handles \ {h} : offset'[g] = offset[g]
  BY <1>2 DEF IInv, TypeOK, StoreStderr
<1>4. \A s \in Streams :
        offset'[h][s] = IF s = "stderr" THEN next[s] ELSE offset[h][s]
  BY <1>2, <1>3, Types DEF IInv, Offsets
<1>5. \A s \in Streams :
        collected'[w][s] = collected[w][s] \o Bytes(asked[s], next[s])
  BY DEF IInv, TypeOK, StoreStderr
<1>6. \A s \in Streams :
        /\ asked[s] \in Nat /\ next[s] \in Nat /\ produced[s] \in Nat
        /\ asked[s] <= next[s] /\ next[s] <= produced[s]
        /\ 1 .. asked[s] \subseteq Seen(h, s)
        /\ logs[w].finished => Finished /\ next[s] = produced[s]
  BY <1>1, Types DEF IInv, Local, Asked, Answered
<1>7. /\ UNCHANGED <<process, info, produced, from, handed, result>>
      /\ \A v \in Waiters \ {w} :
           pc'[v] = pc[v] /\ logs'[v] = logs[v] /\ collected'[v] = collected[v]
  BY DEF IInv, TypeOK, StoreStderr, Goto, service
<1>8. TypeOK'
  <2>1. offset' \in [Handles -> Offsets]
    <3>1. offset'[h] \in Offsets
      BY <1>2, <1>3, <1>6, Types, Moved DEF IInv
    <3>. QED  BY <1>2, <3>1 DEF IInv, TypeOK, StoreStderr
  <2>2. collected' \in [Waiters -> [Streams -> Seq(Nat)]]
    <3>1. \A s \in Streams : collected[w][s] \o Bytes(asked[s], next[s]) \in Seq(Nat)
      BY <1>6, AppendedHas, Types DEF IInv
    <3>2. [s \in Streams |-> collected[w][s] \o Bytes(asked[s], next[s])] \in [Streams -> Seq(Nat)]
      BY <3>1
    <3>. QED  BY <3>2 DEF IInv, TypeOK, StoreStderr
  <2>. QED  BY <1>7, <2>1, <2>2, Basics DEF IInv, TypeOK, StoreStderr, Goto, handed
<1>9. process # "none"
  BY <1>1 DEF IInv, NotStarted
<1>10. Handing(w)
  <2>1. ASSUME NEW s \in Streams
        PROVE  Output(w, s) \subseteq Output(w, s)'
    <3>1. collected[w][s] \in Seq(Nat)
      BY Types DEF IInv
    <3>2. Output(w, s) = {collected[w][s][i] : i \in 1 .. Len(collected[w][s])}
                         \cup asked[s] + 1 .. next[s]
      BY <1>1 DEF Output
    <3>3. {collected'[w][s][i] : i \in 1 .. Len(collected'[w][s])} \subseteq Output(w, s)'
      BY DEF Output
    <3>4. Output(w, s) \subseteq {collected'[w][s][i] : i \in 1 .. Len(collected'[w][s])}
      <4>. DEFINE q == collected[w][s]
                  all == q \o Bytes(asked[s], next[s])
      <4>1. q \in Seq(Nat) /\ asked[s] \in Nat /\ next[s] \in Nat
        BY <1>6, <3>1
      <4>. HIDE DEF q, asked, next
      <4>2. {q[i] : i \in 1 .. Len(q)} \cup asked[s] + 1 .. next[s]
              \subseteq {all[i] : i \in 1 .. Len(all)}
        BY <4>1, AppendedHas
      <4>3. collected'[w][s] = all
        BY <1>5 DEF q
      <4>4. Output(w, s) = {q[i] : i \in 1 .. Len(q)} \cup asked[s] + 1 .. next[s]
        BY <3>2 DEF q
      <4>. HIDE DEF all
      <4>. QED  BY <4>2, <4>3, <4>4
    <3>. QED  BY <3>3, <3>4
  <2>. QED  BY <1>7, <2>1 DEF Handing, handed
<1>11. Grown
  BY <1>7, <1>10, SeenGrows
<1>12. \A s \in Streams : 1 .. next[s] \subseteq Seen(h, s)'
  <2>. SUFFICES ASSUME NEW s \in Streams, NEW k \in 1 .. next[s]
                PROVE  k \in Seen(h, s)
    BY <1>2, <1>11 DEF Grown
  <2>1. CASE k \in 1 .. asked[s]
    BY <1>6, <2>1
  <2>2. CASE k \in asked[s] + 1 .. next[s]
    <3>1. k \in Output(w, s)
      BY <1>1, <2>2 DEF Output
    <3>. QED  BY <3>1 DEF Seen
  <2>. QED  BY <1>6, <2>1, <2>2
<1>13. NotStarted'
  BY <1>1, <1>7, <1>9 DEF IInv, NotStarted
<1>14. Passed'
  <2>. SUFFICES ASSUME NEW g \in Handles, NEW s \in Streams
                PROVE  /\ offset'[g][s] <= produced[s]
                       /\ 1 .. offset'[g][s] \subseteq Seen(g, s)'
    BY <1>7 DEF Passed
  <2>1. /\ offset[g][s] <= produced[s] /\ 1 .. offset[g][s] \subseteq Seen(g, s)
        /\ Seen(g, s) \subseteq Seen(g, s)'
    BY <1>11 DEF IInv, Passed, Grown
  <2>2. CASE g # h
    BY <2>1, <2>2, <1>3
  <2>3. CASE g = h
    BY <2>1, <2>3, <1>4, <1>6, <1>12
  <2>. QED  BY <2>2, <2>3
<1>15. OthersRest(w)
  <2>1. \A v \in Waiters \ {w} : from'[v] = from[v] /\ result'[v] = result[v]
    BY <1>7
  <2>. QED  BY <1>3, <1>7, <2>1 DEF OthersRest, service
<1>16. Local(w)'
  <2>1. Asked(w)' /\ Answered(w)' /\ HandedOn(w)' /\ Truthful(w)'
    BY <1>1, <1>6, <1>7, Basics DEF Asked, Answered, HandedOn, Truthful, NoLogs
  <2>2. Ended(w)'
    <3>1. CASE ~logs[w].finished
      BY <1>1, <3>1 DEF Ended
    <3>2. CASE logs[w].finished
      <4>1. Finished' /\ produced' = produced /\ HandleOf[w] = h
        BY <1>6, <1>7, <3>2, Basics DEF Finished
      <4>2. \A s \in Streams : next[s] = produced[s] /\ 1 .. next[s] \subseteq Seen(h, s)'
        BY <1>6, <1>12, <3>2
      <4>3. \A s \in Streams : 1 .. produced[s] \subseteq Seen(h, s)'
        BY <4>2
      <4>. HIDE DEF h, next
      <4>. QED  BY <4>1, <4>3 DEF Ended
    <3>. QED  BY <3>1, <3>2
  <2>3. Collected(w)'
    <3>. SUFFICES ASSUME Alone(w), NEW s \in Streams
                  PROVE  /\ from[w][s] <= offset'[h][s]
                         /\ collected'[w][s] = Bytes(from[w][s], offset'[h][s])
                         /\ pc'[w] = "info" => offset'[h][s] = produced[s]
      BY <1>1, <1>7 DEF Collected, Reached, Alone
    <3>1. /\ offset[h][s] = IF s = "stdout" THEN next[s] ELSE asked[s]
          /\ from[w][s] <= asked[s]
          /\ collected[w][s] = Bytes(from[w][s], asked[s])
      BY <1>1 DEF IInv, Local, Collected, Reached
    <3>2. offset'[h][s] = next[s]
      BY <1>4, <3>1 DEF Streams
    <3>3. from[w][s] \in Nat
      BY Types DEF IInv
    <3>4. collected'[w][s] = Bytes(from[w][s], next[s])
      <4>1. asked[s] \in Nat /\ next[s] \in Nat /\ asked[s] <= next[s]
        BY <1>6
      <4>2. Bytes(from[w][s], asked[s]) \o Bytes(asked[s], next[s]) = Bytes(from[w][s], next[s])
        BY <3>1, <3>3, <4>1, BytesJoin
      <4>. QED  BY <1>5, <3>1, <4>2
    <3>5. from[w][s] <= next[s]
      BY <1>6, <3>1, <3>3
    <3>6. pc'[w] = "info" => next[s] = produced[s]
      BY <1>1, <1>6
    <3>. QED  BY <3>2, <3>4, <3>5, <3>6
  <2>. QED  BY <2>1, <2>2, <2>3 DEF Local
<1>. QED  BY <1>8, <1>10, <1>13, <1>14, <1>15, <1>16, StepOf

-----------------------------------------------------------------------------
(* Steps of the process.                                                   *)

LEMMA WriteKeeps ==
  ASSUME IInv, NEW s \in Streams, Write(s)
  PROVE  IInv'
<1>1. /\ process = "running" /\ produced[s] \in Nat /\ produced[s] + 1 <= MaxOutput[s]
      /\ \A t \in Streams : produced[t] \in Nat /\ produced'[t] \in Nat /\ produced[t] <= produced'[t]
  <2>1. /\ process = "running" /\ produced[s] < MaxOutput[s]
        /\ produced' = [produced EXCEPT ![s] = produced[s] + 1]
    BY DEF Write
  <2>2. produced \in [Streams -> Nat] /\ MaxOutput[s] \in Nat
    BY Basics DEF IInv, TypeOK, Offsets
  <2>. QED  BY <2>1, <2>2
<1>2. UNCHANGED <<process, info, offset, pc, logs, from, collected, handed, result>>
  BY DEF Write
<1>3. TypeOK'
  <2>1. produced' \in Offsets
    <3>1. produced' = [produced EXCEPT ![s] = produced[s] + 1] /\ produced \in Offsets
      BY DEF IInv, TypeOK, Write
    <3>2. [produced EXCEPT ![s] = produced[s] + 1] \in Offsets
      <4>. DEFINE n == produced[s] + 1
      <4>1. n \in Nat /\ n <= MaxOutput[s]
        BY <1>1
      <4>. HIDE DEF n
      <4>2. [produced EXCEPT ![s] = n] \in Offsets
        BY <3>1, <4>1, Moved
      <4>. QED  BY <4>2 DEF n
    <3>. QED  BY <3>1, <3>2
  <2>. QED  BY <1>2, <2>1 DEF IInv, TypeOK, handed
<1>4. NotStarted'
  BY <1>1, <1>2 DEF IInv, NotStarted
<1>5. \A h \in Handles, t \in Streams : Seen(h, t)' = Seen(h, t)
  BY <1>2 DEF Seen, Output, handed
<1>6. Passed'
  <2>. SUFFICES ASSUME NEW h \in Handles, NEW t \in Streams
                PROVE  offset[h][t] <= produced'[t] /\ 1 .. offset[h][t] \subseteq Seen(h, t)'
    BY <1>2 DEF Passed
  <2>1. /\ offset[h][t] \in Nat /\ offset[h][t] <= produced[t]
        /\ 1 .. offset[h][t] \subseteq Seen(h, t)
    BY DEF IInv, TypeOK, Passed, Offsets
  <2>. QED  BY <1>1, <1>5, <2>1
<1>7. ASSUME NEW w \in Waiters PROVE Local(w)'
  <2>1. ~Finished /\ ~Finished' /\ pc[w] \notin {"info", "done"} /\ HandleOf[w] \in Handles
    BY <1>1, <1>2, Basics DEF IInv, Local, Ended, Finished
  <2>2. Asked(w)'
    BY <1>1, <1>2, <1>5, <2>1, Types DEF IInv, Local, Asked
  <2>3. Answered(w)'
    BY <1>1, <1>2, <2>1, Types DEF IInv, Local, Answered
  <2>4. Ended(w)' /\ Truthful(w)'
    BY <1>2, <2>1 DEF Ended, Truthful
  <2>5. Collected(w)'
    BY <1>2, <2>1 DEF IInv, Local, Collected, Reached, Alone
  <2>6. HandedOn(w)'
    BY <1>2, <2>1 DEF IInv, Local, HandedOn
  <2>. QED  BY <2>2, <2>3, <2>4, <2>5, <2>6 DEF Local
<1>. QED  BY <1>3, <1>4, <1>6, <1>7 DEF IInv

(* A step that moves the process on while no goroutine has seen its end.   *)
LEMMA ProcessStep ==
  ASSUME IInv, process' # "none", ~Finished,
         UNCHANGED <<produced, offset, logs, from, collected, handed, result>>,
         \A v \in Waiters :
           \/ pc'[v] = pc[v]
           \/ pc[v] = "start" /\ pc'[v] \in {"ask", "failed"}
  PROVE  /\ \A h \in Handles, s \in Streams : Seen(h, s)' = Seen(h, s)
         /\ \A w \in Waiters : Local(w)'
<1>1. \A h \in Handles, s \in Streams : Seen(h, s)' = Seen(h, s)
  <2>1. ASSUME NEW v \in Waiters, NEW s \in Streams PROVE Output(v, s)' = Output(v, s)
    <3>1. pc'[v] = "half" <=> pc[v] = "half"
      OBVIOUS
    <3>. QED  BY <3>1 DEF Output
  <2>. QED  BY <2>1 DEF Seen, handed
<1>2. ASSUME NEW w \in Waiters PROVE Local(w)'
  <2>1. pc[w] \notin {"info", "done"} /\ HandleOf[w] \in Handles
    BY Basics DEF IInv, Local, Ended
  <2>2. Asked(w)'
    BY <1>1, <2>1 DEF IInv, Local, Asked
  <2>3. Answered(w)'
    BY DEF IInv, Local, Answered, Finished
  <2>4. Ended(w)' /\ Truthful(w)'
    BY <2>1 DEF Ended, Truthful
  <2>5. Collected(w)'
    BY <2>1 DEF IInv, Local, Collected, Reached, Alone
  <2>6. HandedOn(w)'
    BY <2>1 DEF IInv, Local, HandedOn
  <2>. QED  BY <2>2, <2>3, <2>4, <2>5, <2>6 DEF Local
<1>. QED  BY <1>1, <1>2

LEMMA EndKeeps ==
  ASSUME IInv, NEW how \in Told, End(how)
  PROVE  IInv'
<1>1. /\ process = "running" /\ process' = "ended" /\ ~Finished /\ process' # "none"
      /\ info' \in Infos
      /\ UNCHANGED <<produced, offset, pc, logs, from, collected, handed, result>>
  BY ConstantsAssumption DEF End, Finished
<1>2. TypeOK'
  BY <1>1 DEF IInv, TypeOK, handed
<1>3. NotStarted'
  BY <1>1 DEF IInv, NotStarted
<1>4. /\ \A h \in Handles, s \in Streams : Seen(h, s)' = Seen(h, s)
      /\ \A w \in Waiters : Local(w)'
  BY <1>1, ProcessStep
<1>5. Passed'
  BY <1>1, <1>4 DEF IInv, Passed
<1>. QED  BY <1>2, <1>3, <1>4, <1>5 DEF IInv

(* The process runs, whatever w was told.                                  *)
LEMMA StartedKeeps ==
  ASSUME IInv, NEW w \in Waiters, pc[w] = "start", process' = "running",
         NEW label \in {"ask", "failed"}, Goto(w, label),
         UNCHANGED <<info, produced, offset, logs, from, collected, handed, result>>
  PROVE  IInv'
<1>1. process = "none" /\ ~Finished /\ \A v \in Waiters : pc[v] = "start" => v = w
  BY DEF IInv, NotStarted, Finished
<1>2. pc'[w] = label /\ \A v \in Waiters \ {w} : pc'[v] = pc[v]
  BY DEF IInv, TypeOK, Goto
<1>3. TypeOK'
  BY DEF IInv, TypeOK, Goto, handed
<1>4. NotStarted'
  BY <1>1, <1>2 DEF NotStarted
<1>5. \A v \in Waiters :
        \/ pc'[v] = pc[v]
        \/ pc[v] = "start" /\ pc'[v] \in {"ask", "failed"}
  BY <1>2
<1>6. /\ \A h \in Handles, s \in Streams : Seen(h, s)' = Seen(h, s)
      /\ \A v \in Waiters : Local(v)'
  BY <1>1, <1>5, ProcessStep
<1>7. Passed'
  BY <1>6 DEF IInv, Passed
<1>. QED  BY <1>3, <1>4, <1>6, <1>7 DEF IInv

LEMMA StartSucceedsKeeps ==
  ASSUME IInv, NEW w \in Waiters, StartSucceeds(w)
  PROVE  IInv'
BY StartedKeeps DEF StartSucceeds

LEMMA StartFailsKeeps ==
  ASSUME IInv, NEW w \in Waiters, StartFails(w)
  PROVE  IInv'
<1>1. CASE process' = "none"
  <2>1. /\ process = "none"
        /\ UNCHANGED <<service, offset, logs, from, collected, handed, result>>
        /\ pc[w] = "start" /\ pc'[w] = "failed" /\ Goto(w, "failed")
        /\ \A v \in Waiters \ {w} : pc'[v] = pc[v]
    BY <1>1 DEF IInv, TypeOK, NotStarted, StartFails, Goto, service
  <2>2. TypeOK'
    BY <2>1 DEF IInv, TypeOK, Goto, service, handed
  <2>3. Handing(w)
    BY <2>1, KeepsOutput
  <2>4. Grown
    BY <2>1, <2>3, SeenGrows
  <2>5. Local(w)'
    <3>1. Asked(w)'
      BY <2>1, <2>4, Basics DEF IInv, Local, Asked, Grown, service
    <3>2. Answered(w)' /\ Ended(w)' /\ Truthful(w)'
      BY <2>1 DEF Answered, Ended, Truthful
    <3>3. Collected(w)'
      BY <2>1 DEF IInv, Local, Collected, Reached, Alone, service
    <3>4. HandedOn(w)'
      BY <2>1 DEF IInv, Local, HandedOn
    <3>. QED  BY <3>1, <3>2, <3>3, <3>4 DEF Local
  <2>. QED  BY <2>1, <2>2, <2>3, <2>5, QuietStep
<1>2. CASE process' = "running"
  BY <1>2, StartedKeeps DEF StartFails
<1>. QED  BY <1>1, <1>2 DEF StartFails

-----------------------------------------------------------------------------
LEMMA PollingKeeps ==
  ASSUME IInv, NEW w \in Waiters, Polling(w)
  PROVE  IInv'
<1>1. ASSUME NEW stdout \in 0 .. produced["stdout"], NEW stderr \in 0 .. produced["stderr"],
             Answer(w, [s \in Streams |-> IF s = "stdout" THEN stdout ELSE stderr])
      PROVE  IInv'
  <2>1. produced["stdout"] \in Nat /\ produced["stdout"] <= MaxOutput["stdout"]
        /\ produced["stderr"] \in Nat /\ produced["stderr"] <= MaxOutput["stderr"]
    BY Types, Basics DEF IInv
  <2>2. [s \in Streams |-> IF s = "stdout" THEN stdout ELSE stderr] \in Offsets
    BY <2>1, Basics DEF Offsets, Streams
  <2>. QED  BY <1>1, <2>2, AnswerKeeps
<1>. QED
  BY <1>1, AskKeeps, StoreStdoutKeeps, StoreStderrKeeps, WakeKeeps, InfoSucceedsKeeps
  DEF Polling

LEMMA StutterKeeps == IInv /\ UNCHANGED vars => IInv'
<1>. SUFFICES ASSUME IInv, UNCHANGED vars PROVE IInv'
  OBVIOUS
<1>1. UNCHANGED <<service, offset, pc, logs, from, collected, handed, result>>
  BY DEF vars
<1>2. \A h \in Handles, s \in Streams : Seen(h, s)' = Seen(h, s)
  BY <1>1 DEF Seen, Output, handed
<1>3. TypeOK' /\ NotStarted' /\ Passed'
  BY <1>1, <1>2 DEF IInv, TypeOK, NotStarted, Passed, service, handed
<1>4. ASSUME NEW w \in Waiters PROVE Local(w)'
  <2>1. Grown /\ \A h \in Handles, s \in Streams : given[h][s] \subseteq given'[h][s]
    BY <1>1, <1>2 DEF Grown, handed
  <2>. QED  BY <1>1, <2>1, Unmoved DEF IInv
<1>. QED  BY <1>3, <1>4 DEF IInv

THEOREM NextIInv == IInv /\ [Next]_vars => IInv'
<1>. SUFFICES ASSUME IInv, Next PROVE IInv'
  BY StutterKeeps
<1>1. ASSUME NEW s \in Streams, Write(s) PROVE IInv'
  BY <1>1, WriteKeeps
<1>2. ASSUME NEW how \in Told, End(how) PROVE IInv'
  BY <1>2, EndKeeps
<1>3. ASSUME NEW w \in Waiters, Polling(w) PROVE IInv'
  BY <1>3, PollingKeeps
<1>4. ASSUME NEW w \in Waiters, Failing(w) PROVE IInv'
  BY <1>4, StartFailsKeeps, FailKeeps DEF Failing, LogsFails, SleepCancelled, InfoFails
<1>5. ASSUME NEW w \in Waiters, Run(w) \/ StartSucceeds(w) \/ Wait(w) PROVE IInv'
  BY <1>5, RunKeeps, StartSucceedsKeeps, WaitKeeps
<1>. QED  BY <1>1, <1>2, <1>3, <1>4, <1>5 DEF Next

(* The invariant behind the four theorems below.                           *)
THEOREM Invariant == Spec => []IInv
BY InitIInv, NextIInv, PTL DEF Spec

(* Offsets stay within the output, and so does all that is collected.      *)
THEOREM TypeCorrect == Spec => []TypeOK
<1>1. IInv => TypeOK
  BY DEF IInv
<1>. QED  BY <1>1, Invariant, PTL

(* What Wait returns is true: Success is denied exactly of a process that  *)
(* ended with a code other than 0, "completed" is said of none that was    *)
(* killed, and the output is all of it, in order and once, on a handle     *)
(* that nobody else polls.                                                 *)
THEOREM ResultTrue == Spec => []TrueResult
<1>1. IInv => TrueResult
  <2>. SUFFICES ASSUME IInv, NEW w \in Waiters, pc[w] = "done"
                PROVE  /\ Finished
                       /\ ~result[w].success <=> info.code = "nonzero"
                       /\ result[w].reason = "completed" <=>
                            info.termination = "nil" /\ info.code # "nonzero"
                       /\ Alone(w) =>
                            \A s \in Streams : collected[w][s] = Bytes(from[w][s], produced[s])
    BY DEF TrueResult
  <2>1. Finished
    BY DEF IInv, Local, Ended
  <2>2. result[w] = [success |-> ExitCode = "zero", reason |-> Reason]
    BY DEF IInv, Local, Truthful
  <2>3. info \in Infos
    BY DEF IInv, TypeOK
  <2>4. ~result[w].success <=> info.code = "nonzero"
    <3>1. result[w].success = (ExitCode = "zero")
      BY <2>2
    <3>2. ~(ExitCode = "zero") <=> info.code = "nonzero"
      BY <2>3 DEF ExitCode, Infos
    <3>. QED  BY <3>1, <3>2, Zenon
  <2>5. result[w].reason = "completed" <=>
          info.termination = "nil" /\ info.code # "nonzero"
    <3>1. result[w].reason = Reason
      BY <2>2
    <3>2. Reason = "completed" <=> info.termination = "nil" /\ info.code # "nonzero"
      BY <2>3 DEF Reason, ExitCode, Infos
    <3>. QED  BY <3>1, <3>2
  <2>6. ASSUME Alone(w), NEW s \in Streams
        PROVE  collected[w][s] = Bytes(from[w][s], produced[s])
    BY <2>6 DEF IInv, Local, Collected, Reached
  <2>. QED  BY <2>1, <2>4, <2>5, <2>6
<1>. QED  BY <1>1, Invariant, PTL

(* Goroutines on one handle skip nothing between them, however many they   *)
(* are and however their reads and writes of the offsets fall: what the    *)
(* offsets have passed, a Wait has returned, or holds, or dropped when it  *)
(* failed.                                                                 *)
THEOREM NothingSkipped == Spec => []BetweenThem
<1>1. IInv => BetweenThem
  <2>. SUFFICES ASSUME IInv, NEW h \in Handles, NEW s \in Streams
                PROVE  /\ 1 .. offset[h][s] \subseteq Seen(h, s)
                       /\ (\E w \in Waiters : HandleOf[w] = h /\ pc[w] = "done") =>
                            1 .. produced[s] \subseteq Seen(h, s)
    BY DEF BetweenThem
  <2>1. 1 .. offset[h][s] \subseteq Seen(h, s)
    BY DEF IInv, Passed
  <2>2. ASSUME NEW w \in Waiters, HandleOf[w] = h, pc[w] = "done"
        PROVE  1 .. produced[s] \subseteq Seen(h, s)
    BY <2>2 DEF IInv, Local, Ended
  <2>. QED  BY <2>1, <2>2
<1>. QED  BY <1>1, Invariant, PTL
=============================================================================
