-------------------------- MODULE TransportProofs --------------------------
(***************************************************************************)
(* Proofs about Transport: for any calls, caller keys, call sites and      *)
(* number of retries, IInv is inductive, and it implies the safety         *)
(* properties and every step of AtMostOnce.                                *)
(***************************************************************************)
EXTENDS Transport, TLAPS

-----------------------------------------------------------------------------
(* The operators the model is built from.                                  *)

(* Whatever the policy re-sends on an ambiguous failure either carries a   *)
(* generated key or is harmless to repeat: the two lists of client.go      *)
(* (285-286) leave no call site out.                                       *)
LEMMA PolicyCovers ==
  ASSUME NEW s, Replayable(s)
  PROVE  GeneratesKey(s) \/ Harmless(s)
BY DEF Replayable, GeneratesKey, Harmless, IdempotentPostRoutes

(* A call that takes a caller's key, or generates one, is replayable.      *)
LEMMA KeyTakersReplayable ==
  ASSUME NEW s, TakesCallerKey(s)
  PROVE  Replayable(s)
BY DEF TakesCallerKey, GeneratesKey, Replayable

(* Only a replayable call carries a key.                                   *)
LEMMA KeyedReplayable ==
  ASSUME Shape, NEW c \in Calls, Keyed(c)
  PROVE  Replayable(site[c])
BY KeyTakersReplayable DEF Shape

(* A call that stands for the operation named by a call is that call.      *)
LEMMA OpOwner ==
  ASSUME Shape, NEW c \in Calls, NEW d \in Calls, Op(c) = d
  PROVE  c = d
BY KeysAssumption DEF Shape, Op

(* Every call stands for an operation.                                     *)
LEMMA OpType ==
  ASSUME TypeOK, NEW c \in Calls
  PROVE  Op(c) \in Ops
BY DEF TypeOK, Op, Ops

(* Answering touches the answer of one waiting attempt, or nothing.        *)
LEMMA Answering ==
  ASSUME TypeOK, NEW m \in Requests, NEW a \in Answers, Answer(m, a)
  PROVE  /\ answer' \in [Calls -> Answers \cup {NoAnswer}]
         /\ \A c \in Calls :
              answer'[c] = answer[c]
              \/ /\ c = m[1] /\ pc[c] = "waiting" /\ attempt[c] = m[2]
                 /\ answer'[c] = a
BY DEF TypeOK, Answer, Requests

(* Taking a request from the network removes nothing else, and removes the *)
(* request itself when it carries no key.                                  *)
LEMMA Taking ==
  ASSUME NEW m \in net, Take(m)
  PROVE  /\ net' \subseteq net
         /\ \A x \in net : x # m => x \in net'
         /\ ~Keyed(m[1]) => m \notin net'
BY DEF Take

(* Taking a request and answering it at once keeps a call that is not      *)
(* replayable single-shot: its only request is gone, and nothing was done. *)
LEMMA SingleShotAnswered ==
  ASSUME TypeOK, Shape, SingleShot,
         NEW m \in net, Take(m), NEW a \in Answers, Answer(m, a),
         UNCHANGED <<clientVars, serviceVars>>
  PROVE  SingleShot'
<1> SUFFICES ASSUME NEW c \in Calls, ~Replayable(site[c])
             PROVE  /\ (Open(c) # {})' =>
                         /\ effects[c] = 0
                         /\ Open(c)' = {<<c, attempt[c]>>}
                         /\ ~(<<c, attempt[c]>> \in net' /\ <<c, attempt[c]>> \in executing)
                         /\ pc[c] \in {"waiting", "done"}
                         /\ answer'[c] = NoAnswer
                         /\ outcome[c] \in {NoOutcome, "transport"}
                    /\ answer'[c] \in {"limited", "refused"} => effects[c] = 0
  BY DEF SingleShot, clientVars, serviceVars
<1>1. m \in Requests
  BY DEF TypeOK
<1>2. CASE c = m[1]
  <2>1. ~Keyed(c)
    BY KeyedReplayable
  <2>2. m \in Open(c)
    BY <1>2 DEF Open
  <2>2a. Open(c) = {m} /\ m \notin executing /\ effects[c] = 0
    BY <2>2 DEF SingleShot
  <2>3. Open(c)' = {}
    BY <1>2, <2>1, <2>2a, Taking DEF Open, serviceVars
  <2> QED BY <2>2a, <2>3
<1>3. CASE c # m[1]
  <2>1. Open(c)' = Open(c)
    BY <1>3, Taking DEF Open, serviceVars
  <2>2. answer'[c] = answer[c]
    BY <1>1, <1>3, Answering
  <2>3. <<c, attempt[c]>> \in net' => <<c, attempt[c]>> \in net
    BY Taking
  <2> QED BY <2>1, <2>2, <2>3 DEF SingleShot
<1> QED BY <1>2, <1>3

-----------------------------------------------------------------------------
(* The invariant.                                                          *)

(* Nothing has been sent and nothing done: the invariant holds.            *)
THEOREM InitIInv == Init => IInv
BY RetriesAssumption, KeysAssumption
   DEF Init, IInv, TypeOK, Shape, Fresh, Unsent, Open, OneWorker, KeyedOnce,
       SingleShot, Performed, Phases, Outcomes, Answers, Attempts, Requests,
       Ops, Keyed, Op, NoAnswer, NoOutcome, Success

(* Every step of the loop and of its environment preserves IInv.           *)
THEOREM NextIInv == IInv /\ [Next]_vars => IInv'
<1> SUFFICES ASSUME IInv, [Next]_vars PROVE IInv'
  OBVIOUS
<1> USE RetriesAssumption, KeysAssumption DEF IInv
<1>1. ASSUME NEW c \in Calls, Issue(c) PROVE IInv'
  <2>1. TypeOK'
    BY <1>1 DEF Issue, ChooseKey, serviceVars, TypeOK, Phases, Outcomes,
       Answers, Attempts, Ops, NoAnswer, Requests
  <2>2. Shape'
    BY <1>1 DEF Issue, ChooseKey, serviceVars, TypeOK, Shape, Keyed,
       NoAnswer, NoOutcome, Fresh, TakesCallerKey
  <2>3. Fresh'
    BY <1>1 DEF Issue, ChooseKey, serviceVars, TypeOK, Fresh, Unsent,
       Open, Shape
  <2>4. OneWorker'
    <3>1. \A x \in executing : x[1] # c
      BY <1>1 DEF Issue, Fresh, Unsent, Open
    <3>2. \A d \in Calls : d # c => key'[d] = key[d]
      BY <1>1 DEF Issue, TypeOK
    <3>3. executing' = executing /\ remembered' = remembered
      BY <1>1 DEF Issue, serviceVars
    <3> QED BY <3>1, <3>2, <3>3 DEF OneWorker, Keyed, TypeOK, Requests
  <2>5. KeyedOnce'
    BY <1>1 DEF Issue, ChooseKey, serviceVars, TypeOK, KeyedOnce, Fresh,
       Unsent
  <2>6. SingleShot'
    BY <1>1 DEF Issue, ChooseKey, serviceVars, TypeOK, SingleShot, Open,
       NoOutcome, NoAnswer, Fresh, Unsent
  <2>7. Performed'
    BY <1>1 DEF Issue, ChooseKey, serviceVars, TypeOK, Performed, Op,
       Shape, Success, NoAnswer, NoOutcome
  <2> QED
    BY <2>1, <2>2, <2>3, <2>4, <2>5, <2>6, <2>7
<1>2. ASSUME NEW c \in Calls, FailLocally(c) PROVE IInv'
  <2>1. TypeOK'
    BY <1>2 DEF FailLocally, Return, serviceVars, TypeOK, Phases,
       Outcomes, Answers, Attempts, Ops, NoAnswer, Requests
  <2>2. Shape'
    BY <1>2 DEF FailLocally, Return, serviceVars, TypeOK, Shape, Keyed,
       NoAnswer, NoOutcome
  <2>3. Fresh'
    BY <1>2 DEF FailLocally, Return, serviceVars, TypeOK, Fresh, Unsent,
       Open
  <2>4. SingleShot'
    BY <1>2 DEF FailLocally, Return, serviceVars, TypeOK, SingleShot,
       Open, NoOutcome, NoAnswer, Fresh, Unsent
  <2>5. Performed'
    BY <1>2 DEF FailLocally, Return, serviceVars, TypeOK, Performed, Op
  <2>6. OneWorker' /\ KeyedOnce'
    BY <1>2 DEF FailLocally, Return, serviceVars, TypeOK, OneWorker,
       KeyedOnce, Keyed, Op, Open, Unsent
  <2> QED
    BY <2>1, <2>2, <2>3, <2>4, <2>5, <2>6
<1>3. ASSUME NEW c \in Calls, Send(c) PROVE IInv'
  <2>1. TypeOK'
    BY <1>3 DEF Send, serviceVars, TypeOK, Phases, Outcomes, Answers,
       Attempts, Ops, NoAnswer, Requests
  <2>2. Shape'
    BY <1>3 DEF Send, serviceVars, TypeOK, Shape, Keyed, NoAnswer,
       NoOutcome
  <2>3. Fresh'
    BY <1>3 DEF Send, serviceVars, TypeOK, Fresh, Unsent, Open, Shape,
       NoOutcome
  <2>4. SingleShot'
    BY <1>3 DEF Send, serviceVars, TypeOK, SingleShot, Open, NoOutcome,
       NoAnswer, Shape
  <2>5. OneWorker' /\ KeyedOnce' /\ Performed'
    BY <1>3 DEF Send, serviceVars, TypeOK, OneWorker, KeyedOnce,
       Performed, Keyed, Op, Open, Unsent
  <2> QED
    BY <2>1, <2>2, <2>3, <2>4, <2>5
<1>4. ASSUME NEW c \in Calls, TransportError(c) PROVE IInv'
  <2>1. TypeOK'
    BY <1>4 DEF TransportError, Return, Backoff, CanRetryTransport,
       serviceVars, TypeOK, Phases, Outcomes, Answers, Attempts, Ops,
       NoAnswer, Requests
  <2>2. Shape'
    BY <1>4 DEF TransportError, Return, Backoff, CanRetryTransport,
       serviceVars, TypeOK, Shape, Keyed, NoAnswer, NoOutcome
  <2>3. Fresh'
    BY <1>4 DEF TransportError, Return, Backoff, CanRetryTransport,
       serviceVars, TypeOK, Fresh, Unsent, Open, Shape, NoOutcome
  <2>4. SingleShot'
    BY <1>4 DEF TransportError, Return, Backoff, CanRetryTransport,
       serviceVars, TypeOK, SingleShot, Open, NoOutcome, NoAnswer, Shape
  <2>5. Performed'
    BY <1>4 DEF TransportError, Return, Backoff, CanRetryTransport,
       serviceVars, TypeOK, Performed, Op, Success, NoAnswer
  <2>6. OneWorker' /\ KeyedOnce'
    BY <1>4 DEF TransportError, Return, Backoff, CanRetryTransport,
       serviceVars, TypeOK, OneWorker, KeyedOnce, Keyed, Op, Open,
       Unsent
  <2> QED
    BY <2>1, <2>2, <2>3, <2>4, <2>5, <2>6
<1>5. ASSUME NEW c \in Calls, HandleSuccess(c) PROVE IInv'
  <2>1. TypeOK'
    BY <1>5 DEF HandleSuccess, Return, serviceVars, TypeOK, Phases,
       Outcomes, Answers, Attempts, Ops, NoAnswer, Requests
  <2>2. Shape'
    BY <1>5 DEF HandleSuccess, Return, serviceVars, TypeOK, Shape,
       Keyed, NoAnswer, NoOutcome
  <2>3. Fresh'
    BY <1>5 DEF HandleSuccess, Return, serviceVars, TypeOK, Fresh,
       Unsent, Open, Shape, NoOutcome
  <2>4. SingleShot'
    BY <1>5 DEF HandleSuccess, Return, serviceVars, TypeOK, SingleShot,
       Open, NoOutcome, NoAnswer, Success
  <2>5. Performed'
    BY <1>5 DEF HandleSuccess, Return, serviceVars, TypeOK, Performed,
       Op, Success, NoAnswer
  <2>6. OneWorker' /\ KeyedOnce'
    BY <1>5 DEF HandleSuccess, Return, serviceVars, TypeOK, OneWorker,
       KeyedOnce, Keyed, Op, Open, Unsent
  <2> QED
    BY <2>1, <2>2, <2>3, <2>4, <2>5, <2>6
<1>6. ASSUME NEW c \in Calls, HandleError(c) PROVE IInv'
  <2>1. TypeOK'
    BY <1>6 DEF HandleError, Return, Backoff, CanRetry, serviceVars,
       TypeOK, Phases, Outcomes, Answers, Attempts, Ops, NoAnswer,
       Requests, Success
  <2>2. Shape'
    BY <1>6 DEF HandleError, Return, Backoff, CanRetry, serviceVars,
       TypeOK, Shape, Keyed, NoAnswer, NoOutcome, Answers, Success
  <2>3. Fresh'
    BY <1>6 DEF HandleError, Return, Backoff, CanRetry, serviceVars,
       TypeOK, Fresh, Unsent, Open, Answers, Success
  <2>4. SingleShot'
    BY <1>6 DEF HandleError, Return, Backoff, CanRetry, serviceVars,
       TypeOK, SingleShot, Open, NoOutcome, NoAnswer, Answers, Success
  <2>5. Performed'
    BY <1>6 DEF HandleError, Return, Backoff, CanRetry, serviceVars,
       TypeOK, Performed, Op, Answers, Success, NoAnswer
  <2>6. OneWorker' /\ KeyedOnce'
    BY <1>6 DEF HandleError, Return, Backoff, CanRetry, serviceVars,
       TypeOK, OneWorker, KeyedOnce, Keyed, Op, Open, Unsent
  <2> QED
    BY <2>1, <2>2, <2>3, <2>4, <2>5, <2>6
<1>7. ASSUME NEW c \in Calls, Wake(c) PROVE IInv'
  <2>1. TypeOK'
    <3>1. pc[c] = "backoff" /\ attempt[c] < Retries
      BY <1>7 DEF Wake, Shape
    <3>2. attempt[c] + 1 \in Attempts
      BY <3>1 DEF TypeOK, Attempts
    <3> QED
      BY <1>7, <3>2 DEF Wake, serviceVars, TypeOK, Phases
  <2>2. Shape'
    BY <1>7 DEF Wake, serviceVars, TypeOK, Shape, Keyed, NoAnswer,
       NoOutcome
  <2>3. Fresh'
    BY <1>7 DEF Wake, serviceVars, TypeOK, Fresh, Unsent, Open, Attempts
  <2>4. SingleShot'
    BY <1>7 DEF Wake, serviceVars, TypeOK, SingleShot, Open, NoOutcome,
       NoAnswer
  <2>5. OneWorker' /\ KeyedOnce' /\ Performed'
    BY <1>7 DEF Wake, serviceVars, TypeOK, OneWorker, KeyedOnce,
       Performed, Keyed, Op, Open, Unsent
  <2> QED
    BY <2>1, <2>2, <2>3, <2>4, <2>5
<1>8. ASSUME NEW c \in Calls, SleepCancelled(c) PROVE IInv'
  <2>1. TypeOK'
    BY <1>8 DEF SleepCancelled, Return, serviceVars, TypeOK, Phases,
       Outcomes, Answers, Attempts, Ops, NoAnswer, Requests
  <2>2. Shape'
    BY <1>8 DEF SleepCancelled, Return, serviceVars, TypeOK, Shape,
       Keyed, NoAnswer, NoOutcome
  <2>3. Fresh'
    BY <1>8 DEF SleepCancelled, Return, serviceVars, TypeOK, Fresh,
       Unsent, Open
  <2>4. SingleShot'
    BY <1>8 DEF SleepCancelled, Return, serviceVars, TypeOK, SingleShot,
       Open, NoOutcome, NoAnswer
  <2>5. Performed'
    BY <1>8 DEF SleepCancelled, Return, serviceVars, TypeOK, Performed,
       Op
  <2>6. OneWorker' /\ KeyedOnce'
    BY <1>8 DEF SleepCancelled, Return, serviceVars, TypeOK, OneWorker,
       KeyedOnce, Keyed, Op, Open, Unsent
  <2> QED
    BY <2>1, <2>2, <2>3, <2>4, <2>5, <2>6
<1>9. ASSUME NEW c \in Calls, Cancel(c) PROVE IInv'
  <2>1. TypeOK'
    BY <1>9 DEF Cancel, serviceVars, TypeOK, Phases, Outcomes, Answers,
       Attempts, Ops, NoAnswer, Requests
  <2>2. Shape' /\ Fresh' /\ OneWorker' /\ KeyedOnce' /\ SingleShot' /\ Performed'
    BY <1>9 DEF Cancel, serviceVars, TypeOK, Shape, Fresh, OneWorker,
       KeyedOnce, SingleShot, Performed, Keyed, Op, Open, Unsent
  <2> QED
    BY <2>1, <2>2
<1>10. ASSUME NEW m \in Requests, Lose(m) PROVE IInv'
  <2>1. TypeOK'
    BY <1>10 DEF Lose, clientVars, serviceVars, TypeOK, Phases,
       Outcomes, Answers, Attempts, Ops, NoAnswer, Requests
  <2>2. Fresh'
    BY <1>10 DEF Lose, clientVars, serviceVars, TypeOK, Fresh, Unsent,
       Open
  <2>3. SingleShot'
    BY <1>10 DEF Lose, clientVars, serviceVars, TypeOK, SingleShot,
       Open, NoOutcome, NoAnswer
  <2>4. Shape' /\ OneWorker' /\ KeyedOnce' /\ Performed'
    BY <1>10 DEF Lose, clientVars, serviceVars, Shape, OneWorker,
       KeyedOnce, Performed, Keyed, Op, Open, Unsent
  <2> QED
    BY <2>1, <2>2, <2>3, <2>4
<1>11. ASSUME NEW m \in Requests, Refuse(m) PROVE IInv'
  <2>1. PICK a \in Answers : Answer(m, a) /\ a \in {"limited", "failed", "refused"}
    BY <1>11 DEF Refuse, Answers, Success
  <2>2. TypeOK'
    BY <1>11, <2>1, Answering, Taking DEF Refuse, clientVars,
       serviceVars, TypeOK, Phases, Outcomes, Answers, Attempts, Ops,
       NoAnswer, Requests
  <2>3. Shape'
    BY <1>11, <2>1, Answering DEF Refuse, clientVars, serviceVars,
       TypeOK, Shape, Keyed, NoAnswer, NoOutcome
  <2>4. Fresh'
    BY <1>11, Taking DEF Refuse, clientVars, serviceVars, TypeOK, Fresh,
       Unsent, Open
  <2>5. SingleShot'
    BY <1>11, <2>1, SingleShotAnswered DEF Refuse
  <2>6. Performed'
    BY <1>11, <2>1, Answering DEF Refuse, clientVars, serviceVars,
       TypeOK, Performed, Op, Success, NoAnswer, Ops, Keyed
  <2>7. OneWorker' /\ KeyedOnce'
    BY <1>11 DEF Refuse, clientVars, serviceVars, OneWorker, KeyedOnce,
       Keyed, Op, Open, Unsent
  <2> QED
    BY <2>1, <2>2, <2>3, <2>4, <2>5, <2>6, <2>7
<1>12. ASSUME NEW m \in Requests, InFlight(m) PROVE IInv'
  <2>1. PICK a \in Answers : Answer(m, a) /\ a = "inflight"
    BY <1>12 DEF InFlight, Answers, Success
  <2>2. TypeOK'
    BY <1>12, <2>1, Answering, Taking DEF InFlight, clientVars,
       serviceVars, TypeOK, Phases, Outcomes, Answers, Attempts, Ops,
       NoAnswer, Requests
  <2>3. Shape'
    BY <1>12, <2>1, Answering DEF InFlight, clientVars, serviceVars,
       TypeOK, Shape, Keyed, NoAnswer, NoOutcome
  <2>4. Fresh'
    BY <1>12, Taking DEF InFlight, clientVars, serviceVars, TypeOK,
       Fresh, Unsent, Open
  <2>5. SingleShot'
    BY <1>12, <2>1, SingleShotAnswered DEF InFlight
  <2>6. Performed'
    BY <1>12, <2>1, Answering DEF InFlight, clientVars, serviceVars,
       TypeOK, Performed, Op, Success, NoAnswer, Ops, Keyed
  <2>7. OneWorker' /\ KeyedOnce'
    BY <1>12 DEF InFlight, clientVars, serviceVars, OneWorker,
       KeyedOnce, Keyed, Op, Open, Unsent
  <2> QED
    BY <2>1, <2>2, <2>3, <2>4, <2>5, <2>6, <2>7
<1>13. ASSUME NEW m \in Requests, ReplayResult(m) PROVE IInv'
  <2>1. PICK a \in Answers : Answer(m, a) /\ a \in Success
    BY <1>13 DEF ReplayResult, Answers, Success
  <2>2. TypeOK'
    BY <1>13, <2>1, Answering, Taking DEF ReplayResult, clientVars,
       serviceVars, TypeOK, Phases, Outcomes, Answers, Attempts, Ops,
       NoAnswer, Requests
  <2>3. Shape'
    BY <1>13, <2>1, Answering DEF ReplayResult, clientVars, serviceVars,
       TypeOK, Shape, Keyed, NoAnswer, NoOutcome
  <2>4. Fresh'
    BY <1>13, Taking DEF ReplayResult, clientVars, serviceVars, TypeOK,
       Fresh, Unsent, Open
  <2>5. SingleShot'
    BY <1>13, <2>1, SingleShotAnswered DEF ReplayResult
  <2>6. Performed'
    BY <1>13, <2>1, Answering DEF ReplayResult, clientVars, serviceVars,
       TypeOK, Performed, Op, Success, NoAnswer, Ops, Keyed
  <2>7. OneWorker' /\ KeyedOnce'
    BY <1>13 DEF ReplayResult, clientVars, serviceVars, OneWorker,
       KeyedOnce, Keyed, Op, Open, Unsent
  <2> QED
    BY <2>1, <2>2, <2>3, <2>4, <2>5, <2>6, <2>7
<1>14. ASSUME NEW m \in Requests, Begin(m) PROVE IInv'
  <2>1. TypeOK'
    BY <1>14, Taking DEF Begin, clientVars, TypeOK, Phases, Outcomes,
       Answers, Attempts, Ops, NoAnswer, Requests
  <2>2. Fresh'
    BY <1>14, Taking DEF Begin, clientVars, TypeOK, Fresh, Unsent, Open
  <2>3. OneWorker'
    BY <1>14 DEF Begin, clientVars, TypeOK, OneWorker, Keyed
  <2>4. SingleShot'
    <3> SUFFICES ASSUME NEW c \in Calls, ~Replayable(site[c]), Open(c)' # {}
                 PROVE  /\ effects[c] = 0
                        /\ Open(c)' = {<<c, attempt[c]>>}
                        /\ ~(<<c, attempt[c]>> \in net' /\ <<c, attempt[c]>> \in executing')
                        /\ pc[c] \in {"waiting", "done"}
                        /\ answer[c] = NoAnswer
                        /\ outcome[c] \in {NoOutcome, "transport"}
      BY <1>14 DEF Begin, clientVars, SingleShot
    <3>1. m \in net /\ Take(m) /\ executing' = executing \cup {m}
      BY <1>14 DEF Begin
    <3>2. Open(c)' = Open(c)
      BY <3>1, Taking DEF Open
    <3>3. m[1] = c => m \notin net' /\ m = <<c, attempt[c]>>
      <4> SUFFICES ASSUME m[1] = c PROVE m \notin net' /\ m = <<c, attempt[c]>>
        OBVIOUS
      <4>1. m \in Open(c) /\ ~Keyed(c)
        BY <3>1, KeyedReplayable DEF Open
      <4> QED BY <3>1, <4>1, Taking DEF SingleShot
    <3>4. m[1] # c => m # <<c, attempt[c]>>
      OBVIOUS
    <3> QED BY <3>1, <3>2, <3>3, <3>4, Taking DEF SingleShot
  <2>5. Shape' /\ KeyedOnce' /\ Performed'
    BY <1>14 DEF Begin, clientVars, Shape, KeyedOnce, Performed, Keyed,
       Op, Open, Unsent
  <2> QED
    BY <2>1, <2>2, <2>3, <2>4, <2>5
<1>15. ASSUME NEW m \in Requests, Commit(m) PROVE IInv'
  <2>1. PICK a \in Answers : Answer(m, a) /\ a \in Success \cup {"failed"}
    BY <1>15 DEF Commit, Answers, Success
  <2>2. m[1] \in Calls /\ Op(m[1]) \in Ops /\ (Keyed(m[1]) => key[m[1]] = Op(m[1]))
    BY OpType DEF Requests, Op, Keyed
  <2>3. TypeOK'
    BY <1>15, <2>1, <2>2, Answering DEF Commit, clientVars, TypeOK
  <2>4. Shape'
    BY <1>15, <2>1, Answering DEF Commit, clientVars, TypeOK, Shape,
       Keyed, NoAnswer, NoOutcome
  <2>5. Fresh'
    <3>1. \A c \in Calls : Open(c)' \subseteq Open(c)
      BY <1>15 DEF Commit, Open
    <3>2. \A c \in Calls : Unsent(c) => Op(m[1]) # c
      BY <1>15, <2>2, OpOwner DEF Commit, Fresh, Open
    <3> QED BY <1>15, <2>2, <3>1, <3>2 DEF Commit, clientVars, TypeOK, Fresh, Unsent
  <2>6. OneWorker'
    BY <1>15 DEF Commit, clientVars, TypeOK, OneWorker, Keyed
  <2>7. KeyedOnce'
    <3>1. Keyed(m[1]) => effects[Op(m[1])] = 0
      BY <1>15, <2>2 DEF Commit, OneWorker, KeyedOnce, TypeOK
    <3>2. ~Keyed(m[1]) => Op(m[1]) \notin CallerKeys /\ \A c \in Calls : key[c] # Op(m[1])
      BY <2>2, KeysAssumption DEF Shape, Op, Keyed
    <3> QED BY <1>15, <2>2, <3>1, <3>2 DEF Commit, clientVars, TypeOK, KeyedOnce
  <2>8. SingleShot'
    <3> SUFFICES ASSUME NEW c \in Calls, ~Replayable(site[c])
                 PROVE  /\ effects'[c] <= 1
                        /\ Open(c)' # {} =>
                             /\ effects'[c] = 0
                             /\ Open(c)' = {<<c, attempt[c]>>}
                             /\ ~(<<c, attempt[c]>> \in net /\ <<c, attempt[c]>> \in executing')
                             /\ pc[c] \in {"waiting", "done"}
                             /\ answer'[c] = NoAnswer
                             /\ outcome[c] \in {NoOutcome, "transport"}
                        /\ (\/ pc[c] \in {"ready", "backoff"}
                            \/ answer'[c] \in {"limited", "refused"}
                            \/ outcome[c] \in {"limited", "refused"}) => effects'[c] = 0
      BY <1>15 DEF Commit, clientVars, SingleShot
    <3>1. m \in executing /\ net' = net /\ executing' = executing \ {m}
          /\ effects' = [effects EXCEPT ![Op(m[1])] = @ + 1]
      BY <1>15 DEF Commit, clientVars
    <3>2. CASE m[1] = c
      <4>1. m \in Open(c)
        BY <3>1, <3>2 DEF Open
      <4>2. /\ Open(c) = {m} /\ m \notin net /\ effects[c] = 0
            /\ pc[c] \in {"waiting", "done"} /\ answer[c] = NoAnswer
            /\ outcome[c] \in {NoOutcome, "transport"}
        BY <3>1, <4>1 DEF SingleShot
      <4>3. Open(c)' = {}
        BY <3>1, <4>2 DEF Open
      <4>4. effects'[c] <= 1
        BY <2>2, <3>1, <4>2 DEF TypeOK, Ops
      <4>5. answer'[c] \notin {"limited", "refused"}
        BY <2>1, <4>2, Answering DEF Success, NoAnswer
      <4> QED BY <4>2, <4>3, <4>4, <4>5 DEF NoOutcome
    <3>3. CASE m[1] # c
      <4>1. effects'[c] = effects[c]
        BY <2>2, <3>1, <3>3, OpOwner DEF TypeOK
      <4>2. answer'[c] = answer[c]
        BY <2>1, <3>3, Answering
      <4>3. Open(c)' = Open(c)
        BY <3>1, <3>3 DEF Open
      <4> QED BY <3>1, <4>1, <4>2, <4>3 DEF SingleShot
    <3> QED BY <3>2, <3>3
  <2>9. Performed'
    <3>1. \A o \in Ops : effects'[o] >= effects[o]
      BY <1>15, <2>2 DEF Commit, TypeOK
    <3>2. effects'[Op(m[1])] >= 1
      BY <1>15, <2>2 DEF Commit, TypeOK
    <3>3. \A o \in remembered' : o \in remembered \/ o = Op(m[1])
      BY <1>15, <2>2 DEF Commit
    <3>4. \A c \in Calls : Op(c)' = Op(c) /\ Op(c) \in Ops /\ effects[Op(c)] \in Nat
      BY <1>15, OpType DEF Commit, clientVars, Op, TypeOK
    <3>5. \A c \in Calls : answer'[c] = answer[c] \/ c = m[1]
      BY <2>1, Answering
    <3>6. \A c \in Calls : outcome'[c] = outcome[c]
      BY <1>15 DEF Commit, clientVars
    <3>7. \A o \in Ops : effects[o] \in Nat /\ effects'[o] \in Nat
      BY <2>2, <2>3 DEF TypeOK
    <3>8. \A o \in remembered' : effects'[o] >= 1
      BY <3>1, <3>2, <3>3, <3>7 DEF Performed, TypeOK
    <3>9. ASSUME NEW c \in Calls,
                 answer'[c] \in Success \/ outcome[c] \in {"ok", "undecodable"}
          PROVE  effects'[Op(c)] >= 1
      <4>1. CASE c = m[1]
        BY <3>2, <4>1
      <4>2. CASE c # m[1]
        BY <3>1, <3>4, <3>5, <3>7, <3>9, <4>2 DEF Performed
      <4> QED BY <4>1, <4>2
    <3> QED BY <3>4, <3>6, <3>8, <3>9 DEF Performed
  <2> QED
    BY <2>1, <2>2, <2>3, <2>4, <2>5, <2>6, <2>7, <2>8, <2>9
<1>16. ASSUME NEW m \in Requests, Abort(m) PROVE IInv'
  <2>1. PICK a \in Answers : Answer(m, a) /\ a \in {"failed", "refused"}
    BY <1>16 DEF Abort, Answers, Success
  <2>2. TypeOK'
    BY <1>16, <2>1, Answering DEF Abort, clientVars, TypeOK, Phases,
       Outcomes, Answers, Attempts, Ops, NoAnswer, Requests
  <2>3. Shape'
    BY <1>16, <2>1, Answering DEF Abort, clientVars, TypeOK, Shape,
       Keyed, NoAnswer, NoOutcome
  <2>4. Fresh'
    BY <1>16 DEF Abort, clientVars, TypeOK, Fresh, Unsent, Open
  <2>5. OneWorker'
    BY <1>16 DEF Abort, clientVars, TypeOK, OneWorker, Keyed
  <2>6. SingleShot'
    <3> SUFFICES ASSUME NEW c \in Calls, ~Replayable(site[c])
                 PROVE  /\ Open(c)' # {} =>
                             /\ effects[c] = 0
                             /\ Open(c)' = {<<c, attempt[c]>>}
                             /\ ~(<<c, attempt[c]>> \in net /\ <<c, attempt[c]>> \in executing')
                             /\ pc[c] \in {"waiting", "done"}
                             /\ answer'[c] = NoAnswer
                             /\ outcome[c] \in {NoOutcome, "transport"}
                        /\ answer'[c] \in {"limited", "refused"} => effects[c] = 0
      BY <1>16 DEF Abort, clientVars, SingleShot
    <3>1. m \in executing /\ net' = net /\ executing' = executing \ {m}
      BY <1>16 DEF Abort, clientVars
    <3>2. CASE m[1] = c
      <4>1. m \in Open(c)
        BY <3>1, <3>2 DEF Open
      <4>2. Open(c) = {m} /\ m \notin net /\ effects[c] = 0
        BY <3>1, <4>1 DEF SingleShot
      <4>3. Open(c)' = {}
        BY <3>1, <4>2 DEF Open
      <4> QED BY <4>2, <4>3
    <3>3. CASE m[1] # c
      <4>1. answer'[c] = answer[c]
        BY <2>1, <3>3, Answering
      <4>2. Open(c)' = Open(c)
        BY <3>1, <3>3 DEF Open
      <4> QED BY <3>1, <4>1, <4>2 DEF SingleShot
    <3> QED BY <3>2, <3>3
  <2>7. Performed'
    BY <1>16, <2>1, Answering DEF Abort, clientVars, TypeOK, Performed,
       Op, Success, NoAnswer, Ops, Keyed
  <2>8. KeyedOnce'
    BY <1>16 DEF Abort, clientVars, KeyedOnce, Keyed, Op, Open, Unsent
  <2> QED
    BY <2>1, <2>2, <2>3, <2>4, <2>5, <2>6, <2>7, <2>8
<1>17. CASE UNCHANGED vars
    BY <1>17 DEF vars, TypeOK, Shape, Fresh, Unsent, Open, OneWorker,
       KeyedOnce, SingleShot, Performed, Op, Keyed
<1> QED
    BY <1>1, <1>2, <1>3, <1>4, <1>5, <1>6, <1>7, <1>8, <1>9, <1>10,
       <1>11, <1>12, <1>13, <1>14, <1>15, <1>16, <1>17 DEF Next,
       ClientNext, ServiceNext

(* IInv holds of every reachable state of the loop and its network.        *)
THEOREM Invariant == Spec => []IInv
BY InitIInv, NextIInv, PTL DEF Spec

-----------------------------------------------------------------------------
(* The properties the runs check.                                          *)

(* Every variable keeps its type.                                          *)
THEOREM TypeCorrect == Spec => []TypeOK
BY Invariant, PTL DEF IInv

(* No operation takes effect twice on behalf of calls that are not         *)
(* harmless to repeat.                                                     *)
THEOREM EffectOnce == Spec => []AtMostOnceEffect
<1>1. IInv => AtMostOnceEffect
  <2> SUFFICES ASSUME IInv, NEW c \in Calls, pc[c] # "idle", ~Repeatable(c)
               PROVE  effects[Op(c)] <= 1
    BY DEF AtMostOnceEffect
  <2>1. CASE Keyed(c)
    BY <2>1, OpType DEF IInv, KeyedOnce, Op, Keyed
  <2>2. CASE ~Keyed(c)
    <3>1. ~Replayable(site[c])
      BY <2>2, PolicyCovers DEF IInv, Shape, Repeatable
    <3> QED BY <2>2, <3>1 DEF IInv, SingleShot, Op, Keyed
  <2> QED BY <2>1, <2>2
<1> QED BY <1>1, Invariant, PTL

(* Success is only ever returned for an operation that took effect.        *)
THEOREM OkPerformed == Spec => []OkMeansPerformed
<1>1. IInv => OkMeansPerformed
  BY DEF IInv, Performed, OkMeansPerformed
<1> QED BY <1>1, Invariant, PTL

(* A refused call that is not replayable did nothing, and nothing of it is *)
(* left that could.                                                        *)
THEOREM RefusedNever == Spec => []RefusedMeansNever
<1>1. IInv => RefusedMeansNever
  <2> SUFFICES ASSUME IInv, NEW c \in Calls, ~Replayable(site[c]),
                      outcome[c] \in {"limited", "refused"}
               PROVE  effects[c] = 0 /\ \A m \in net \cup executing : m[1] # c
    BY DEF RefusedMeansNever
  <2>1. effects[c] = 0 /\ Open(c) = {}
    BY DEF IInv, SingleShot, NoOutcome
  <2> QED BY <2>1 DEF Open
<1> QED BY <1>1, Invariant, PTL

-----------------------------------------------------------------------------
(* Transport implements AtMostOnce.                                        *)

(* A call that counts as refused can have no effect any more.              *)
LEMMA RefusedIsQuiet ==
  ASSUME IInv, NEW c \in Calls, Refused(c)
  PROVE  effects[Op(c)] = 0 /\ Open(c) = {}
<1>1. CASE outcome[c] = "local"
  BY <1>1 DEF IInv, Fresh, Unsent, Refused
<1>2. CASE outcome[c] \in {"limited", "refused"} /\ ~Replayable(site[c])
  BY <1>2 DEF IInv, SingleShot, Refused, NoOutcome
<1> QED BY <1>1, <1>2 DEF Refused

(* Steps that only move a call between its pending phases, or requests     *)
(* and answers about, are stuttering steps of AtMostOnce.                  *)
LEMMA Stutter ==
  ASSUME TypeOK,
         UNCHANGED <<site, key, effects, outcome>>,
         \A c \in Calls : /\ pc[c] = "idle" <=> pc'[c] = "idle"
                          /\ pc[c] = "done" <=> pc'[c] = "done"
  PROVE  UNCHANGED Abstract!vars
<1>1. \A c \in Calls : PhaseOf(c)' = PhaseOf(c)
  BY DEF PhaseOf, Refused, Op
<1>2. \A c \in Calls : Op(c)' = Op(c) /\ Repeatable(c)' = Repeatable(c)
  BY DEF Op, Repeatable, Keyed
<1> QED BY <1>1, <1>2 DEF Abstract!vars

(* A return is ReturnOk, ReturnRefused or ReturnError.                     *)
LEMMA Returning ==
  ASSUME IInv, IInv', NEW c \in Calls, pc[c] \notin {"idle", "done"},
         NEW o \in Outcomes, Return(c, o), UNCHANGED effects
  PROVE  Abstract!Next
<1>1. /\ PhaseOf(c) = "pending"
      /\ \A d \in Calls : d # c => PhaseOf(d)' = PhaseOf(d)
      /\ PhaseOf(c)' = IF o \in {"ok", "undecodable"} THEN "ok"
                       ELSE IF Refused(c)' THEN "refused" ELSE "error"
  BY DEF IInv, TypeOK, Return, PhaseOf, Refused, Op
<1>2. /\ \A d \in Calls : Op(d)' = Op(d)
      /\ {d \in Calls : pc'[d] # "idle" /\ Repeatable(d)'}
           = {d \in Calls : pc[d] # "idle" /\ Repeatable(d)}
  BY DEF IInv, TypeOK, Return, Op, Repeatable, Keyed
<1>3. CASE o \in {"ok", "undecodable"}
  <2>1. effects[Op(c)] > 0
    <3>1. outcome'[c] = o /\ Op(c) \in Ops /\ effects[Op(c)] \in Nat
      BY OpType DEF IInv, TypeOK, Return
    <3> QED BY <1>2, <1>3, <3>1 DEF IInv, Performed
  <2> QED BY <1>1, <1>2, <1>3, <2>1 DEF Abstract!Next, Abstract!ReturnOk
<1>4. CASE o \notin {"ok", "undecodable"} /\ Refused(c)'
  <2>1. effects[Op(c)] = 0
    BY <1>2, <1>4 DEF IInv, Fresh, Unsent, SingleShot, Refused
  <2> QED BY <1>1, <1>2, <1>4, <2>1 DEF Abstract!Next, Abstract!ReturnRefused
<1>5. CASE o \notin {"ok", "undecodable"} /\ ~Refused(c)'
  BY <1>1, <1>2, <1>5 DEF Abstract!Next, Abstract!ReturnError
<1> QED BY <1>3, <1>4, <1>5

(* Commit is Perform: the call is neither idle nor refused, and unless it  *)
(* is repeatable this is the first time.                                   *)
LEMMA Committing ==
  ASSUME IInv, NEW m \in Requests, Commit(m)
  PROVE  Abstract!Perform(m[1])
<1>1. m[1] \in Calls /\ m \in Open(m[1])
  BY DEF Commit, Requests, Open
<1>2. PhaseOf(m[1]) \notin {"idle", "refused"}
  <2>1. pc[m[1]] # "idle" /\ ~Refused(m[1])
    BY <1>1, RefusedIsQuiet DEF IInv, Fresh, Unsent
  <2> QED BY <2>1 DEF PhaseOf
<1>3. ~Repeatable(m[1]) => effects[Op(m[1])] = 0
  <2>1. CASE Keyed(m[1])
    BY <1>1, <2>1, OpType
       DEF IInv, TypeOK, Commit, OneWorker, KeyedOnce, Op, Keyed
  <2>2. CASE ~Keyed(m[1]) /\ ~Repeatable(m[1])
    <3>1. ~Replayable(site[m[1]])
      BY <1>1, <1>2, <2>2, PolicyCovers DEF IInv, Shape, Repeatable, PhaseOf
    <3> QED BY <1>1, <2>2, <3>1 DEF IInv, SingleShot, Op, Keyed
  <2> QED BY <2>1, <2>2
<1>4. /\ effects' = [effects EXCEPT ![Op(m[1])] = @ + 1]
      /\ UNCHANGED clientVars
  BY DEF Commit
<1>5. \A c \in Calls : /\ PhaseOf(c)' = PhaseOf(c)
                       /\ Op(c)' = Op(c)
                       /\ Repeatable(c)' = Repeatable(c)
  BY <1>4 DEF PhaseOf, Refused, Op, Repeatable, Keyed, clientVars
<1> QED
  BY <1>1, <1>2, <1>3, <1>4, <1>5 DEF Abstract!Perform, clientVars, PhaseOf

(* Issue is Invoke.                                                        *)
LEMMA Issuing ==
  ASSUME IInv, NEW c \in Calls, Issue(c)
  PROVE  Abstract!Invoke(c)
<1>1. /\ pc[c] = "idle" /\ pc' = [pc EXCEPT ![c] = "ready"]
      /\ UNCHANGED <<site, outcome, effects>>
      /\ \A d \in Calls : d # c => key'[d] = key[d]
      /\ key'[c] \in Ops \cup {NoKey}
  BY DEF Issue, serviceVars, IInv, TypeOK, ChooseKey, Ops
<1>2. Op(c)' \in Ops
  BY <1>1 DEF Op, Ops
<1>3. \A d \in Calls : d # c => /\ PhaseOf(d)' = PhaseOf(d)
                                /\ Op(d)' = Op(d)
                                /\ Repeatable(d)' = Repeatable(d)
                                /\ pc'[d] = pc[d]
  BY <1>1 DEF PhaseOf, Refused, Op, Repeatable, Keyed, IInv, TypeOK
<1>4. PhaseOf(c) = "idle" /\ PhaseOf(c)' = "pending"
  BY <1>1 DEF PhaseOf, IInv, TypeOK
<1>5. [d \in Calls |-> Op(d)]' = [[d \in Calls |-> Op(d)] EXCEPT ![c] = Op(c)']
  BY <1>3
<1>6. {d \in Calls : pc[d] # "idle" /\ Repeatable(d)}'
        \in {{d \in Calls : pc[d] # "idle" /\ Repeatable(d)},
             {d \in Calls : pc[d] # "idle" /\ Repeatable(d)} \cup {c}}
  BY <1>1, <1>3
<1> QED
  BY <1>1, <1>2, <1>3, <1>4, <1>5, <1>6 DEF Abstract!Invoke

(* Every step of Transport is a step of AtMostOnce or leaves it alone.     *)
LEMMA StepImplements ==
  ASSUME IInv, IInv', [Next]_vars
  PROVE  [Abstract!Next]_Abstract!vars
<1> USE DEF IInv
<1>1. ASSUME NEW c \in Calls, Issue(c) PROVE Abstract!Next
  BY <1>1, Issuing DEF Abstract!Next
<1>2. ASSUME NEW c \in Calls, FailLocally(c) PROVE Abstract!Next
  BY <1>2, Returning DEF FailLocally, serviceVars, Outcomes
<1>3. ASSUME NEW c \in Calls, Send(c) \/ Wake(c) PROVE UNCHANGED Abstract!vars
  BY <1>3, Stutter DEF Send, Wake, serviceVars, TypeOK
<1>4. ASSUME NEW c \in Calls, Cancel(c) PROVE UNCHANGED Abstract!vars
  BY <1>4, Stutter DEF Cancel, serviceVars
<1>5. ASSUME NEW c \in Calls, TransportError(c)
      PROVE  Abstract!Next \/ UNCHANGED Abstract!vars
  <2>1. CASE Backoff(c)
    BY <1>5, <2>1, Stutter DEF TransportError, Backoff, serviceVars, TypeOK
  <2>2. CASE Return(c, "transport")
    BY <1>5, <2>2, Returning DEF TransportError, serviceVars, Outcomes
  <2> QED BY <1>5, <2>1, <2>2 DEF TransportError
<1>6. ASSUME NEW c \in Calls, HandleSuccess(c) PROVE Abstract!Next
  BY <1>6, Returning DEF HandleSuccess, serviceVars, Outcomes
<1>7. ASSUME NEW c \in Calls, HandleError(c)
      PROVE  Abstract!Next \/ UNCHANGED Abstract!vars
  <2>1. CASE Backoff(c)
    BY <1>7, <2>1, Stutter DEF HandleError, Backoff, serviceVars, TypeOK
  <2>2. CASE Return(c, answer[c])
    BY <1>7, <2>2, Returning
       DEF HandleError, serviceVars, Outcomes, Answers, Success
  <2> QED BY <1>7, <2>1, <2>2 DEF HandleError
<1>8. ASSUME NEW c \in Calls, SleepCancelled(c) PROVE Abstract!Next
  BY <1>8, Returning DEF SleepCancelled, serviceVars, Outcomes
<1>9. ASSUME NEW m \in Requests,
             \/ Lose(m) \/ Refuse(m) \/ InFlight(m)
             \/ ReplayResult(m) \/ Begin(m) \/ Abort(m)
      PROVE  UNCHANGED Abstract!vars
  BY <1>9, Stutter
     DEF Lose, Refuse, InFlight, ReplayResult, Begin, Abort, clientVars, serviceVars
<1>10. ASSUME NEW m \in Requests, Commit(m) PROVE Abstract!Next
  BY <1>10, Committing DEF Abstract!Next, Requests
<1>11. CASE UNCHANGED vars
  BY <1>11, Stutter DEF vars
<1> QED
  BY <1>1, <1>2, <1>3, <1>4, <1>5, <1>6, <1>7, <1>8, <1>9, <1>10, <1>11
     DEF Next, ClientNext, ServiceNext

(* The initial states are initial states of AtMostOnce.                    *)
LEMMA InitImplements == Init => Abstract!Init
<1> SUFFICES ASSUME Init PROVE Abstract!Init
  OBVIOUS
<1>1. \A c \in Calls : PhaseOf(c) = "idle" /\ Op(c) = c /\ c \in Ops /\ pc[c] = "idle"
  BY DEF Init, PhaseOf, Op, Ops
<1>2. effects = [o \in Ops |-> 0]
  BY DEF Init
<1> QED BY <1>1, <1>2 DEF Abstract!Init

(* What the callers of requestInto see over any such network is the        *)
(* abstract specification.                                                 *)
THEOREM Implementation == Spec => ImplementsAtMostOnce
BY Invariant, InitImplements, StepImplements, PTL
   DEF Spec, Abstract!Spec, ImplementsAtMostOnce

-----------------------------------------------------------------------------
(* The variant of the loop.                                                *)

(* There is a number of steps, and it is one of these.                     *)
LEMMA StepsLeftRange ==
  ASSUME TypeOK, NEW c \in Calls
  PROVE  StepsLeft(c) \in 0 .. 3 * Retries + 4
BY RetriesAssumption DEF TypeOK, StepsLeft, Phases, Attempts

(* A call that moves on within its attempt, or goes to the next.           *)
LEMMA MovesOn ==
  ASSUME TypeOK, NEW c \in Calls, NEW p \in Phases, pc' = [pc EXCEPT ![c] = p],
         \/ /\ attempt' = attempt
            /\ \/ pc[c] = "idle" /\ p = "ready"
               \/ pc[c] = "ready" /\ p \in {"waiting", "backoff", "done"}
               \/ pc[c] = "waiting" /\ p \in {"backoff", "done"}
               \/ pc[c] = "backoff" /\ p = "done"
         \/ /\ attempt' = [attempt EXCEPT ![c] = @ + 1]
            /\ pc[c] = "backoff" /\ p = "ready"
  PROVE  \A d \in Calls : IF pc'[d] = pc[d] THEN StepsLeft(d)' = StepsLeft(d)
                           ELSE StepsLeft(d)' < StepsLeft(d)
<1>. SUFFICES ASSUME NEW d \in Calls
              PROVE  IF pc'[d] = pc[d] THEN StepsLeft(d)' = StepsLeft(d)
                     ELSE StepsLeft(d)' < StepsLeft(d)
  OBVIOUS
<1>1. CASE d # c
  BY <1>1 DEF TypeOK, StepsLeft
<1>2. CASE d = c
  <2>1. attempt[c] \in Nat /\ Retries \in Nat /\ pc'[c] = p
    BY RetriesAssumption DEF TypeOK, Attempts
  <2>2. CASE attempt' = attempt
    BY <1>2, <2>1, <2>2 DEF StepsLeft, TypeOK
  <2>3. CASE attempt' = [attempt EXCEPT ![c] = @ + 1] /\ pc[c] = "backoff" /\ p = "ready"
    BY <1>2, <2>1, <2>3 DEF StepsLeft, TypeOK
  <2>. QED  BY <2>2, <2>3
<1>. QED  BY <1>1, <1>2

(* Every step of the loop leaves less to do, whatever the network and the  *)
(* service do meanwhile: no call is sent again without end.                *)
THEOREM NearerToEnd == Spec => NearerToReturn
<1> DEFINE A == \A c \in Calls : IF pc'[c] = pc[c] THEN StepsLeft(c)' = StepsLeft(c)
                                 ELSE StepsLeft(c)' < StepsLeft(c)
<1>1. ASSUME TypeOK, Next PROVE A
  <2>1. ASSUME UNCHANGED <<pc, attempt>> PROVE A
    BY <2>1 DEF StepsLeft
  <2>2. ASSUME NEW c \in Calls, ClientNext(c) PROVE A
    <3>1. CASE Issue(c)
      BY <1>1, <3>1, MovesOn DEF Issue, Phases
    <3>2. CASE FailLocally(c)
      BY <1>1, <3>2, MovesOn DEF FailLocally, Return, Phases
    <3>3. CASE Send(c)
      BY <1>1, <3>3, MovesOn DEF Send, Phases
    <3>4. CASE TransportError(c)
      <4>1. PICK p \in {"backoff", "done"} : pc' = [pc EXCEPT ![c] = p] /\ attempt' = attempt
        BY <3>4 DEF TransportError, Backoff, Return
      <4>. QED  BY <1>1, <3>4, <4>1, MovesOn DEF TransportError, Phases
    <3>5. CASE HandleSuccess(c)
      BY <1>1, <3>5, MovesOn DEF HandleSuccess, Return, Phases
    <3>6. CASE HandleError(c)
      <4>1. PICK p \in {"backoff", "done"} : pc' = [pc EXCEPT ![c] = p] /\ attempt' = attempt
        BY <3>6 DEF HandleError, Backoff, Return
      <4>. QED  BY <1>1, <3>6, <4>1, MovesOn DEF HandleError, Phases
    <3>7. CASE Wake(c)
      BY <1>1, <3>7, MovesOn DEF Wake, Phases
    <3>8. CASE SleepCancelled(c)
      BY <1>1, <3>8, MovesOn DEF SleepCancelled, Return, Phases
    <3>9. CASE Cancel(c)
      BY <3>9, <2>1 DEF Cancel
    <3>. QED  BY <2>2, <3>1, <3>2, <3>3, <3>4, <3>5, <3>6, <3>7, <3>8, <3>9 DEF ClientNext
  <2>3. ASSUME NEW m \in Requests, ServiceNext(m) PROVE A
    BY <2>1, <2>3 DEF ServiceNext, Lose, Refuse, InFlight, ReplayResult, Begin, Commit,
                      Abort, clientVars
  <2>. QED  BY <1>1, <2>2, <2>3 DEF Next
<1>2. TypeOK /\ [Next]_vars => [A]_vars
  BY <1>1
<1>3. NearerToReturn <=> [][A]_vars
  BY DEF NearerToReturn
<1>. QED  BY <1>2, <1>3, TypeCorrect, PTL DEF Spec
=============================================================================
