------------------------------ MODULE Processes ------------------------------
(***************************************************************************)
(* Processes.Start, Process.Logs and Process.Wait of sandbox.go: the       *)
(* output of a durable process is collected by polling, through handles    *)
(* that remember how far they have read.  One process; any number of       *)
(* handles to it, from Start and List; any number of goroutines that call  *)
(* Wait on them, several on one handle included, which share its offsets   *)
(* without a lock.  Output is counted, byte k of a stream being k.         *)
(*                                                                         *)
(* The service is external: it answers a request for output from an offset *)
(* with some of what follows it, and says "finished" only with all of it.  *)
(* Of how a process ended it tells a code or none, and a termination or    *)
(* none, in any combination.                                               *)
(***************************************************************************)
EXTENDS Integers, Sequences

CONSTANTS
  Waiters,    \* goroutines
  Handles,    \* Process values
  HandleOf,   \* the handle each goroutine waits on
  Told,       \* what may be told of how the process ended
  MaxOutput,  \* bound on the output, by stream
  Enough,     \* bound: see EnoughCollected
  Casts       \* bound: who may take part together, and on how much output

Streams == {"stdout", "stderr"}

(* ExitCode and Termination of ProcessInfo, both of which may be nil.      *)
Infos == [code : {"nil", "zero", "nonzero"}, termination : {"nil", "signal", "oom"}]

ASSUME ConstantsAssumption ==
  /\ HandleOf \in [Waiters -> Handles]
  /\ MaxOutput \in [Streams -> Nat]
  /\ Told \subseteq Infos

VARIABLES
  process,   \* the process at the service: "none", "running" or "ended"
  info,      \* what is told of its end
  produced,  \* how much output it has written
  offset,    \* stdoutOffset and stderrOffset of each handle
  pc,        \* where each goroutine is
  logs,      \* its call of Logs: the offsets asked for, and the answer
  from,      \* the offsets its Wait began at, if nobody shares its handle
  collected, \* the output its Wait has put together
  given,     \* the output that Waits have returned, by handle
  dropped,   \* the output that Waits which failed had put together
  result     \* Success and Reason of what its Wait returned

service == <<process, info, produced>>
handed  == <<given, dropped>>
vars == <<service, offset, pc, logs, from, collected, handed, result>>

Offsets == {o \in [Streams -> Nat] : \A s \in Streams : o[s] <= MaxOutput[s]}
Zero    == [s \in Streams |-> 0]
Nothing == [s \in Streams |-> <<>>]
NoLogs  == [asked |-> Zero, next |-> Zero, finished |-> FALSE]

Reasons  == {"none", "completed", "exit_nonzero", "signal", "oom_killed"}
NoResult == [success |-> FALSE, reason |-> "none"]

TypeOK ==
  /\ process \in {"none", "running", "ended"}
  /\ info \in Infos
  /\ produced \in Offsets
  /\ offset \in [Handles -> Offsets]
  /\ pc \in [Waiters -> {"idle", "start", "ask", "asking", "asked", "answered", "half",
                         "sleep", "info", "done", "failed"}]
  /\ logs \in [Waiters -> [asked : Offsets, next : Offsets, finished : BOOLEAN]]
  /\ from \in [Waiters -> Offsets]
  /\ collected \in [Waiters -> [Streams -> Seq(Nat)]]
  /\ given \in [Handles -> [Streams -> SUBSET Nat]]
  /\ dropped \in [Handles -> [Streams -> SUBSET Nat]]
  /\ result \in [Waiters -> [success : BOOLEAN, reason : Reasons]]

Init ==
  /\ process = "none"
  /\ info = [code |-> "nil", termination |-> "nil"]
  /\ produced = Zero
  /\ offset = [h \in Handles |-> Zero]
  /\ pc = [w \in Waiters |-> "idle"]
  /\ logs = [w \in Waiters |-> NoLogs]
  /\ from = [w \in Waiters |-> Zero]
  /\ collected = [w \in Waiters |-> Nothing]
  /\ given = [h \in Handles |-> [s \in Streams |-> {}]]
  /\ dropped = [h \in Handles |-> [s \in Streams |-> {}]]
  /\ result = [w \in Waiters |-> NoResult]

Alone(w) == \A v \in Waiters : HandleOf[v] = HandleOf[w] => v = w

Goto(w, label) == pc' = [pc EXCEPT ![w] = label]

Finished == process = "ended"

(* What w's Wait has put together, and the answer it is about to add.      *)
Output(w, s) ==
  {collected[w][s][i] : i \in 1 .. Len(collected[w][s])}
  \cup IF pc[w] = "half" THEN logs[w].asked[s] + 1 .. logs[w].next[s] ELSE {}

(* Wait hands w's output on: it returns it, or fails and drops it.         *)
Added(to, w) ==
  [to EXCEPT ![HandleOf[w]] = [s \in Streams |-> @[s] \cup Output(w, s)]]

(* Bound: those that take part, and the output, are those of one cast.     *)
Within(who, output) ==
  \E cast \in Casts :
    who \subseteq cast.who /\ \A s \in Streams : output[s] <= cast.output[s]

Entered == {w \in Waiters : pc[w] # "idle"}

-----------------------------------------------------------------------------
(* The process.                                                            *)

Write(s) ==
  /\ process = "running"
  /\ produced[s] < MaxOutput[s]
  /\ Within(Entered, [produced EXCEPT ![s] = @ + 1])
  /\ produced' = [produced EXCEPT ![s] = @ + 1]
  /\ UNCHANGED <<process, info, offset, pc, logs, from, collected, handed, result>>

(* It ends by itself or is killed.                                         *)
End(how) ==
  /\ process = "running"
  /\ process' = "ended"
  /\ info' = how
  /\ UNCHANGED <<produced, offset, pc, logs, from, collected, handed, result>>

-----------------------------------------------------------------------------
(* Processes.Run: Start, and Wait on the handle it returns.                *)

Run(w) ==
  /\ pc[w] \in {"idle", "failed"} /\ process = "none"
  /\ \A v \in Waiters : pc[v] # "start"
  /\ Within(Entered \cup {w}, produced)
  /\ Goto(w, "start")
  /\ UNCHANGED <<service, offset, logs, from, collected, handed, result>>

StartSucceeds(w) ==
  /\ pc[w] = "start"
  /\ process' = "running"
  /\ Goto(w, "ask")
  /\ UNCHANGED <<info, produced, offset, logs, from, collected, handed, result>>

(* The process may have been started all the same.                         *)
StartFails(w) ==
  /\ pc[w] = "start"
  /\ process' \in {"none", "running"}
  /\ Goto(w, "failed")
  /\ UNCHANGED <<info, produced, offset, logs, from, collected, handed, result>>

-----------------------------------------------------------------------------
(* Wait.                                                                   *)

(* Wait is called, perhaps again, with nothing collected.                  *)
Wait(w) ==
  /\ pc[w] \in {"idle", "failed", "done"} /\ process # "none"
  /\ Within(Entered \cup {w}, produced)
  /\ Goto(w, "ask")
  /\ from' = [from EXCEPT ![w] = IF Alone(w) THEN offset[HandleOf[w]] ELSE Zero]
  /\ collected' = [collected EXCEPT ![w] = Nothing]
  /\ result' = [result EXCEPT ![w] = NoResult]
  /\ UNCHANGED <<service, offset, logs, handed>>

(* Bound: two goroutines on one handle can set its offsets back and forth, *)
(* and collect the same output for as long as the process runs; here they  *)
(* wait for its end once they have enough of a stream.                     *)
EnoughCollected(w) == \E s \in Streams : Len(collected[w][s]) >= Enough

(* Logs asks for what follows the offsets, which it reads one after the    *)
(* other: another goroutine may store new ones in between.                 *)
AskStdout(w) ==
  /\ pc[w] = "ask"
  /\ Finished \/ ~EnoughCollected(w)
  /\ logs' = [logs EXCEPT ![w].asked["stdout"] = offset[HandleOf[w]]["stdout"]]
  /\ Goto(w, "asking")
  /\ UNCHANGED <<service, offset, from, collected, handed, result>>

AskStderr(w) ==
  /\ pc[w] = "asking"
  /\ logs' = [logs EXCEPT ![w].asked["stderr"] = offset[HandleOf[w]]["stderr"]]
  /\ Goto(w, "asked")
  /\ UNCHANGED <<service, offset, from, collected, handed, result>>

(* The service answers.                                                    *)
Answer(w, next) ==
  /\ pc[w] = "asked"
  /\ \A s \in Streams : next[s] \in logs[w].asked[s] .. produced[s]
  /\ Finished => next = produced
  /\ logs' = [logs EXCEPT ![w] =
       [asked |-> @.asked, next |-> next, finished |-> Finished]]
  /\ Goto(w, "answered")
  /\ UNCHANGED <<service, offset, from, collected, handed, result>>

(* Wait returns an error, and drops what it had put together.              *)
Fail(w) ==
  /\ Goto(w, "failed")
  /\ dropped' = Added(dropped, w)
  /\ collected' = [collected EXCEPT ![w] = Nothing]
  /\ logs' = [logs EXCEPT ![w] = NoLogs]
  /\ UNCHANGED <<service, from, given, result>>

(* Logs that moves the offsets before it knows that it has the output.     *)
HastyLogsFails(w) ==
  /\ pc[w] = "asked"
  /\ offset' = [offset EXCEPT ![HandleOf[w]] = produced]
  /\ Fail(w)

LogsFails(w) ==
  /\ pc[w] = "asked"
  /\ Fail(w)
  /\ UNCHANGED offset

Bytes(low, high) == [i \in 1 .. high - low |-> low + i]

(* The offset answered taken for a length.                                 *)
AddedStdout(w) ==
  /\ pc[w] = "answered"
  /\ offset' = [offset EXCEPT ![HandleOf[w]]["stdout"] = @ + logs[w].next["stdout"]]
  /\ Goto(w, "half")
  /\ UNCHANGED <<service, logs, from, collected, handed, result>>

(* The output is handed on and the offset left where it was.               *)
UnmovedStdout(w) ==
  /\ pc[w] = "answered"
  /\ Goto(w, "half")
  /\ UNCHANGED <<service, offset, logs, from, collected, handed, result>>

(* The two offsets are stored one after the other: another goroutine may   *)
(* read one of them new and the other one old.                             *)
StoreStdout(w) ==
  /\ pc[w] = "answered"
  /\ offset' = [offset EXCEPT ![HandleOf[w]]["stdout"] = logs[w].next["stdout"]]
  /\ Goto(w, "half")
  /\ UNCHANGED <<service, logs, from, collected, handed, result>>

(* The loop is left only by an answer that brings the last of the output.  *)
UntilLastOutput(w) ==
  /\ pc[w] = "half"
  /\ offset' = [offset EXCEPT ![HandleOf[w]]["stderr"] = logs[w].next["stderr"]]
  /\ collected' = [collected EXCEPT ![w] =
       [s \in Streams |-> @[s] \o Bytes(logs[w].asked[s], logs[w].next[s])]]
  /\ logs' = [logs EXCEPT ![w] = NoLogs]
  /\ Goto(w, IF logs[w].finished /\ logs[w].next # logs[w].asked THEN "info" ELSE "sleep")
  /\ UNCHANGED <<service, from, handed, result>>

(* Logs returns, Wait appends what it returned and leaves the loop when    *)
(* the process has finished.                                               *)
StoreStderr(w) ==
  /\ pc[w] = "half"
  /\ offset' = [offset EXCEPT ![HandleOf[w]]["stderr"] = logs[w].next["stderr"]]
  /\ collected' = [collected EXCEPT ![w] =
       [s \in Streams |-> @[s] \o Bytes(logs[w].asked[s], logs[w].next[s])]]
  /\ logs' = [logs EXCEPT ![w] = NoLogs]
  /\ Goto(w, IF logs[w].finished THEN "info" ELSE "sleep")
  /\ UNCHANGED <<service, from, handed, result>>

(* The sleep of 100 milliseconds ends, by itself or with the context.      *)
Wake(w) ==
  /\ pc[w] = "sleep"
  /\ Goto(w, "ask")
  /\ UNCHANGED <<service, offset, logs, from, collected, handed, result>>

SleepCancelled(w) ==
  /\ pc[w] = "sleep"
  /\ Fail(w)
  /\ UNCHANGED offset

(* The exit code of the result: no code counts as 0.                       *)
ExitCode == IF info.code = "nil" THEN "zero" ELSE info.code

Reason ==
  CASE info.termination = "oom"    -> "oom_killed"
    [] info.termination = "signal" -> "signal"
    [] OTHER -> IF ExitCode = "zero" THEN "completed" ELSE "exit_nonzero"

(* Success taken from the termination, not from the exit code.             *)
InfoAlwaysGood(w) ==
  /\ pc[w] = "info"
  /\ result' = [result EXCEPT ![w] =
       [success |-> info.termination = "nil", reason |-> Reason]]
  /\ given' = Added(given, w)
  /\ Goto(w, "done")
  /\ UNCHANGED <<service, offset, logs, from, collected, dropped>>

(* Info tells how the process ended, and Wait returns its result.          *)
InfoSucceeds(w) ==
  /\ pc[w] = "info"
  /\ result' = [result EXCEPT ![w] = [success |-> ExitCode = "zero", reason |-> Reason]]
  /\ given' = Added(given, w)
  /\ Goto(w, "done")
  /\ UNCHANGED <<service, offset, logs, from, collected, dropped>>

InfoFails(w) ==
  /\ pc[w] = "info"
  /\ Fail(w)
  /\ UNCHANGED offset

-----------------------------------------------------------------------------
(* What a Wait does as long as nothing fails.                              *)
Polling(w) ==
  \/ AskStdout(w) \/ AskStderr(w) \/ StoreStdout(w) \/ StoreStderr(w)
  \/ Wake(w) \/ InfoSucceeds(w)
  \/ \E stdout \in 0 .. produced["stdout"], stderr \in 0 .. produced["stderr"] :
       Answer(w, [s \in Streams |-> IF s = "stdout" THEN stdout ELSE stderr])

Failing(w) ==
  StartFails(w) \/ LogsFails(w) \/ SleepCancelled(w) \/ InfoFails(w)

Next ==
  \/ \E s \in Streams : Write(s)
  \/ \E how \in Told : End(how)
  \/ \E w \in Waiters :
       \/ Run(w) \/ StartSucceeds(w) \/ Wait(w)
       \/ Polling(w) \/ Failing(w)

Spec == Init /\ [][Next]_vars

(* Goroutines run and the service answers; nothing is assumed of the       *)
(* process.                                                                *)
FairSpec == Spec /\ \A w \in Waiters : WF_vars(Polling(w))

-----------------------------------------------------------------------------
(* Properties.                                                             *)

(* What Wait returns is true (sandbox.go:888-934, README.md:109).  The     *)
(* process has ended.  Success is denied only if it ended with a code      *)
(* other than 0, and the reason is "completed" only if it was not killed   *)
(* either.  Success alone does not say that much: of a process that was    *)
(* killed, and whose end is told without a code, it is true beside the     *)
(* reason "signal" or "oom_killed" (908-920).  And a Wait that nobody      *)
(* shares its handle with returns all output from where the handle stood,  *)
(* in order, every byte once, however the polls fell and whatever Waits on *)
(* other handles do.  On a new handle, as in README.md:97-109, that is all *)
(* output of the process; after a Wait that failed it is not (888-904).    *)
TrueResult ==
  \A w \in Waiters : pc[w] = "done" =>
    /\ Finished
    /\ ~result[w].success <=> info.code = "nonzero"
    /\ result[w].reason = "completed" <=>
         info.termination = "nil" /\ info.code # "nonzero"
    /\ Alone(w) =>
         \A s \in Streams : collected[w][s] = Bytes(from[w][s], produced[s])

(* The output that has been read through a handle: what Waits on it have   *)
(* returned, what those under way hold, and what those that failed lost.   *)
Seen(h, s) ==
  given[h][s] \cup dropped[h][s]
    \cup UNION {Output(w, s) : w \in {v \in Waiters : HandleOf[v] = h}}

(* Goroutines on one handle may get the same output twice, and each may    *)
(* miss some, but between them nothing is skipped: whatever the offsets    *)
(* have passed, one of their Waits has returned or still holds, or has     *)
(* dropped because it failed, and so it is with all of the output when one *)
(* of them is done (sandbox.go:868-876, 888-907).                          *)
BetweenThem ==
  \A h \in Handles, s \in Streams :
    /\ 1 .. offset[h][s] \subseteq Seen(h, s)
    /\ (\E w \in Waiters : HandleOf[w] = h /\ pc[w] = "done") =>
         1 .. produced[s] \subseteq Seen(h, s)

(* Once the process has ended, every Wait returns after one more poll, if  *)
(* the service answers (sandbox.go:890-904).                               *)
WaitReturns ==
  \A w \in Waiters :
    Finished /\ pc[w] \notin {"idle", "start"} ~> pc[w] \in {"done", "failed"}

-----------------------------------------------------------------------------
(* The inductive invariant behind these properties, by conjuncts.          *)

(* One goroutine starts the process; before that there is nothing to read. *)
NotStarted ==
  /\ \A w \in Waiters : pc[w] = "start" =>
       process = "none" /\ \A v \in Waiters : pc[v] = "start" => v = w
  /\ process = "none" =>
       /\ produced = Zero
       /\ \A w \in Waiters : pc[w] \in {"idle", "start", "failed"}

(* A handle's offsets lie within the output, and what they have passed has *)
(* been read.                                                              *)
Passed ==
  \A h \in Handles, s \in Streams :
    /\ offset[h][s] <= produced[s]
    /\ 1 .. offset[h][s] \subseteq Seen(h, s)

(* The offsets asked for were a handle's once, and have been passed.       *)
Asked(w) ==
  \A s \in Streams :
    /\ logs[w].asked[s] <= produced[s]
    /\ 1 .. logs[w].asked[s] \subseteq Seen(HandleOf[w], s)

Answered(w) ==
  pc[w] \in {"answered", "half"} =>
    \A s \in Streams :
      /\ logs[w].asked[s] <= logs[w].next[s]
      /\ logs[w].next[s] <= produced[s]
      /\ logs[w].finished => Finished /\ logs[w].next[s] = produced[s]

(* Who has left the loop has seen the end of the output.                   *)
Ended(w) ==
  pc[w] \in {"info", "done"} =>
    /\ Finished
    /\ \A s \in Streams : 1 .. produced[s] \subseteq Seen(HandleOf[w], s)

(* How far the output that w has put together goes.                        *)
Reached(w, s) ==
  IF pc[w] = "half" THEN logs[w].asked[s] ELSE offset[HandleOf[w]][s]

(* Nobody else moves the offsets of a goroutine that is alone.             *)
Collected(w) ==
  Alone(w) => \A s \in Streams :
    /\ pc[w] \in {"asked", "answered"} \/ (pc[w] = "asking" /\ s = "stdout") =>
         logs[w].asked[s] = offset[HandleOf[w]][s]
    /\ pc[w] = "half" =>
         offset[HandleOf[w]][s] = IF s = "stdout" THEN logs[w].next[s] ELSE logs[w].asked[s]
    /\ pc[w] # "failed" \/ process = "none" =>
         /\ from[w][s] <= Reached(w, s)
         /\ collected[w][s] = Bytes(from[w][s], Reached(w, s))
    /\ pc[w] \in {"info", "done"} => offset[HandleOf[w]][s] = produced[s]

(* What a Wait has put together is handed on when it ends.                 *)
HandedOn(w) ==
  /\ pc[w] \in {"idle", "start", "failed"} => collected[w] = Nothing
  /\ pc[w] = "done" => \A s \in Streams : Output(w, s) \subseteq given[HandleOf[w]][s]

Truthful(w) ==
  pc[w] = "done" => result[w] = [success |-> ExitCode = "zero", reason |-> Reason]

Local(w) ==
  /\ Asked(w) /\ Answered(w) /\ Ended(w)
  /\ Collected(w) /\ HandedOn(w) /\ Truthful(w)

IInv == TypeOK /\ NotStarted /\ Passed /\ \A w \in Waiters : Local(w)
=============================================================================
