----------------------------- MODULE AtMostOnce -----------------------------
(***************************************************************************)
(* What a call of the SDK promises its caller, with neither network nor    *)
(* retries: an operation is performed at most once for all the calls that  *)
(* stand for it, a call that returned success was performed, a call the    *)
(* service refused is never performed, and a call that returned an error   *)
(* leaves the caller not knowing: it may have been performed before the    *)
(* return or may still be performed after it.                              *)
(*                                                                         *)
(* Calls declared repeatable (reads, GetOrCreateSandbox without a key,     *)
(* Resume) are exempt from the "once": the SDK relies on the service       *)
(* making their repetition harmless.                                       *)
(***************************************************************************)
EXTENDS Integers

CONSTANTS Calls,   \* invocations of the SDK
          Ops      \* the operations they stand for

VARIABLES phase,      \* phase[c]: where call c is
          target,     \* target[c]: the operation call c stands for
          repeatable, \* the calls that may be performed again
          performed   \* performed[o]: how many times o took effect

vars == <<phase, target, repeatable, performed>>

Phases == {"idle", "pending", "ok", "error", "refused"}

TypeOK ==
  /\ phase \in [Calls -> Phases]
  /\ target \in [Calls -> Ops]
  /\ repeatable \subseteq Calls
  /\ performed \in [Ops -> Nat]

Init ==
  /\ phase = [c \in Calls |-> "idle"]
  /\ target \in [Calls -> Ops]
  /\ repeatable = {}
  /\ performed = [o \in Ops |-> 0]

Invoke(c) ==
  /\ phase[c] = "idle"
  /\ phase' = [phase EXCEPT ![c] = "pending"]
  /\ \E o \in Ops : target' = [target EXCEPT ![c] = o]
  /\ repeatable' \in {repeatable, repeatable \cup {c}}
  /\ UNCHANGED performed

(* The effect happens while the call is pending, or after it returned an   *)
(* error: a request on the wire cannot be recalled.                        *)
Perform(c) ==
  /\ phase[c] \notin {"idle", "refused"}
  /\ performed[target[c]] = 0 \/ c \in repeatable
  /\ performed' = [performed EXCEPT ![target[c]] = @ + 1]
  /\ UNCHANGED <<phase, target, repeatable>>

ReturnOk(c) ==
  /\ phase[c] = "pending"
  /\ performed[target[c]] > 0
  /\ phase' = [phase EXCEPT ![c] = "ok"]
  /\ UNCHANGED <<target, repeatable, performed>>

ReturnError(c) ==
  /\ phase[c] = "pending"
  /\ phase' = [phase EXCEPT ![c] = "error"]
  /\ UNCHANGED <<target, repeatable, performed>>

(* An error that proves that nothing was done.                             *)
ReturnRefused(c) ==
  /\ phase[c] = "pending"
  /\ performed[target[c]] = 0
  /\ phase' = [phase EXCEPT ![c] = "refused"]
  /\ UNCHANGED <<target, repeatable, performed>>

Next ==
  \E c \in Calls :
    Invoke(c) \/ Perform(c) \/ ReturnOk(c) \/ ReturnError(c) \/ ReturnRefused(c)

Spec == Init /\ [][Next]_vars
=============================================================================
