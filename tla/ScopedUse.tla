----------------------------- MODULE ScopedUse -----------------------------
(***************************************************************************)
(* What Client.WithSandbox promises, without contexts, requests and time:  *)
(* a sandbox for as long as a callback runs, which afterwards is gone or   *)
(* is reported not to be.  A callback that panics gets less: its sandbox   *)
(* may stay behind, and the caller sees the panic and nothing else.        *)
(***************************************************************************)
VARIABLES
  stage,   \* how far the use of the sandbox is
  sandbox, \* whether it is there
  report   \* what the caller is told has failed

vars == <<stage, sandbox, report>>

Init ==
  /\ stage = "before"
  /\ sandbox = "gone"
  /\ report = {}

-----------------------------------------------------------------------------
Open ==
  /\ stage = "before" /\ stage' = "open"
  /\ sandbox' = "present"
  /\ UNCHANGED report

(* A creation that fails may leave a sandbox that nobody has a handle for. *)
Fail ==
  /\ stage = "before" /\ stage' = "over"
  /\ sandbox' \in {"present", "gone"}
  /\ report' = {"create"}

(* The callback returns; it may have destroyed the sandbox.                *)
Leave ==
  /\ stage = "open" /\ stage' = "closing"
  /\ sandbox' \in {sandbox, "gone"}
  /\ report' \in {{}, {"callback"}}

(* The callback panics.                                                    *)
Panic ==
  /\ stage = "open" /\ stage' = "unwinding"
  /\ sandbox' \in {sandbox, "gone"}
  /\ report' = {"panic"}

Vanish ==
  /\ stage \in {"closing", "unwinding"} /\ sandbox' = "gone"
  /\ UNCHANGED <<stage, report>>

(* A sandbox that is not known to be gone is reported, besides what was    *)
(* reported before.                                                        *)
Close ==
  /\ stage = "closing" /\ stage' = "over"
  /\ \/ sandbox = "gone" /\ UNCHANGED report
     \/ report' = report \cup {"destroy"}
  /\ UNCHANGED sandbox

(* The panic goes on, whatever became of the sandbox.                      *)
GoOn ==
  /\ stage = "unwinding" /\ stage' = "over"
  /\ UNCHANGED <<sandbox, report>>

Next == Open \/ Fail \/ Leave \/ Panic \/ Vanish \/ Close \/ GoOn

Spec == Init /\ [][Next]_vars
=============================================================================
