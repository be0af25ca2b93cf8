---------------------------- MODULE WithSandbox ----------------------------
(***************************************************************************)
(* Client.WithSandbox of sandbox.go: create a sandbox, run the callback,   *)
(* and destroy the sandbox in a deferred function, whether the callback    *)
(* returns or panics, under a context that is cut loose from the caller's  *)
(* and ends 30 seconds later.                                              *)
(*                                                                         *)
(* The destruction is the loop of Destroy, on its variables: of that       *)
(* module's specification only Start is replaced, by one with the detached *)
(* context, so that CtxEnds plays no part.  Time counts from the start of  *)
(* the destruction: how long the creation and the callback take makes no   *)
(* difference to it.                                                       *)
(***************************************************************************)
EXTENDS Destroy

VARIABLES
  phase,     \* where WithSandbox is
  cancelled, \* the caller's context is done
  callback,  \* how the callback ended
  err        \* the errors joined in the named result

ownVars     == <<phase, cancelled, callback, err>>
sandboxVars == <<ownVars, vars>>

CleanupTime == 30000

Ends     == {"done", "panicked"}
Failures == {"create", "callback", "destroy"}

SandboxTypeOK ==
  /\ TypeOK
  /\ phase \in {"create", "callback", "deferred", "cleanup"} \cup Ends
  /\ cancelled \in BOOLEAN
  /\ callback \in {"none", "nil", "error", "panic"}
  /\ err \subseteq Failures

SandboxInit ==
  /\ Init /\ remote = "gone"
  /\ phase = "create"
  /\ cancelled = FALSE
  /\ callback = "none"
  /\ err = {}

-----------------------------------------------------------------------------
CreateSucceeds ==
  /\ phase = "create"
  /\ phase' = "callback"
  /\ remote' = "present"
  /\ UNCHANGED <<cancelled, callback, err, pc, ctxEnd, now, attempts, inner,
                 coded, transports, reply, wake, result, sent, notBefore>>

(* CreateSandbox returned an error, possibly after the service had made    *)
(* the sandbox: there is no handle to destroy it by.                       *)
CreateFails ==
  /\ phase = "create"
  /\ phase' = "done"
  /\ err' = {"create"}
  /\ remote' \in {"gone", "present"}
  /\ UNCHANGED <<cancelled, callback, pc, ctxEnd, now, attempts, inner,
                 coded, transports, reply, wake, result, sent, notBefore>>

(* The callback ends; meanwhile the sandbox may have come to its end, by   *)
(* its lifetime or by the callback's own Destroy.                          *)
CallbackEnds(outcome) ==
  /\ phase = "callback"
  /\ phase' = "deferred"
  /\ callback' = outcome
  /\ err' = IF outcome = "error" THEN {"callback"} ELSE {}
  /\ remote' \in {remote, "gone"}
  /\ UNCHANGED <<cancelled, pc, ctxEnd, now, attempts, inner, coded,
                 transports, reply, wake, result, sent, notBefore>>

(* CleanupStart under the caller's own context, and without a timeout.     *)
AttachedStart ==
  /\ phase = "deferred"
  /\ phase' = "cleanup"
  /\ Start(IF cancelled THEN 0 ELSE CleanupTime)
  /\ UNCHANGED <<cancelled, callback, err>>

UntimedStart ==
  /\ phase = "deferred"
  /\ phase' = "cleanup"
  /\ Start(1000000)
  /\ UNCHANGED <<cancelled, callback, err>>

(* The deferred function calls Destroy under context.WithTimeout of        *)
(* context.WithoutCancel(ctx).                                             *)
CleanupStart ==
  /\ phase = "deferred"
  /\ phase' = "cleanup"
  /\ Start(CleanupTime)
  /\ UNCHANGED <<cancelled, callback, err>>

CleanupStep ==
  /\ phase = "cleanup"
  /\ DestroyStep
  /\ UNCHANGED ownVars

(* Finish that keeps one error only, drops destroyErr when the callback    *)
(* succeeded, or joins the result whatever it is.                          *)
FinishOverwriting ==
  /\ phase = "cleanup" /\ pc = "returned"
  /\ err' = IF result = "nil" THEN err ELSE {"destroy"}
  /\ phase' = IF callback = "panic" THEN "panicked" ELSE "done"
  /\ UNCHANGED <<cancelled, callback, vars>>

FinishIgnoring ==
  /\ phase = "cleanup" /\ pc = "returned"
  /\ err' = IF result = "nil" \/ err = {} THEN err ELSE err \cup {"destroy"}
  /\ phase' = IF callback = "panic" THEN "panicked" ELSE "done"
  /\ UNCHANGED <<cancelled, callback, vars>>

FinishJoiningResult ==
  /\ phase = "cleanup" /\ pc = "returned"
  /\ err' = err \cup {result}
  /\ phase' = IF callback = "panic" THEN "panicked" ELSE "done"
  /\ UNCHANGED <<cancelled, callback, vars>>

(* The deferred function joins destroyErr to the result.  After a panic    *)
(* the panic goes on, and the result is lost: see Report.                  *)
Finish ==
  /\ phase = "cleanup" /\ pc = "returned"
  /\ err' = IF result = "nil" THEN err ELSE err \cup {"destroy"}
  /\ phase' = IF callback = "panic" THEN "panicked" ELSE "done"
  /\ UNCHANGED <<cancelled, callback, vars>>

(* The caller's context ends, at any time.                                 *)
Cancel ==
  /\ phase \notin Ends
  /\ ~cancelled
  /\ cancelled' = TRUE
  /\ UNCHANGED <<phase, callback, err, vars>>

Ended == phase \in Ends /\ UNCHANGED sandboxVars

SandboxNext ==
  \/ CreateSucceeds \/ CreateFails
  \/ \E outcome \in {"nil", "error", "panic"} : CallbackEnds(outcome)
  \/ CleanupStart \/ CleanupStep \/ Finish
  \/ Cancel \/ Ended

SandboxSpec == SandboxInit /\ [][SandboxNext]_sandboxVars

-----------------------------------------------------------------------------
(* Properties.                                                             *)

(* WithSandbox returns nil only when the callback returned nil and the     *)
(* sandbox is gone: a sandbox left behind is always reported, also when    *)
(* the callback succeeded (sandbox.go:462-468).  Of a callback that panics *)
(* it says nothing: WithSandbox does not return then.                      *)
NoSilentLeak ==
  phase = "done" /\ err = {} => callback = "nil" /\ remote = "gone"

(* Neither error hides the other: the caller sees the callback's error and *)
(* the failure of the destruction (sandbox.go:463-464).                    *)
ErrorsKept ==
  phase = "done" =>
    /\ callback = "error" => "callback" \in err
    /\ callback # "none" /\ result # "nil" => "destroy" \in err

(* "a detached context with a 30-second cleanup deadline"                  *)
(* (sandbox.go:452-453): whatever the service and the network do, and      *)
(* although destroy itself would go on for 61 seconds and more, the        *)
(* cleanup ends with its context or one late wake-up after it.  By then at *)
(* least one DELETE has reached the wire, although the callback panicked   *)
(* or the caller's context ended long ago (sandbox.go:458-461).            *)
DetachedCleanup ==
  /\ now <= CleanupTime + MaxLateness
  /\ phase \in Ends /\ callback # "none" => sent > 0

(* The abstract specification: a sandbox that is there for the callback,   *)
(* and afterwards is gone or reported when the callback returned, with the *)
(* destruction, its attempts, sleeps and contexts out of sight.  A panic   *)
(* is all the caller sees of a callback that panics: that its sandbox was  *)
(* not destroyed is lost with the named result (sandbox.go:452-472).       *)
Stage ==
  CASE phase = "create"   -> "before"
    [] phase = "callback" -> "open"
    [] phase \in Ends     -> "over"
    [] OTHER              -> IF callback = "panic" THEN "unwinding" ELSE "closing"

Report == IF callback = "panic" THEN {"panic"} ELSE err

Scoped == INSTANCE ScopedUse WITH stage <- Stage, sandbox <- remote, report <- Report

ImplementsScopedUse == Scoped!Spec

(* The inductive invariant behind these properties, by conjuncts; the loop *)
(* of Destroy keeps its own.                                               *)

(* The destruction runs only in its phase.                                 *)
Sequenced ==
  /\ phase \in {"create", "callback"} => callback = "none" /\ pc = "idle"
  /\ phase = "deferred" => callback # "none" /\ pc = "idle"
  /\ phase = "cleanup" => callback # "none" /\ pc # "idle"
  /\ phase = "panicked" => callback = "panic"
  /\ phase = "done" => callback # "panic"
  /\ phase \in Ends => pc = IF callback = "none" THEN "idle" ELSE "returned"

(* The loop works under the detached context, and sleeps and answers only  *)
(* come before its end.                                                    *)
Clock ==
  /\ pc # "idle" => ctxEnd = CleanupTime
  /\ pc \in {"answered", "limited", "backoff"} => now < CleanupTime
  /\ now <= CleanupTime + MaxLateness

(* The first attempt starts at once and puts a DELETE on the wire.         *)
FirstDelete ==
  /\ pc = "top" => sent > 0 \/ (attempts = 0 /\ now = 0)
  /\ pc = "send" => sent > 0 \/ now = 0
  /\ pc \in {"answered", "limited", "backoff", "returned"} => sent > 0

OwnError == IF callback = "error" THEN {"callback"} ELSE {}

Joined ==
  /\ phase \in {"create", "callback", "deferred", "cleanup"} => err = OwnError
  /\ phase \in Ends =>
       err = IF callback = "none" THEN {"create"}
             ELSE OwnError \cup (IF result = "nil" THEN {} ELSE {"destroy"})

SandboxIInv ==
  SandboxTypeOK /\ IInv /\ Sequenced /\ Clock /\ FirstDelete /\ Joined
=============================================================================
