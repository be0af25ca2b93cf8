----------------------- MODULE PrivateRequestsProofs -----------------------
(***************************************************************************)
(* Proofs about PrivateRequests, for any number of calls and any times.    *)
(***************************************************************************)
EXTENDS PrivateRequests, TLAPS

(* The client that privateHTTPClient derives, with any limit of its own.   *)
LEMMA DerivedClient ==
  ASSUME NEW c \in HTTPClients, Usable(c)
  PROVE  /\ privateHTTPClient(c) \in Settings
         /\ Closed(privateHTTPClient(c))
         /\ privateHTTPClient(c).timeout > 0 /\ privateHTTPClient(c).timeout <= 25
         /\ c.timeout > 0 => privateHTTPClient(c).timeout <= c.timeout
<1>. DEFINE limit == IF c.timeout = 0 \/ c.timeout > 25 THEN 25 ELSE c.timeout
<1>1. c.timeout \in Nat
  BY ClientsAssumption
<1>2. privateHTTPClient(c) = [redirects |-> FALSE, pooled |-> FALSE, proxied |-> FALSE,
                              verifier |-> Verifier(c), timeout |-> limit]
  BY DEF privateHTTPClient
<1>3. /\ limit \in Nat /\ limit > 0 /\ limit <= 25
      /\ c.timeout > 0 => limit <= c.timeout
  BY <1>1
<1>4. Verifier(c) \in Verifiers \ {"nobody"}
  BY ClientsAssumption DEF Usable, Verifier, Verifiers, Transports
<1>. HIDE DEF limit
<1>. QED  BY <1>2, <1>3, <1>4 DEF Settings, Closed

(* The deadline of an invocation.                                          *)
LEMMA DeadlineBounds ==
  ASSUME NEW timeout \in Nat, NEW command \in Nat
  PROVE  /\ Deadline(timeout, command) \in Nat /\ Deadline(timeout, command) > 0
         /\ timeout > 0 => Deadline(timeout, command) <= timeout
         /\ \/ Deadline(timeout, command) <= 90
            \/ Deadline(timeout, command) <= command + 60
         /\ \/ Deadline(timeout, command) = timeout
            \/ Deadline(timeout, command) >= command + 60
BY DEF Deadline

(* A call that a step leaves alone keeps its part of the invariant.        *)
LEMMA Unmoved ==
  ASSUME NEW c, Kept(c), UNCHANGED endpoint,
         pc'[c] = pc[c], plan'[c] = plan[c], home'[c] = home[c], stray'[c] = stray[c],
         answer'[c] = answer[c], took'[c] = took[c], outcome'[c] = outcome[c]
  PROVE  Kept(c)'
<1>1. Planned(c)'
  BY DEF Kept, Planned, Sealed, Timed, Patient
<1>2. Counted(c)'
  BY DEF Kept, Counted, Sealed
<1>3. Measured(c)'
  BY DEF Kept, Measured
<1>4. Silent(c)'
  BY DEF Kept, Silent
<1>. QED  BY <1>1, <1>2, <1>3, <1>4 DEF Kept

LEMMA InitIInv == Init => IInv
<1>. SUFFICES ASSUME Init PROVE IInv
  OBVIOUS
<1>1. NoPlan \in Plans
  BY DEF NoPlan, Plans, Settings, Origins, Verifiers
<1>2. TypeOK
  BY <1>1 DEF Init, TypeOK, Outcomes
<1>3. SealedGrants
  BY DEF Init, SealedGrants
<1>4. ASSUME NEW c \in Private PROVE Kept(c)
  BY <1>4 DEF Private, Calls, Init, Kept, Planned, Counted, Measured, Silent, NoPlan
<1>. QED  BY <1>2, <1>3, <1>4 DEF IInv

(* The application changes its client: no call notices.                    *)
LEMMA ConfigureKeeps ==
  ASSUME IInv, NEW new \in HTTPClients, Configure(new)
  PROVE  IInv'
<1>1. TypeOK'
  BY DEF Configure, IInv, TypeOK
<1>2. SealedGrants'
  BY DEF Configure, IInv, SealedGrants, Sealed, Timed
<1>3. ASSUME NEW c \in Private PROVE Kept(c)'
  BY <1>3, Unmoved DEF Configure, IInv
<1>. QED  BY <1>1, <1>2, <1>3 DEF IInv

LEMMA RefuseCallKeeps ==
  ASSUME IInv, NEW c \in Calls, RefuseCall(c)
  PROVE  IInv'
<1>1. TypeOK'
  BY DEF RefuseCall, Goto, IInv, TypeOK, Outcomes
<1>2. SealedGrants'
  BY DEF RefuseCall, IInv, SealedGrants, Sealed, Timed
<1>3. ASSUME NEW d \in Private, d # c PROVE Kept(d)'
  BY <1>3, Unmoved DEF RefuseCall, Goto, IInv, TypeOK, Private, Calls
<1>4. ASSUME c \in Private PROVE Kept(c)'
  <2>1. pc'[c] = "done" /\ outcome'[c] = "refused"
    BY DEF RefuseCall, Goto, IInv, TypeOK
  <2>2. /\ plan'[c] = plan[c] /\ home'[c] = home[c] /\ stray'[c] = stray[c]
        /\ answer'[c] = answer[c] /\ took'[c] = took[c]
    BY DEF RefuseCall
  <2>3. /\ stray[c] = 0 /\ home[c] = 0 /\ took[c] = 0 /\ answer[c] = "none"
    BY <1>4 DEF RefuseCall, IInv, Kept, Counted
  <2>4. plan[c].timeout \in Nat /\ plan[c].command \in Nat
    BY DEF IInv, TypeOK, Plans
  <2>. QED  BY <2>1, <2>2, <2>3, <2>4 DEF Kept, Planned, Counted, Measured, Silent
<1>. QED  BY <1>1, <1>2, <1>3, <1>4 DEF IInv

(* A call begins with a plan; that of a private one is sealed.             *)
LEMMA BeginKeeps ==
  ASSUME IInv, NEW c \in Calls, NEW how \in Plans, Begin(c, how),
         c \in Private => Sealed(how) /\ Timed(how),
         c \in Requests => how.client.timeout <= 25,
         c \in Invocations => Patient(how)
  PROVE  IInv'
<1>1. TypeOK'
  BY DEF Begin, Goto, IInv, TypeOK
<1>2. SealedGrants'
  BY DEF Begin, IInv, SealedGrants, Sealed, Timed
<1>3. ASSUME NEW d \in Private, d # c PROVE Kept(d)'
  BY <1>3, Unmoved DEF Begin, Goto, IInv, TypeOK, Private, Calls
<1>4. ASSUME c \in Private PROVE Kept(c)'
  <2>1. pc[c] = "idle" /\ pc'[c] = "ready" /\ plan'[c] = how
    BY DEF Begin, Goto, IInv, TypeOK
  <2>2. /\ home'[c] = home[c] /\ stray'[c] = stray[c] /\ outcome'[c] = outcome[c]
        /\ answer'[c] = answer[c] /\ took'[c] = took[c] /\ endpoint' = endpoint
    BY DEF Begin
  <2>3. Counted(c)'
    BY <1>4, <2>1, <2>2 DEF IInv, Kept, Counted
  <2>4. Planned(c)'
    BY <1>4, <2>1, <2>2 DEF Planned, Sealed, Timed, Patient
  <2>. QED  BY <1>4, <2>1, <2>2, <2>3, <2>4 DEF IInv, Kept, Counted, Measured, Silent
<1>. QED  BY <1>1, <1>2, <1>3, <1>4 DEF IInv

LEMMA InvokeKeeps ==
  ASSUME IInv, NEW c \in Invocations, NEW command \in CommandTimes, Invoke(c, command)
  PROVE  IInv'
<1>. DEFINE derived == privateHTTPClient(client)
            deadline == Deadline(client.timeout, command)
            how == [client  |-> [derived EXCEPT !.timeout = deadline],
                    origin  |-> "endpoint",
                    timeout |-> client.timeout,
                    command |-> command]
<1>1. client \in HTTPClients /\ client.timeout \in Nat /\ command \in Nat
  BY TimesAssumption, ClientsAssumption DEF IInv, TypeOK
<1>2. derived \in Settings /\ Closed(derived)
  BY <1>1, DerivedClient DEF Invoke
<1>3. /\ deadline \in Nat /\ deadline > 0
      /\ client.timeout > 0 => deadline <= client.timeout
      /\ deadline <= 90 \/ deadline <= command + 60
      /\ deadline = client.timeout \/ deadline >= command + 60
  BY <1>1, DeadlineBounds
<1>4. endpoint = "protected"
  BY DEF Invoke, ValidEndpoint
<1>5. Begin(c, how)
  BY DEF Invoke
<1>. HIDE DEF derived, deadline
<1>6. how \in Plans
  BY <1>1, <1>2, <1>3 DEF Plans, Settings, Origins
<1>7. Sealed(how) /\ Timed(how) /\ Patient(how)
  BY <1>2, <1>3, <1>4 DEF Sealed, Closed, Timed, Patient, Settings
<1>8. c \in Calls /\ c \notin Requests
  BY CallsAssumption DEF Calls
<1>. QED  BY <1>5, <1>6, <1>7, <1>8, BeginKeeps

LEMMA RequestKeeps ==
  ASSUME IInv, NEW c \in Requests, Request(c)
  PROVE  IInv'
<1>1. PICK grant \in grants : Begin(c, grant)
  BY DEF Request
<1>2. grant \in Plans /\ Sealed(grant) /\ Timed(grant) /\ grant.client.timeout <= 25
  BY DEF IInv, TypeOK, SealedGrants
<1>3. c \in Calls /\ c \notin Invocations
  BY CallsAssumption DEF Calls
<1>. QED  BY <1>1, <1>2, <1>3, BeginKeeps

LEMMA IssueKeeps ==
  ASSUME IInv, NEW c \in Issuances, IssueConnectionGrant(c)
  PROVE  IInv'
<1>. DEFINE how == [client |-> Ordinary(client), origin |-> "endpoint",
                    timeout |-> client.timeout, command |-> 0]
<1>1. client.timeout \in Nat
  BY TimesAssumption, ClientsAssumption DEF IInv, TypeOK
<1>2. Verifier(client) \in Verifiers
  BY ClientsAssumption DEF IInv, TypeOK, Verifier, Verifiers, Transports
<1>3. how \in Plans
  BY <1>1, <1>2 DEF Ordinary, Plans, Settings, Origins
<1>4. c \in Calls /\ c \notin Private
  BY CallsAssumption DEF Calls, Private
<1>5. Begin(c, how)
  BY DEF IssueConnectionGrant
<1>. HIDE DEF how
<1>. QED  BY <1>3, <1>4, <1>5, BeginKeeps DEF Private

(* Sending is counted.                                                     *)
LEMMA SentTypes ==
  ASSUME TypeOK, NEW c \in Calls, NEW there \in Origins, Sent(c, there)
  PROVE  /\ home' \in [Calls -> Nat] /\ stray' \in [Calls -> Nat]
         /\ \A d \in Calls : d # c => home'[d] = home[d] /\ stray'[d] = stray[d]
         /\ there = "endpoint" => home'[c] = home[c] + 1 /\ stray'[c] = stray[c]
<1>1. CASE there = "endpoint"
  BY <1>1 DEF TypeOK, Sent
<1>2. CASE there = "elsewhere"
  BY <1>2 DEF TypeOK, Sent
<1>. QED  BY <1>1, <1>2 DEF Origins

LEMMA SendKeeps ==
  ASSUME IInv, NEW c \in Calls, NEW there \in Origins, Send(c, there)
  PROVE  IInv'
<1>0. /\ home' \in [Calls -> Nat] /\ stray' \in [Calls -> Nat]
      /\ \A d \in Calls : d # c => home'[d] = home[d] /\ stray'[d] = stray[d]
      /\ there = "endpoint" => home'[c] = home[c] + 1 /\ stray'[c] = stray[c]
  BY SentTypes DEF Send, IInv
<1>1. TypeOK'
  BY <1>0 DEF Send, Goto, IInv, TypeOK
<1>2. SealedGrants'
  BY DEF Send, IInv, SealedGrants, Sealed, Timed
<1>3. ASSUME NEW d \in Private, d # c PROVE Kept(d)'
  <2>1. d \in Calls
    BY DEF Private, Calls
  <2>. QED  BY <1>0, <1>3, <2>1, Unmoved DEF Send, Goto, IInv, TypeOK
<1>4. ASSUME c \in Private PROVE Kept(c)'
  <2>1. pc[c] = "ready" /\ pc'[c] = "waiting"
    BY DEF Send, Goto, IInv, TypeOK
  <2>2. /\ plan'[c] = plan[c] /\ outcome'[c] = outcome[c]
        /\ answer'[c] = answer[c] /\ took'[c] = took[c] /\ endpoint' = endpoint
    BY DEF Send
  <2>3. Kept(c) /\ Sealed(plan[c])
    BY <1>4, <2>1 DEF IInv, Kept, Planned
  <2>4. there = "endpoint"
    BY <2>3 DEF Send, Sealed, Closed
  <2>5. home'[c] = 1 /\ stray'[c] = 0
    BY <1>0, <2>1, <2>3, <2>4 DEF Kept, Counted, IInv, TypeOK
  <2>6. Counted(c)'
    BY <2>1, <2>2, <2>3, <2>5 DEF Kept, Counted
  <2>7. Planned(c)'
    BY <2>1, <2>2, <2>3 DEF Kept, Planned, Sealed, Timed, Patient
  <2>. QED  BY <2>1, <2>2, <2>3, <2>6, <2>7 DEF Kept, Counted, Measured, Silent
<1>. QED  BY <1>1, <1>2, <1>3, <1>4 DEF IInv

(* net/http sends nothing of a private call again.                         *)
LEMMA SendAgainKeeps ==
  ASSUME IInv, NEW c \in Calls, NEW there \in Origins, SendAgain(c, there)
  PROVE  IInv'
<1>0. /\ home' \in [Calls -> Nat] /\ stray' \in [Calls -> Nat]
      /\ \A d \in Calls : d # c => home'[d] = home[d] /\ stray'[d] = stray[d]
  BY SentTypes DEF SendAgain, IInv
<1>1. TypeOK'
  BY <1>0 DEF SendAgain, IInv, TypeOK
<1>2. SealedGrants'
  BY DEF SendAgain, IInv, SealedGrants, Sealed, Timed
<1>3. c \notin Private
  BY DEF SendAgain, IInv, Kept, Planned, Sealed, Closed
<1>4. ASSUME NEW d \in Private PROVE Kept(d)'
  <2>1. d \in Calls /\ d # c
    BY <1>3 DEF Private, Calls
  <2>. QED  BY <1>0, <2>1, Unmoved DEF SendAgain, IInv
<1>. QED  BY <1>1, <1>2, <1>4 DEF IInv

(* The exchange ends, before the timer or with it.                         *)
LEMMA ReturnsKeeps ==
  ASSUME IInv, NEW c \in Calls, NEW what \in Answers \cup {"expired", "broken"},
         NEW time \in Nat, Returns(c, what, time),
         plan[c].client.timeout > 0 => time <= plan[c].client.timeout,
         what = "expired" => time = plan[c].client.timeout
  PROVE  IInv'
<1>1. TypeOK'
  BY DEF Returns, Goto, IInv, TypeOK
<1>2. SealedGrants'
  BY DEF Returns, IInv, SealedGrants, Sealed, Timed
<1>3. ASSUME NEW d \in Private, d # c PROVE Kept(d)'
  BY <1>3, Unmoved DEF Returns, Goto, IInv, TypeOK, Private, Calls
<1>4. ASSUME c \in Private PROVE Kept(c)'
  <2>1. /\ pc[c] = "waiting" /\ pc'[c] = "answered"
        /\ answer'[c] = what /\ took'[c] = time
    BY DEF Returns, Goto, IInv, TypeOK
  <2>2. /\ plan'[c] = plan[c] /\ outcome'[c] = outcome[c] /\ endpoint' = endpoint
        /\ home'[c] = home[c] /\ stray'[c] = stray[c]
    BY DEF Returns
  <2>3. Kept(c) /\ Planned(c) /\ Timed(plan[c])
    BY <1>4, <2>1 DEF IInv, Kept, Planned
  <2>4. Counted(c)'
    BY <2>1, <2>2, <2>3 DEF Kept, Counted
  <2>5. Planned(c)'
    BY <2>1, <2>2, <2>3 DEF Planned, Sealed, Timed, Patient
  <2>6. plan[c].timeout \in Nat /\ plan[c].command \in Nat /\ plan[c].client.timeout \in Nat
    BY DEF IInv, TypeOK, Plans, Settings
  <2>7. time <= plan[c].client.timeout
    BY <2>3 DEF Timed
  <2>8. plan[c].timeout > 0 => time <= plan[c].timeout
    BY <2>3, <2>6, <2>7 DEF Timed
  <2>9. c \in Requests => time <= 25
    BY <2>1, <2>3, <2>6, <2>7 DEF Planned
  <2>10. c \in Invocations =>
           /\ time <= 90 \/ time <= plan[c].command + 60
           /\ what = "expired" => time = plan[c].timeout \/ time >= plan[c].command + 60
    BY <2>1, <2>3, <2>6, <2>7 DEF Planned, Patient
  <2>11. Measured(c)'
    BY <2>1, <2>2, <2>8, <2>9, <2>10 DEF Measured
  <2>12. Silent(c)'
    BY <2>1, <2>2, <2>3 DEF Kept, Counted, Silent
  <2>. QED  BY <2>4, <2>5, <2>11, <2>12 DEF Kept
<1>. QED  BY <1>1, <1>2, <1>3, <1>4 DEF IInv

(* The call returns; an invocation with an answer that has been looked at. *)
LEMMA ReturnKeeps ==
  ASSUME IInv, NEW c \in Private, pc[c] = "answered",
         NEW what \in Outcomes \ {"none", "refused"}, Return(c, what),
         c \in Invocations /\ what = "ok" => answer[c] = "good"
  PROVE  IInv'
<1>0. c \in Calls
  BY DEF Private, Calls
<1>1. TypeOK'
  BY <1>0 DEF Return, Goto, IInv, TypeOK
<1>2. SealedGrants'
  BY DEF Return, IInv, SealedGrants, Sealed, Timed
<1>3. ASSUME NEW d \in Private, d # c PROVE Kept(d)'
  BY <1>3, Unmoved DEF Return, Goto, IInv, TypeOK, Private, Calls
<1>4. Kept(c)'
  <2>1. pc'[c] = "done" /\ outcome'[c] = what
    BY <1>0 DEF Return, Goto, IInv, TypeOK
  <2>2. /\ plan'[c] = plan[c] /\ answer'[c] = answer[c] /\ took'[c] = took[c]
        /\ home'[c] = home[c] /\ stray'[c] = stray[c] /\ endpoint' = endpoint
    BY DEF Return
  <2>3. Kept(c) /\ Sealed(plan[c])
    BY DEF IInv, Kept, Planned
  <2>4. Counted(c)'
    BY <2>1, <2>2, <2>3 DEF Kept, Counted, Sealed
  <2>5. Measured(c)'
    BY <2>1, <2>2, <2>3 DEF Kept, Measured
  <2>. QED  BY <2>1, <2>2, <2>4, <2>5 DEF Kept, Planned, Silent
<1>. QED  BY <1>1, <1>2, <1>3, <1>4 DEF IInv

LEMMA HandleInvocationKeeps ==
  ASSUME IInv, NEW c \in Calls, HandleInvocation(c)
  PROVE  IInv'
<1>1. PICK what \in Outcomes \ {"none", "refused"} :
        Return(c, what) /\ (what = "ok" => answer[c] = "good")
  BY DEF HandleInvocation, Outcomes, contains
<1>. QED  BY <1>1, ReturnKeeps DEF HandleInvocation, Private

LEMMA HandleRequestKeeps ==
  ASSUME IInv, NEW c \in Calls, HandleRequest(c)
  PROVE  IInv'
<1>1. PICK what \in Outcomes \ {"none", "refused"} : Return(c, what)
  BY DEF HandleRequest, Outcomes
<1>2. c \in Private /\ c \notin Invocations
  BY CallsAssumption DEF HandleRequest, Private
<1>. QED  BY <1>1, <1>2, ReturnKeeps DEF HandleRequest

(* A grant that is held has been checked.                                  *)
LEMMA HandleIssuanceKeeps ==
  ASSUME IInv, NEW c \in Issuances, NEW origin \in Origins, HandleIssuance(c, origin)
  PROVE  IInv'
<1>1. c \in Calls /\ c \notin Private
  BY CallsAssumption DEF Calls, Private
<1>2. ASSUME Accepted(origin)
      PROVE  /\ newConnectionGrant(origin) \in Plans
             /\ Sealed(newConnectionGrant(origin)) /\ Timed(newConnectionGrant(origin))
             /\ newConnectionGrant(origin).client.timeout <= 25
  <2>. DEFINE derived == privateHTTPClient(client)
  <2>1. client \in HTTPClients /\ client.timeout \in Nat
    BY TimesAssumption, ClientsAssumption DEF IInv, TypeOK
  <2>2. /\ derived \in Settings /\ Closed(derived)
        /\ derived.timeout > 0 /\ derived.timeout <= 25
        /\ client.timeout > 0 => derived.timeout <= client.timeout
    BY <1>2, <2>1, DerivedClient DEF Accepted
  <2>. HIDE DEF derived
  <2>3. newConnectionGrant(origin) = [client |-> derived, origin |-> "endpoint",
                                      timeout |-> client.timeout, command |-> 0]
    BY <1>2 DEF newConnectionGrant, Accepted, derived
  <2>. QED
    BY <1>2, <2>1, <2>2, <2>3 DEF Plans, Origins, Sealed, Closed, Timed, Accepted, ValidEndpoint
<1>3. TypeOK'
  BY <1>1, <1>2 DEF HandleIssuance, Goto, IInv, TypeOK, Outcomes
<1>4. SealedGrants'
  <2>1. CASE answer[c] = "good" /\ Accepted(origin)
    BY <1>2, <2>1 DEF HandleIssuance, SealedGrants, Sealed, Timed
  <2>2. CASE ~(answer[c] = "good" /\ Accepted(origin))
    BY <2>2 DEF HandleIssuance, IInv, SealedGrants, Sealed, Timed
  <2>. QED  BY <2>1, <2>2
<1>5. ASSUME NEW d \in Private PROVE Kept(d)'
  <2>1. d \in Calls /\ d # c
    BY <1>1 DEF Private, Calls
  <2>2. pc'[d] = pc[d] /\ outcome'[d] = outcome[d]
    BY <2>1 DEF HandleIssuance, Goto, IInv, TypeOK
  <2>. QED  BY <2>1, <2>2, Unmoved DEF HandleIssuance, IInv
<1>. QED  BY <1>3, <1>4, <1>5 DEF IInv

(* IInv is inductive: no answer, no resend and no change of the client     *)
(* breaks it.                                                              *)
LEMMA NextIInv == IInv /\ [Next]_vars => IInv'
<1>. SUFFICES ASSUME IInv, [Next]_vars PROVE IInv'
  OBVIOUS
<1>1. ASSUME NEW new \in HTTPClients, Configure(new) PROVE IInv'
  BY <1>1, ConfigureKeeps
<1>2. ASSUME NEW c \in Invocations, NEW command \in CommandTimes, Invoke(c, command) PROVE IInv'
  BY <1>2, InvokeKeeps
<1>3. ASSUME NEW c \in Requests, Request(c) PROVE IInv'
  BY <1>3, RequestKeeps
<1>4. ASSUME NEW c \in Issuances, IssueConnectionGrant(c) PROVE IInv'
  BY <1>4, IssueKeeps
<1>5. ASSUME NEW c \in Issuances, NEW origin \in Origins, HandleIssuance(c, origin) PROVE IInv'
  BY <1>5, HandleIssuanceKeeps
<1>6. ASSUME NEW c \in Calls, RefuseCall(c) PROVE IInv'
  BY <1>6, RefuseCallKeeps
<1>7. ASSUME NEW c \in Calls, Expire(c) PROVE IInv'
  <2>1. plan[c].client.timeout \in Nat
    BY DEF IInv, TypeOK, Plans, Settings
  <2>. QED  BY <1>7, <2>1, ReturnsKeeps DEF Expire
<1>8. ASSUME NEW c \in Calls, NEW there \in Origins, Send(c, there) PROVE IInv'
  BY <1>8, SendKeeps
<1>9. ASSUME NEW c \in Calls, NEW there \in Origins, SendAgain(c, there) PROVE IInv'
  BY <1>9, SendAgainKeeps
<1>10. ASSUME NEW c \in Calls, NEW what \in Answers \cup {"broken"}, NEW time \in Durations,
              Answer(c, what, time)
       PROVE  IInv'
  <2>1. time \in Nat /\ plan[c].client.timeout \in Nat
    BY TimesAssumption DEF IInv, TypeOK, Plans, Settings
  <2>2. what # "expired"
    BY DEF Answers
  <2>. QED  BY <1>10, <2>1, <2>2, ReturnsKeeps DEF Answer
<1>11. ASSUME NEW c \in Calls, HandleInvocation(c) PROVE IInv'
  BY <1>11, HandleInvocationKeeps
<1>12. ASSUME NEW c \in Calls, HandleRequest(c) PROVE IInv'
  BY <1>12, HandleRequestKeeps
<1>13. ASSUME UNCHANGED vars PROVE IInv'
  <2>1. TypeOK'
    BY <1>13 DEF vars, IInv, TypeOK
  <2>2. SealedGrants'
    BY <1>13 DEF vars, IInv, SealedGrants, Sealed, Timed
  <2>3. ASSUME NEW c \in Private PROVE Kept(c)'
    BY <1>13, Unmoved DEF vars, IInv
  <2>. QED  BY <2>1, <2>2, <2>3 DEF IInv
<1>. QED
  BY <1>1, <1>2, <1>3, <1>4, <1>5, <1>6, <1>7, <1>8, <1>9, <1>10, <1>11, <1>12, <1>13
  DEF Next

(* IInv holds of every reachable state.                                    *)
THEOREM Invariant == Spec => []IInv
BY InitIInv, NextIInv, PTL DEF Spec

(* The state keeps its types; a grant is always a plan with a client of    *)
(* its own.                                                                *)
THEOREM TypeCorrect == Spec => []TypeOK
<1>1. IInv => TypeOK
  BY DEF IInv
<1>. QED  BY <1>1, Invariant, PTL

(* A secret is sent at most once, and to the endpoint only, whatever       *)
(* net/http and the service do and however often the application changes   *)
(* its client (connections.go:200-201), over a connection that net/http    *)
(* verifies, or the application's own hook.                                *)
THEOREM SentOnce == Spec => []SentOnceHome
<1>1. IInv => SentOnceHome
  <2>. SUFFICES ASSUME IInv, NEW c \in Invocations \cup Requests
                PROVE  /\ home[c] <= 1 /\ stray[c] = 0
                       /\ home[c] = 1 =>
                            endpoint = "protected" /\ plan[c].client.verifier # "nobody"
                       /\ outcome[c] = "refused" => home[c] = 0
    BY DEF SentOnceHome
  <2>1. Planned(c) /\ Counted(c)
    BY DEF IInv, Kept, Private
  <2>2. pc[c] \in {"idle", "ready", "waiting", "answered", "done"}
    BY DEF IInv, TypeOK, Calls
  <2>. QED  BY <2>1, <2>2 DEF Planned, Counted, Sealed, Closed
<1>. QED  BY <1>1, Invariant, PTL

(* No private value comes back from an invocation.                         *)
THEOREM NoEcho == Spec => []NothingEchoed
<1>1. IInv => NothingEchoed
  BY DEF IInv, Kept, Private, Silent, NothingEchoed
<1>. QED  BY <1>1, Invariant, PTL

(* A private call ends in time, and an invocation is not cut off while its *)
(* command may still be running.                                           *)
THEOREM InTime == Spec => []EndsInTime
<1>1. IInv => EndsInTime
  BY DEF IInv, Kept, Private, Measured, EndsInTime
<1>. QED  BY <1>1, Invariant, PTL
=============================================================================
