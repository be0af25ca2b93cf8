---------------------------- MODULE Invocations ----------------------------
(***************************************************************************)
(* Client.Function, Function.Invoke, Function.InvokeWith and               *)
(* Client.RunOnce of sandbox.go, with the private values of                *)
(* invocation_secrets.go.  A Function is declared once, from collections   *)
(* that stay the caller's, and invoked by several goroutines while the     *)
(* caller goes on using them.                                              *)
(*                                                                         *)
(* Slices and maps are references, which is what this module is about: a   *)
(* field of some options is nil or the name of the owner of the collection *)
(* it refers to, and the memory says what that holds.  "allow" stands for  *)
(* the lists that make up a network policy, "env" also for Metadata,       *)
(* "keys" for the RequiredKeys of the bundle references in "bundles", and  *)
(* cwd for the scalars that an invocation may replace.  User is left out:  *)
(* RunOnce sends it nowhere.                                               *)
(***************************************************************************)
EXTENDS Integers

CONSTANTS
  Invokers,      \* goroutines
  Contents,      \* what collections hold
  Empty,         \* a collection without elements
  Nil,           \* no collection, no value
  Declarations,  \* what callers declare
  Dirs,          \* working directories
  Overriding     \* what invocations replace

Names  == {"argv", "allow", "secrets", "bundles", "keys", "env", "values"}
Slices == {"argv", "allow", "secrets", "bundles", "keys"}
Owners == {"caller", "function", "private"} \cup Invokers

ASSUME ConstantsAssumption ==
  /\ Empty \in Contents /\ Nil \notin Contents /\ Nil \notin Owners
  /\ Invokers \cap {"caller", "function", "private"} = {}
  /\ Nil \notin Dirs
  /\ Declarations \subseteq [refs : [Names -> Contents \cup {Nil}],
                             cwd : Dirs \cup {Nil}, sni : BOOLEAN]
  /\ \A d \in Declarations :
       /\ d.refs["values"] = Nil
       /\ d.refs["bundles"] \in {Nil, Empty} => d.refs["keys"] = Nil

(* What an invocation may replace.  cwd is a pointer: "omitted", or Nil    *)
(* for an empty string, or a directory.                                    *)
Overrides == [env : BOOLEAN, cwd : Dirs \cup {Nil, "omitted"}, private : BOOLEAN, key : BOOLEAN]

(* References, and options that are made of them.                          *)
Refs    == [Names -> Owners \cup {Nil}]
Options == [refs : Refs, cwd : Dirs \cup {Nil}, sni : BOOLEAN, key : BOOLEAN]

ASSUME NilAssumption == Nil \notin Options

Maybe  == Contents \cup {Nil}
Asked  == [env : Maybe, cwd : Dirs \cup {Nil, "omitted"}, values : Maybe, key : BOOLEAN]

(* Bodies and requests.                                                    *)
Bodies ==
  [argv : Maybe, env : Maybe, cwd : Dirs \cup {Nil}, invocation_secrets : Maybe,
   secrets : [named : Contents, bundles : Contents, keys : Contents] \cup {Nil},
   network : [allow : Contents, verify_sni : BOOLEAN] \cup {Nil}]

Requests == [route : {"/v1/run", "/v1/run/ephemeral"}, key : BOOLEAN, body : Bodies]

ASSUME OverridingAssumption ==
  Overriding \subseteq Overrides /\ Nil # "omitted" /\ "omitted" \notin Dirs

VARIABLES
  memory,    \* what the collection of each owner under each name holds
  function,  \* the Function, or Nil
  held,      \* the InvocationSecrets, or Nil
  pc,        \* where each goroutine is in RunOnce
  options,   \* its options
  sent,      \* the request it sent last
  declared,  \* what was declared
  given,     \* what InvocationSecrets were made from
  asked      \* the overrides of its invocation, when it was called

vars == <<memory, function, held, pc, options, sent, declared, given, asked>>

TypeOK ==
  /\ memory \in [Owners -> [Names -> Contents]]
  /\ function = Nil \/ function \in Options
  /\ held \in {Nil, "private"}
  /\ pc \in [Invokers -> {"idle", "ready", "sent", "refused"}]
  /\ options \in [Invokers -> Options \cup {Nil}]
  /\ asked \in [Invokers -> Asked \cup {Nil}]
  /\ sent \in [Invokers -> Requests \cup {Nil}]
  /\ \A i \in Invokers : pc[i] = "ready" =>
       /\ options[i] \in Options
       /\ \A n \in Names : options[i].refs[n] \in {Nil, IF n = "values" THEN "private" ELSE i}

(* The caller has put together what it is about to declare.                *)
Init ==
  /\ \E d \in Declarations :
       /\ memory = [o \in Owners |-> [n \in Names |->
            IF o = "caller" /\ d.refs[n] # Nil THEN d.refs[n] ELSE Empty]]
       /\ declared = d
  /\ function = Nil /\ held = Nil /\ given = Nil
  /\ pc = [i \in Invokers |-> "idle"]
  /\ options = [i \in Invokers |-> Nil]
  /\ sent = [i \in Invokers |-> Nil]
  /\ asked = [i \in Invokers |-> Nil]

(* The caller puts something else into its collections.                    *)
Reuse(content) ==
  /\ memory' = [memory EXCEPT !["caller"] = [n \in Names |-> content]]
  /\ UNCHANGED <<function, held, pc, options, sent, declared, given, asked>>

-----------------------------------------------------------------------------
(* Clones.                                                                 *)

Contained(refs, n) == IF refs[n] = Nil THEN Nil ELSE memory[refs[n]][n]

(* A clone that copies the list of bundles, not what its elements refer to.*)
ShallowClone(o, refs) ==
  [n \in Names |->
     IF refs[n] = Nil \/ n \in {"values", "keys"} THEN refs[n]
     ELSE IF n \in Slices /\ memory[refs[n]][n] = Empty THEN Nil
     ELSE o]

(* cloneRunOnceOptions and cloneCommand, for o: append to a nil slice of   *)
(* no elements is nil, whereas an empty map stays.  InvocationSecrets are  *)
(* a pointer, which is copied.                                             *)
Clone(o, refs) ==
  [n \in Names |->
     IF refs[n] = Nil \/ n = "values" THEN refs[n]
     ELSE IF n \in Slices /\ memory[refs[n]][n] = Empty THEN Nil
     ELSE o]

(* The memory with the copies in it.                                       *)
Copies(o, refs) ==
  [n \in Names |-> IF refs[n] = Nil THEN memory[o][n] ELSE memory[refs[n]][n]]

-----------------------------------------------------------------------------
(* The Function that keeps the caller's collections.                       *)
FunctionOfCallers ==
  /\ function = Nil
  /\ LET refs == [n \in Names |-> IF declared.refs[n] = Nil THEN Nil ELSE "caller"]
     IN  /\ function' = [refs |-> refs,
                         cwd |-> declared.cwd, sni |-> declared.sni, key |-> FALSE]
         /\ memory' = [memory EXCEPT !["function"] = Copies("function", refs)]
  /\ declared' = [declared EXCEPT !.refs =
       [n \in Names |-> IF @[n] = Nil THEN Nil ELSE memory["caller"][n]]]
  /\ UNCHANGED <<held, pc, options, sent, given, asked>>

(* Client.Function.  What is declared is what the collections hold now.    *)
Function ==
  /\ function = Nil
  /\ LET refs == [n \in Names |-> IF declared.refs[n] = Nil THEN Nil ELSE "caller"]
     IN  /\ function' = [refs |-> Clone("function", refs),
                         cwd |-> declared.cwd, sni |-> declared.sni, key |-> FALSE]
         /\ memory' = [memory EXCEPT !["function"] = Copies("function", refs)]
  /\ declared' = [declared EXCEPT !.refs =
       [n \in Names |-> IF @[n] = Nil THEN Nil ELSE memory["caller"][n]]]
  /\ UNCHANGED <<held, pc, options, sent, given, asked>>

(* NewInvocationSecrets: refused without values, otherwise a copy.         *)
NewInvocationSecrets ==
  /\ held = Nil
  /\ memory["caller"]["values"] # Empty
  /\ held' = "private"
  /\ memory' = [memory EXCEPT !["private"]["values"] = memory["caller"]["values"]]
  /\ given' = memory["caller"]["values"]
  /\ UNCHANGED <<function, pc, options, sent, declared, asked>>

(* InvokeWith whose overrides stay in the Function.                        *)
StickyInvokeWith(i, o) ==
  /\ function # Nil /\ pc[i] # "ready"
  /\ o.private => held # Nil
  /\ LET clone == Clone(i, function.refs)
     IN  options' = [options EXCEPT ![i] =
           [refs |-> [clone EXCEPT
              !["env"]    = IF o.env THEN i ELSE @,
              !["values"] = IF o.private THEN held ELSE @],
            cwd |-> IF o.cwd = "omitted" THEN function.cwd ELSE o.cwd,
            sni |-> function.sni,
            key |-> o.key]]
  /\ function' = IF o.private THEN [function EXCEPT !.refs["values"] = held] ELSE function
  /\ memory' = [memory EXCEPT ![i] =
       [Copies(i, function.refs) EXCEPT !["env"] =
          IF o.env THEN memory["caller"]["env"] ELSE @]]
  /\ asked' = [asked EXCEPT ![i] =
       [env |-> IF o.env THEN memory["caller"]["env"] ELSE Nil, cwd |-> o.cwd,
        values |-> IF o.private THEN given ELSE Nil, key |-> o.key]]
  /\ pc' = [pc EXCEPT ![i] = "ready"]
  /\ UNCHANGED <<held, sent, declared, given>>

(* InvokeWith that takes the env map without copying it.                   *)
SharedInvokeWith(i, o) ==
  /\ function # Nil /\ pc[i] # "ready"
  /\ o.private => held # Nil
  /\ LET clone == Clone(i, function.refs)
     IN  options' = [options EXCEPT ![i] =
           [refs |-> [clone EXCEPT
              !["env"]    = IF o.env THEN "caller" ELSE @,
              !["values"] = IF o.private THEN held ELSE Nil],
            cwd |-> IF o.cwd = "omitted" THEN function.cwd ELSE o.cwd,
            sni |-> function.sni,
            key |-> o.key]]
  /\ memory' = [memory EXCEPT ![i] = Copies(i, function.refs)]
  /\ asked' = [asked EXCEPT ![i] =
       [env |-> IF o.env THEN memory["caller"]["env"] ELSE Nil, cwd |-> o.cwd,
        values |-> IF o.private THEN given ELSE Nil, key |-> o.key]]
  /\ pc' = [pc EXCEPT ![i] = "ready"]
  /\ UNCHANGED <<function, held, sent, declared, given>>

(* InvokeWith, whose overrides take the caller's env map and its           *)
(* InvocationSecrets.  The clone and the overrides are one step: nobody    *)
(* else writes what they read.                                             *)
InvokeWith(i, o) ==
  /\ function # Nil /\ pc[i] # "ready"
  /\ o.private => held # Nil
  /\ LET clone == Clone(i, function.refs)
     IN  options' = [options EXCEPT ![i] =
           [refs |-> [clone EXCEPT
              !["env"]    = IF o.env THEN i ELSE @,
              !["values"] = IF o.private THEN held ELSE Nil],
            cwd |-> IF o.cwd = "omitted" THEN function.cwd ELSE o.cwd,
            sni |-> function.sni,
            key |-> o.key]]
  /\ memory' = [memory EXCEPT ![i] =
       [Copies(i, function.refs) EXCEPT !["env"] =
          IF o.env THEN memory["caller"]["env"] ELSE @]]
  /\ asked' = [asked EXCEPT ![i] =
       [env |-> IF o.env THEN memory["caller"]["env"] ELSE Nil, cwd |-> o.cwd,
        values |-> IF o.private THEN given ELSE Nil, key |-> o.key]]
  /\ pc' = [pc EXCEPT ![i] = "ready"]
  /\ UNCHANGED <<function, held, sent, declared, given>>

-----------------------------------------------------------------------------
(* RunOnce.                                                                *)

OrEmpty(content) == IF content = Nil THEN Empty ELSE content

(* createBody: named secrets and bundles share one list.                   *)
SecretsOf(c) ==
  IF c["secrets"] = Nil /\ c["bundles"] = Nil THEN Nil
  ELSE [named   |-> OrEmpty(c["secrets"]),
        bundles |-> OrEmpty(c["bundles"]), keys |-> OrEmpty(c["keys"])]

(* createBody: VerifySNI goes only with a list or a preset.                *)
NetworkOf(c, sni) ==
  IF c["allow"] = Nil THEN Nil ELSE [allow |-> c["allow"], verify_sni |-> sni]

(* The body that RunOnce builds of some contents and sends.                *)
Body(c, cwd, sni) ==
  [argv |-> c["argv"], secrets |-> SecretsOf(c), network |-> NetworkOf(c, sni),
   env |-> c["env"], cwd |-> cwd, invocation_secrets |-> c["values"]]

(* RunOnce returns: nothing refers to its options any more.                *)
Drop(i) ==
  /\ options' = [options EXCEPT ![i] = Nil]
  /\ memory' = [memory EXCEPT ![i] = [n \in Names |-> Empty]]

(* Marshalled when the request is built; another goroutine may have used   *)
(* the caller's collections since.                                         *)
RunOnce(i) ==
  LET c       == [n \in Names |-> Contained(options[i].refs, n)]
      private == c["values"] # Nil
  IN  /\ pc[i] = "ready"
      /\ ~(private /\ options[i].key)
      /\ pc' = [pc EXCEPT ![i] = "sent"]
      /\ sent' = [sent EXCEPT ![i] =
           [route |-> IF private THEN "/v1/run/ephemeral" ELSE "/v1/run",
            key |-> options[i].key,
            body |-> Body(c, options[i].cwd, options[i].sni)]]
      /\ Drop(i)
      /\ UNCHANGED <<function, held, declared, given, asked>>

(* Private values are refused together with a key, or sent to a route of   *)
(* their own, unless endpoint, transport or size are wrong.                *)
Refuse(i) ==
  /\ pc[i] = "ready"
  /\ options[i].refs["values"] # Nil
  /\ pc' = [pc EXCEPT ![i] = "refused"]
  /\ Drop(i)
  /\ UNCHANGED <<function, held, sent, declared, given, asked>>

-----------------------------------------------------------------------------
Next ==
  \/ \E content \in Contents : Reuse(content)
  \/ Function \/ NewInvocationSecrets
  \/ \E i \in Invokers :
       (\E o \in Overriding : InvokeWith(i, o)) \/ RunOnce(i) \/ Refuse(i)

Spec == Init /\ [][Next]_vars

-----------------------------------------------------------------------------
(* Properties.                                                             *)

(* What i is to run: what was declared, with what its overrides replace.   *)
Wanted(i) ==
  [declared.refs EXCEPT !["env"]    = IF asked[i].env # Nil THEN asked[i].env ELSE @,
                        !["values"] = asked[i].values]

WantedCwd(i) == IF asked[i].cwd = "omitted" THEN declared.cwd ELSE asked[i].cwd

SendsWanted(i) ==
  pc[i] = "sent" => sent[i].body = Body(Wanted(i), WantedCwd(i), declared.sni)

NoEmptyList == \A n \in Slices : declared.refs[n] # Empty

(* "Function takes a copy of the command and options, so that later        *)
(* changes to the caller's slices and maps cannot rewrite what an          *)
(* invocation runs" (sandbox.go:356-357): every invocation sends what was  *)
(* declared when Function was called, and the overrides it was called      *)
(* with, whatever the caller and other invocations do meanwhile.  It holds *)
(* of declarations without empty lists.                                    *)
SendsDeclared == NoEmptyList => \A i \in Invokers : SendsWanted(i)

(* "it inherits that route's [...] network-policy behaviour"               *)
(* (sandbox.go:263-264), for all declarations.  RunOnce sends an empty     *)
(* list of allowed hosts; Invoke of the same options sends no policy.      *)
InheritsPolicy ==
  \A i \in Invokers : pc[i] = "sent" =>
    sent[i].body.network = NetworkOf(declared.refs, declared.sni)

(* Private values belong to one invocation: they are sent only for the     *)
(* invocation that was given them, to the route for them, without a key    *)
(* under which the service would keep the result                           *)
(* (sandbox.go:244-250, invocation_secrets_test.go:98-119).                *)
PrivateScoped ==
  \A i \in Invokers : pc[i] = "sent" =>
    LET values == sent[i].body.invocation_secrets
    IN  /\ values = asked[i].values
        /\ values # Nil => sent[i].route = "/v1/run/ephemeral" /\ ~sent[i].key
        /\ sent[i].key = asked[i].key

(* "applied on top of the specification, which is left unchanged"          *)
(* (sandbox.go:370-371): no step, of the caller or of an invocation,       *)
(* changes what the Function would send next.                              *)
Specified ==
  [refs |-> [n \in Names |-> Contained(function.refs, n)],
   cwd |-> function.cwd, sni |-> function.sni, key |-> function.key]

SpecificationUnchanged ==
  [][function # Nil => function' # Nil /\ Specified' = Specified]_vars

-----------------------------------------------------------------------------
(* The inductive invariant behind these properties, by conjuncts.          *)

(* What is left of what was declared when it has been cloned.              *)
Trimmed(n) ==
  IF n \in Slices /\ declared.refs[n] = Empty THEN Nil ELSE declared.refs[n]

DeclaredType ==
  /\ declared \in [refs : [Names -> Maybe],
                    cwd : Dirs \cup {Nil}, sni : BOOLEAN]
  /\ declared.refs["values"] = Nil

(* The Function refers to collections of its own, which hold what was      *)
(* declared.                                                               *)
Declares ==
  IF function = Nil THEN \A i \in Invokers : pc[i] = "idle"
  ELSE /\ function.cwd = declared.cwd /\ function.sni = declared.sni
       /\ function.key = FALSE
       /\ \A n \in Names : function.refs[n] \in {"function", Nil}
       /\ \A n \in Names : Contained(function.refs, n) = Trimmed(n)

HoldsGiven ==
  held # Nil => given \in Contents /\ memory["private"]["values"] = given

(* What i is about to run, and has run.                                    *)
Running(i, n) ==
  IF n = "values" THEN asked[i].values
  ELSE IF n = "env" /\ asked[i].env # Nil THEN asked[i].env
  ELSE Trimmed(n)

Ready(i) ==
  pc[i] = "ready" =>
    /\ asked[i] \in Asked
    /\ options[i].cwd = WantedCwd(i) /\ options[i].sni = declared.sni
    /\ options[i].key = asked[i].key
    /\ asked[i].values # Nil => held # Nil
    /\ \A n \in Names : Contained(options[i].refs, n) = Running(i, n)

Sent(i) ==
  pc[i] = "sent" =>
    /\ asked[i] \in Asked
    /\ sent[i] = [route |-> IF asked[i].values # Nil THEN "/v1/run/ephemeral" ELSE "/v1/run",
                  key   |-> asked[i].key,
                  body  |-> Body([n \in Names |-> Running(i, n)], WantedCwd(i), declared.sni)]
    /\ ~(asked[i].values # Nil /\ asked[i].key)

IInv ==
  /\ TypeOK /\ DeclaredType /\ Declares /\ HoldsGiven
  /\ \A i \in Invokers : Ready(i) /\ Sent(i)
=============================================================================
