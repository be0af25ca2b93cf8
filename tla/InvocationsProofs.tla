------------------------- MODULE InvocationsProofs -------------------------
(***************************************************************************)
(* Theorems about Invocations, for any goroutines, declarations and        *)
(* overrides.  The invariant follows what was declared through its two     *)
(* copies: into the Function and from there into each invocation.          *)
(***************************************************************************)
EXTENDS Invocations, TLAPS

(* The owners are told apart.                                              *)
LEMMA OwnerFacts ==
  /\ \A i \in Invokers : i \notin {"caller", "function", "private"} /\ i # Nil
  /\ Nil \notin {"caller", "function", "private"}
  /\ {"caller", "function", "private"} \cup Invokers = Owners
BY ConstantsAssumption DEF Owners

(* Clones and overrides keep the fields apart.                             *)
LEMMA ContainedType ==
  ASSUME TypeOK, NEW refs \in Refs, NEW n \in Names
  PROVE  /\ Contained(refs, n) \in Contents \cup {Nil}
         /\ Contained(refs, n) = Nil <=> refs[n] = Nil
BY ConstantsAssumption DEF TypeOK, Refs, Contained

LEMMA Started ==
  ASSUME IInv, NEW i \in Invokers, pc[i] # "idle"
  PROVE  function # Nil /\ function \in Options
BY DEF IInv, Declares, TypeOK

(* What is ready or sent stays so when somebody else moves.                *)
LEMMA OthersKeep ==
  ASSUME IInv, NEW i \in Invokers,
         declared' = declared,
         held # Nil => held' # Nil,
         pc'[i] = pc[i], options'[i] = options[i],
         sent'[i] = sent[i], asked'[i] = asked[i],
         memory'[i] = memory[i],
         held = Nil \/ memory'["private"]["values"] = memory["private"]["values"]
  PROVE  Ready(i)' /\ Sent(i)'
<1>1. WantedCwd(i)' = WantedCwd(i)
  BY DEF WantedCwd
<1>2. \A n \in Names : Running(i, n)' = Running(i, n)
  BY DEF Running, Trimmed
<1>3. (asked[i] \in Asked)' <=> asked[i] \in Asked
  BY DEF Asked, Maybe
<1>4. Ready(i)'
  <2> SUFFICES ASSUME pc'[i] = "ready" PROVE Ready(i)'
    BY DEF Ready
  <2>1. Ready(i) /\ pc[i] = "ready" /\ options[i] \in Options
    BY DEF IInv, TypeOK
  <2>2. ASSUME NEW n \in Names
        PROVE  Contained(options[i].refs, n)' = Contained(options[i].refs, n)
    <3>1. options[i].refs[n] \in {Nil, IF n = "values" THEN "private" ELSE i}
      BY <2>1 DEF IInv, TypeOK
    <3>2. Contained(options[i].refs, n) = Running(i, n)
      BY <2>1 DEF Ready
    <3>3. CASE n = "values"
      <4>1. CASE held = Nil
        <5>1. Running(i, n) = Nil
          BY <2>1, <3>3, <4>1 DEF Ready, Running
        <5>2. options[i].refs[n] = Nil
          BY <5>1, <3>2, <2>1, ContainedType DEF IInv, Options
        <5> QED  BY <5>2 DEF Contained
      <4>2. CASE held # Nil
        BY <4>2, <3>1, <3>3 DEF Contained
      <4> QED  BY <4>1, <4>2
    <3>4. CASE n # "values"
      BY <3>1, <3>4 DEF Contained
    <3> QED  BY <3>3, <3>4
  <2> QED  BY <2>1, <2>2, <1>1, <1>2, <1>3 DEF Ready
<1>5. Sent(i)'
  <2> SUFFICES ASSUME pc'[i] = "sent" PROVE Sent(i)'
    BY DEF Sent
  <2>1. Sent(i)
    BY DEF IInv
  <2>2. [n \in Names |-> Running(i, n)]' = [n \in Names |-> Running(i, n)]
    BY <1>2
  <2> HIDE DEF Body
  <2> QED  BY <2>1, <2>2, <1>1, <1>3 DEF Sent, Body, SecretsOf, NetworkOf, OrEmpty
<1> QED  BY <1>4, <1>5

(* The Function stays what it is when nobody writes its collections.       *)
LEMMA FunctionKept ==
  ASSUME IInv, function # Nil, function' = function, declared' = declared,
         memory'["function"] = memory["function"]
  PROVE  Declares'
<1>1. \A n \in Names : Trimmed(n)' = Trimmed(n)
  BY DEF Trimmed
<1>2. ASSUME NEW n \in Names
      PROVE  Contained(function.refs, n)' = Contained(function.refs, n)
  BY DEF Contained, IInv, Declares
<1> QED  BY <1>1, <1>2 DEF IInv, Declares

-----------------------------------------------------------------------------
(* The invariant holds at first.                                           *)
THEOREM InitIInv == Init => IInv
<1> SUFFICES ASSUME Init PROVE IInv
  OBVIOUS
<1>1. PICK d \in Declarations :
        /\ memory = [o \in Owners |-> [n \in Names |->
             IF o = "caller" /\ d.refs[n] # Nil THEN d.refs[n] ELSE Empty]]
        /\ declared = d
  BY DEF Init
<1>2. d \in [refs : [Names -> Contents \cup {Nil}], cwd : Dirs \cup {Nil}, sni : BOOLEAN]
      /\ d.refs["values"] = Nil
  BY ConstantsAssumption
<1>3. memory \in [Owners -> [Names -> Contents]]
  BY <1>1, <1>2, ConstantsAssumption
<1> QED  BY <1>1, <1>2, <1>3
         DEF Init, IInv, TypeOK, DeclaredType, Declares, HoldsGiven, Ready, Sent, Maybe

(* The caller writes to its own collections only.                          *)
LEMMA ReuseKeeps ==
  ASSUME IInv, NEW content \in Contents, Reuse(content)
  PROVE  IInv'
<1>1. TypeOK' /\ DeclaredType'
  <2>1. memory' \in [Owners -> [Names -> Contents]]
    BY DEF Reuse, IInv, TypeOK
  <2> QED  BY <2>1 DEF Reuse, IInv, TypeOK, DeclaredType
<1>2. \A o \in Owners : o # "caller" => memory'[o] = memory[o]
  BY DEF Reuse, IInv, TypeOK
<1>3. Declares'
  <2>1. CASE function = Nil
    BY <2>1 DEF Reuse, IInv, Declares
  <2>2. CASE function # Nil
    BY <2>2, <1>2, FunctionKept, OwnerFacts DEF Reuse
  <2> QED  BY <2>1, <2>2
<1>4. HoldsGiven'
  BY <1>2, OwnerFacts DEF Reuse, IInv, HoldsGiven
<1>5. \A i \in Invokers : Ready(i)' /\ Sent(i)'
  BY <1>2, OthersKeep, OwnerFacts DEF Reuse
<1> QED  BY <1>1, <1>3, <1>4, <1>5 DEF IInv

(* The Function is declared: the first copy.                               *)
LEMMA FunctionKeeps ==
  ASSUME IInv, Function
  PROVE  IInv'
<1> DEFINE refs == [n \in Names |-> IF declared.refs[n] = Nil THEN Nil ELSE "caller"]
<1>1. /\ function = Nil
      /\ function' = [refs |-> Clone("function", refs),
                      cwd |-> declared.cwd, sni |-> declared.sni, key |-> FALSE]
      /\ memory' = [memory EXCEPT !["function"] = Copies("function", refs)]
      /\ declared' = [declared EXCEPT !.refs =
           [n \in Names |-> IF @[n] = Nil THEN Nil ELSE memory["caller"][n]]]
      /\ UNCHANGED <<held, pc, options, sent, given, asked>>
  BY DEF Function
<1>2. \A i \in Invokers : pc[i] = "idle" /\ pc'[i] = "idle"
  BY <1>1 DEF IInv, Declares
<1>3. /\ declared.refs \in [Names -> Contents \cup {Nil}]
      /\ declared.cwd \in Dirs \cup {Nil} /\ declared.sni \in BOOLEAN
      /\ declared.refs["values"] = Nil
      /\ memory \in [Owners -> [Names -> Contents]]
  BY DEF IInv, TypeOK, DeclaredType, Maybe
<1>4. /\ declared'.cwd = declared.cwd /\ declared'.sni = declared.sni
      /\ declared'.refs = [n \in Names |->
           IF declared.refs[n] = Nil THEN Nil ELSE memory["caller"][n]]
  BY <1>1 DEF IInv, DeclaredType
<1>5. DeclaredType'
  BY <1>1, <1>3, <1>4, OwnerFacts DEF IInv, DeclaredType, Names, Maybe
<1>6. ASSUME NEW n \in Names
      PROVE  /\ function'.refs[n] \in {"function", Nil}
             /\ (IF function'.refs[n] = Nil THEN Nil ELSE memory'[function'.refs[n]][n])
                  = Trimmed(n)'
             /\ memory'["function"][n] \in Contents
  <2>1. function'.refs[n] =
          IF refs[n] = Nil \/ n = "values" THEN refs[n]
          ELSE IF n \in Slices /\ memory[refs[n]][n] = Empty THEN Nil ELSE "function"
    BY <1>1 DEF Clone
  <2>2. memory'["function"][n] =
          IF refs[n] = Nil THEN memory["function"][n] ELSE memory[refs[n]][n]
    BY <1>1, <1>3, OwnerFacts DEF Copies
  <2>3. refs[n] = IF declared.refs[n] = Nil THEN Nil ELSE "caller"
    OBVIOUS
  <2>4. memory["caller"][n] \in Contents /\ memory["function"][n] \in Contents
    BY <1>3, OwnerFacts
  <2>5. declared'.refs[n] = IF declared.refs[n] = Nil THEN Nil ELSE memory["caller"][n]
    BY <1>4
  <2> HIDE DEF refs
  <2> QED  BY <2>1, <2>2, <2>3, <2>4, <2>5, <1>3, OwnerFacts, ConstantsAssumption DEF Trimmed
<1>11. function' \in Options
  <2>1. function'.refs \in Refs
    BY <1>1, <1>6, OwnerFacts DEF Refs, Clone
  <2> QED  BY <2>1, <1>1, <1>3 DEF Options
<1>7. TypeOK'
  <2>2. memory' \in [Owners -> [Names -> Contents]]
    <3>1. Copies("function", refs) \in [Names -> Contents]
      BY <1>1, <1>3, <1>6, OwnerFacts DEF Copies
    <3> QED  BY <3>1, <1>1, <1>3
  <2> HIDE DEF refs
  <2> QED  BY <1>11, <2>2, <1>1, <1>2 DEF IInv, TypeOK
<1>8. Declares'
  <2>0. function' \in Options
    BY <1>11
  <2>1. function' # Nil
    BY <2>0, NilAssumption
  <2>2. \A n \in Names : Contained(function.refs, n)' = Trimmed(n)'
    BY <1>6 DEF Contained
  <2> HIDE DEF refs
  <2> QED  BY <2>1, <2>2, <1>1, <1>4, <1>6 DEF Declares
<1>9. HoldsGiven'
  BY <1>1, <1>3, OwnerFacts DEF IInv, HoldsGiven
<1>10. \A i \in Invokers : Ready(i)' /\ Sent(i)'
  BY <1>2 DEF Ready, Sent
<1> QED  BY <1>5, <1>7, <1>8, <1>9, <1>10 DEF IInv

(* InvocationSecrets take their copy of the values.                        *)
LEMMA SecretsKeep ==
  ASSUME IInv, NewInvocationSecrets
  PROVE  IInv'
<1>1. \A o \in Owners : o # "private" => memory'[o] = memory[o]
  BY DEF NewInvocationSecrets, IInv, TypeOK
<1>2. /\ memory["caller"]["values"] \in Contents
      /\ memory' \in [Owners -> [Names -> Contents]]
      /\ memory'["private"]["values"] = memory["caller"]["values"]
  BY OwnerFacts DEF NewInvocationSecrets, IInv, TypeOK, Names
<1>3. TypeOK' /\ DeclaredType'
  BY <1>2 DEF NewInvocationSecrets, IInv, TypeOK, DeclaredType
<1>4. Declares'
  <2>1. CASE function = Nil
    BY <2>1 DEF NewInvocationSecrets, IInv, Declares
  <2>2. CASE function # Nil
    BY <2>2, <1>1, FunctionKept, OwnerFacts DEF NewInvocationSecrets
  <2> QED  BY <2>1, <2>2
<1>5. HoldsGiven'
  BY <1>2 DEF NewInvocationSecrets, HoldsGiven
<1>6. \A i \in Invokers : Ready(i)' /\ Sent(i)'
  BY <1>1, OthersKeep, OwnerFacts DEF NewInvocationSecrets
<1> QED  BY <1>3, <1>4, <1>5, <1>6 DEF IInv

(* An invocation moves on: what it leaves alone.                           *)
LEMMA InvokerMoves ==
  ASSUME IInv, NEW i \in Invokers, pc[i] # "idle" \/ function # Nil,
         UNCHANGED <<function, held, declared, given>>,
         NEW store \in [Names -> Contents],
         memory' = [memory EXCEPT ![i] = store],
         NEW label \in {"ready", "sent", "refused"},
         pc' = [pc EXCEPT ![i] = label],
         options' \in [Invokers -> Options \cup {Nil}],
         asked' \in [Invokers -> Asked \cup {Nil}],
         sent' \in [Invokers -> Requests \cup {Nil}],
         \A j \in Invokers \ {i} :
           /\ options'[j] = options[j] /\ sent'[j] = sent[j] /\ asked'[j] = asked[j],
         label = "ready" =>
           /\ options'[i] \in Options
           /\ \A n \in Names :
                options'[i].refs[n] \in {Nil, IF n = "values" THEN "private" ELSE i},
         Ready(i)' /\ Sent(i)'
  PROVE  IInv'
<1>1. \A o \in Owners : o # i => memory'[o] = memory[o]
  BY DEF IInv, TypeOK
<1>2. function # Nil
  BY DEF IInv, Declares
<1>3. pc'[i] = label /\ \A j \in Invokers \ {i} : pc'[j] = pc[j]
  BY DEF IInv, TypeOK
<1>4. TypeOK'
  <2>1. memory' \in [Owners -> [Names -> Contents]]
    BY DEF IInv, TypeOK
  <2>2. pc' \in [Invokers -> {"idle", "ready", "sent", "refused"}]
    BY DEF IInv, TypeOK
  <2>3. ASSUME NEW j \in Invokers, pc'[j] = "ready"
        PROVE  /\ options'[j] \in Options
               /\ \A n \in Names :
                    options'[j].refs[n] \in {Nil, IF n = "values" THEN "private" ELSE j}
    <3>1. CASE j = i
      BY <3>1, <2>3, <1>3
    <3>2. CASE j # i
      <4>1. pc[j] = "ready" /\ options'[j] = options[j]
        BY <3>2, <2>3, <1>3
      <4> QED  BY <4>1 DEF IInv, TypeOK
    <3> QED  BY <3>1, <3>2
  <2> QED  BY <2>1, <2>2, <2>3 DEF IInv, TypeOK
<1>5. DeclaredType'
  BY DEF IInv, DeclaredType
<1>6. Declares'
  BY <1>1, <1>2, FunctionKept, OwnerFacts
<1>7. HoldsGiven'
  BY <1>1, OwnerFacts DEF IInv, HoldsGiven
<1>8. ASSUME NEW j \in Invokers
      PROVE  Ready(j)' /\ Sent(j)'
  <2>1. CASE j = i
    BY <2>1
  <2>2. CASE j # i
    <3>1. /\ memory'[j] = memory[j]
          /\ memory'["private"]["values"] = memory["private"]["values"]
      BY <1>1, <2>2, OwnerFacts
    <3> QED  BY <3>1, <2>2, <1>3, OthersKeep
  <2> QED  BY <2>1, <2>2
<1> QED  BY <1>4, <1>5, <1>6, <1>7, <1>8 DEF IInv

(* An invocation begins: the second copy, and the overrides.               *)
LEMMA InvokeWithKeeps ==
  ASSUME IInv, NEW i \in Invokers, NEW o \in Overriding, InvokeWith(i, o)
  PROVE  IInv'
<1> DEFINE clone == Clone(i, function.refs)
           store == [Copies(i, function.refs) EXCEPT !["env"] =
                       IF o.env THEN memory["caller"]["env"] ELSE @]
<1>1. /\ function # Nil
      /\ o.private => held # Nil
      /\ options'[i] = [refs |-> [clone EXCEPT
              !["env"]    = IF o.env THEN i ELSE @,
              !["values"] = IF o.private THEN held ELSE Nil],
            cwd |-> IF o.cwd = "omitted" THEN function.cwd ELSE o.cwd,
            sni |-> function.sni,
            key |-> o.key]
      /\ memory' = [memory EXCEPT ![i] = store]
      /\ asked'[i] = [env |-> IF o.env THEN memory["caller"]["env"] ELSE Nil, cwd |-> o.cwd,
                      values |-> IF o.private THEN given ELSE Nil, key |-> o.key]
      /\ pc' = [pc EXCEPT ![i] = "ready"]
      /\ UNCHANGED <<function, held, sent, declared, given>>
      /\ \A j \in Invokers \ {i} : options'[j] = options[j] /\ asked'[j] = asked[j]
  BY DEF InvokeWith, IInv, TypeOK
<1>2. o \in Overrides
  BY OverridingAssumption
<1>3. /\ function \in Options
      /\ memory \in [Owners -> [Names -> Contents]]
      /\ memory["caller"]["env"] \in Contents
      /\ o.private => held = "private" /\ given \in Contents
                      /\ memory["private"]["values"] = given
      /\ DeclaredType
  BY <1>1, OwnerFacts DEF IInv, TypeOK, HoldsGiven, Names
<1>4. store \in [Names -> Contents]
  <2>1. \A n \in Names : function.refs[n] \in {"function", Nil}
    BY <1>1 DEF IInv, Declares
  <2>2. \A p \in Owners : \A n \in Names : memory[p][n] \in Contents
    BY <1>3
  <2>3. Copies(i, function.refs) \in [Names -> Contents]
    BY <2>1, <2>2, OwnerFacts DEF Copies
  <2> HIDE DEF clone
  <2> QED  BY <2>3, <1>3
<1>5. asked'[i] \in Asked
  <2>1. /\ (IF o.env THEN memory["caller"]["env"] ELSE Nil) \in Maybe
        /\ (IF o.private THEN given ELSE Nil) \in Maybe
    BY <1>3 DEF Maybe
  <2> QED  BY <2>1, <1>1, <1>2 DEF Asked, Overrides
<1>6. ASSUME NEW n \in Names
      PROVE  /\ options'[i].refs[n] \in {Nil, IF n = "values" THEN "private" ELSE i}
             /\ Contained(options[i].refs, n)' = Running(i, n)'
  <2>1. clone[n] = IF function.refs[n] = Nil \/ n = "values" THEN function.refs[n]
                   ELSE IF n \in Slices /\ memory[function.refs[n]][n] = Empty THEN Nil
                   ELSE i
    BY DEF Clone
  <2>2. options'[i].refs[n] =
          IF n = "env" THEN IF o.env THEN i ELSE clone[n]
          ELSE IF n = "values" THEN IF o.private THEN held ELSE Nil ELSE clone[n]
    BY <1>1 DEF Clone
  <2>3. /\ memory'[i][n] =
             IF n = "env" /\ o.env THEN memory["caller"]["env"]
             ELSE IF function.refs[n] = Nil THEN memory[i][n]
             ELSE memory[function.refs[n]][n]
        /\ memory'["private"] = memory["private"]
    BY <1>1, <1>3, OwnerFacts DEF Copies
  <2>4. /\ function.refs[n] \in {"function", Nil}
        /\ Contained(function.refs, n) = Trimmed(n)
        /\ Trimmed(n)' = Trimmed(n)
    BY <1>1 DEF IInv, Declares, Trimmed
  <2>5. n \in Slices => Trimmed(n) # Empty
    BY ConstantsAssumption DEF Trimmed
  <2>6. Running(i, n)' =
          IF n = "values" THEN IF o.private THEN given ELSE Nil
          ELSE IF n = "env" /\ o.env THEN memory["caller"]["env"]
          ELSE Trimmed(n)
    BY <1>1, <1>3, <2>4, ConstantsAssumption DEF Running
  <2>7. Contained(options[i].refs, n)' =
          IF options'[i].refs[n] = Nil THEN Nil ELSE memory'[options'[i].refs[n]][n]
    BY DEF Contained
  <2> HIDE DEF clone, store
  <2>8. CASE n = "values"
    BY <2>8, <1>3, <2>2, <2>3, <2>6, <2>7, OwnerFacts
  <2>9. CASE n = "env" /\ o.env
    BY <2>9, <2>2, <2>3, <2>6, <2>7, OwnerFacts
  <2>10. CASE n # "values" /\ ~(n = "env" /\ o.env)
    <3>1. options'[i].refs[n] = clone[n]
      BY <2>10, <2>2
    <3>2. CASE function.refs[n] = Nil
      BY <3>1, <3>2, <2>1, <2>4, <2>6, <2>7, <2>10 DEF Contained
    <3>3. CASE function.refs[n] = "function"
      <4>1. Trimmed(n) = memory["function"][n]
        BY <3>3, <2>4, OwnerFacts DEF Contained
      <4> QED  BY <4>1, <3>1, <3>3, <2>1, <2>3, <2>5, <2>6, <2>7, <2>10, OwnerFacts
    <3> QED  BY <3>2, <3>3, <2>4
  <2> QED  BY <2>8, <2>9, <2>10
<1>7. options'[i] \in Options
  <2>1. options'[i].refs \in Refs
    <3>1. clone = [n \in Names |-> clone[n]]
      BY DEF Clone
    <3>2. options'[i].refs = [clone EXCEPT
             !["env"]    = IF o.env THEN i ELSE @,
             !["values"] = IF o.private THEN held ELSE Nil]
      BY <1>1
    <3> HIDE DEF clone
    <3>3. options'[i].refs = [n \in Names |-> options'[i].refs[n]]
      BY <3>1, <3>2
    <3>4. \A n \in Names : options'[i].refs[n] \in Owners \cup {Nil}
      BY <1>6, OwnerFacts DEF Owners
    <3> QED  BY <3>3, <3>4 DEF Refs
  <2>2. /\ (IF o.cwd = "omitted" THEN function.cwd ELSE o.cwd) \in Dirs \cup {Nil}
        /\ function.sni \in BOOLEAN /\ o.key \in BOOLEAN
    BY <1>2, <1>3 DEF Options, Overrides
  <2> HIDE DEF clone
  <2> QED  BY <2>1, <2>2, <1>1 DEF Options
<1>8. Ready(i)' /\ Sent(i)'
  <2>1. pc'[i] = "ready"
    BY <1>1 DEF IInv, TypeOK
  <2>2. options'[i].cwd = WantedCwd(i)' /\ options'[i].sni = declared'.sni
        /\ options'[i].key = asked'[i].key
    BY <1>1 DEF WantedCwd, IInv, Declares
  <2>3. asked'[i].values # Nil => held' # Nil
    BY <1>1
  <2> HIDE DEF clone, store
  <2> QED  BY <2>1, <2>2, <2>3, <1>5, <1>6 DEF Ready, Sent
<1>9. /\ options' \in [Invokers -> Options \cup {Nil}]
      /\ asked' \in [Invokers -> Asked \cup {Nil}]
      /\ sent' \in [Invokers -> Requests \cup {Nil}]
  <2>1. /\ options' = [options EXCEPT ![i] = options'[i]]
        /\ asked' = [asked EXCEPT ![i] = asked'[i]]
    BY DEF InvokeWith, IInv, TypeOK
  <2> HIDE DEF clone, store
  <2> QED  BY <2>1, <1>1, <1>5, <1>7 DEF IInv, TypeOK
<1> HIDE DEF clone, store
<1> QED  BY <1>1, <1>4, <1>6, <1>7, <1>8, <1>9, InvokerMoves

(* An invocation sends what it was made of and returns.                    *)
LEMMA RunOnceKeeps ==
  ASSUME IInv, NEW i \in Invokers, RunOnce(i)
  PROVE  IInv'
<1> DEFINE c     == [n \in Names |-> Contained(options[i].refs, n)]
           store == [n \in Names |-> Empty]
           route == IF c["values"] # Nil THEN "/v1/run/ephemeral" ELSE "/v1/run"
<1>1. /\ pc[i] = "ready"
      /\ ~(c["values"] # Nil /\ options[i].key)
      /\ pc' = [pc EXCEPT ![i] = "sent"]
      /\ sent' = [sent EXCEPT ![i] =
           [route |-> route, key |-> options[i].key,
            body |-> Body(c, options[i].cwd, options[i].sni)]]
      /\ options' = [options EXCEPT ![i] = Nil]
      /\ memory' = [memory EXCEPT ![i] = store]
      /\ UNCHANGED <<function, held, declared, given, asked>>
  BY DEF RunOnce, Drop
<1>2. /\ options[i] \in Options
      /\ asked[i] \in Asked
      /\ options[i].cwd = WantedCwd(i) /\ options[i].sni = declared.sni
      /\ options[i].key = asked[i].key
      /\ \A n \in Names : Contained(options[i].refs, n) = Running(i, n)
  BY <1>1 DEF IInv, TypeOK, Ready
<1>3. c = [n \in Names |-> Running(i, n)] /\ c["values"] = asked[i].values
  BY <1>2 DEF Names, Running
<1>4. \A n \in Names : c[n] \in Maybe
  BY <1>2, ContainedType DEF IInv, Options, Maybe
<1>5. Body(c, options[i].cwd, options[i].sni) \in Bodies
  <2>1. SecretsOf(c) \in [named : Contents, bundles : Contents, keys : Contents] \cup {Nil}
    BY <1>4, ConstantsAssumption DEF SecretsOf, OrEmpty, Maybe, Names
  <2>2. NetworkOf(c, options[i].sni)
          \in [allow : Contents, verify_sni : BOOLEAN] \cup {Nil}
    BY <1>2, <1>4 DEF NetworkOf, Maybe, Names, Options
  <2> HIDE DEF c
  <2> QED  BY <2>1, <2>2, <1>2, <1>4 DEF Body, Bodies, Names, Options
<1>6. sent' \in [Invokers -> Requests \cup {Nil}]
  <2>1. route \in {"/v1/run", "/v1/run/ephemeral"}
    OBVIOUS
  <2> HIDE DEF c, route
  <2> QED  BY <2>1, <1>1, <1>2, <1>5 DEF IInv, TypeOK, Requests, Options
<1>7. /\ options' \in [Invokers -> Options \cup {Nil}]
      /\ asked' \in [Invokers -> Asked \cup {Nil}]
      /\ store \in [Names -> Contents]
      /\ pc'[i] = "sent"
  BY <1>1, ConstantsAssumption DEF IInv, TypeOK
<1>8. \A j \in Invokers \ {i} :
        options'[j] = options[j] /\ sent'[j] = sent[j] /\ asked'[j] = asked[j]
  BY <1>1 DEF IInv, TypeOK
<1>9. Ready(i)' /\ Sent(i)'
  <2>1. Running(i, "values")' = asked[i].values /\ asked'[i] = asked[i]
    BY <1>1 DEF Running
  <2>2. \A n \in Names : Running(i, n)' = Running(i, n)
    BY <1>1 DEF Running, Trimmed
  <2>3. [n \in Names |-> Running(i, n)]' = c
    BY <2>2, <1>3
  <2>4. WantedCwd(i)' = WantedCwd(i) /\ declared' = declared
    BY <1>1 DEF WantedCwd
  <2>5. sent'[i] = [route |-> route, key |-> options[i].key,
                    body |-> Body(c, options[i].cwd, options[i].sni)]
    BY <1>1 DEF IInv, TypeOK
  <2>6. (asked[i] \in Asked)'
    BY <1>2, <2>1 DEF Asked, Maybe
  <2>7. Body([n \in Names |-> Running(i, n)], WantedCwd(i), declared.sni)'
          = Body(c, options[i].cwd, options[i].sni)
    BY <2>3, <2>4, <1>2 DEF Body, SecretsOf, NetworkOf, OrEmpty
  <2> HIDE DEF c
  <2> QED  BY <2>1, <2>5, <2>6, <2>7, <1>1, <1>2, <1>3, <1>7 DEF Ready, Sent
<1> HIDE DEF c, store, route
<1> QED  BY <1>1, <1>6, <1>7, <1>8, <1>9, InvokerMoves

(* A refusal sends nothing.                                                *)
LEMMA RefuseKeeps ==
  ASSUME IInv, NEW i \in Invokers, Refuse(i)
  PROVE  IInv'
<1> DEFINE store == [n \in Names |-> Empty]
<1>1. /\ pc[i] = "ready"
      /\ pc' = [pc EXCEPT ![i] = "refused"]
      /\ options' = [options EXCEPT ![i] = Nil]
      /\ memory' = [memory EXCEPT ![i] = store]
      /\ UNCHANGED <<function, held, sent, declared, given, asked>>
  BY DEF Refuse, Drop
<1>2. /\ options' \in [Invokers -> Options \cup {Nil}]
      /\ asked' \in [Invokers -> Asked \cup {Nil}]
      /\ sent' \in [Invokers -> Requests \cup {Nil}]
      /\ store \in [Names -> Contents]
      /\ pc'[i] = "refused"
      /\ \A j \in Invokers \ {i} : options'[j] = options[j]
  BY <1>1, ConstantsAssumption DEF IInv, TypeOK
<1>3. Ready(i)' /\ Sent(i)'
  BY <1>2 DEF Ready, Sent
<1> HIDE DEF store
<1> QED  BY <1>1, <1>2, <1>3, InvokerMoves

(* Every step keeps the invariant.                                         *)
THEOREM NextIInv == IInv /\ [Next]_vars => IInv'
<1> SUFFICES ASSUME IInv, [Next]_vars PROVE IInv'
  OBVIOUS
<1>1. CASE UNCHANGED vars
  <2>1. /\ TypeOK' /\ DeclaredType' /\ HoldsGiven'
    BY <1>1 DEF vars, IInv, TypeOK, DeclaredType, HoldsGiven
  <2>2. Declares'
    <3>1. CASE function = Nil
      BY <3>1, <1>1 DEF vars, IInv, Declares
    <3>2. CASE function # Nil
      BY <3>2, <1>1, FunctionKept DEF vars
    <3> QED  BY <3>1, <3>2
  <2>3. \A i \in Invokers : Ready(i)' /\ Sent(i)'
    BY <1>1, OthersKeep DEF vars
  <2> QED  BY <2>1, <2>2, <2>3 DEF IInv
<1>2. CASE \E content \in Contents : Reuse(content)
  BY <1>2, ReuseKeeps
<1>3. CASE Function
  BY <1>3, FunctionKeeps
<1>4. CASE NewInvocationSecrets
  BY <1>4, SecretsKeep
<1>5. CASE \E i \in Invokers : \E o \in Overriding : InvokeWith(i, o)
  BY <1>5, InvokeWithKeeps
<1>6. CASE \E i \in Invokers : RunOnce(i)
  BY <1>6, RunOnceKeeps
<1>7. CASE \E i \in Invokers : Refuse(i)
  BY <1>7, RefuseKeeps
<1> QED  BY <1>1, <1>2, <1>3, <1>4, <1>5, <1>6, <1>7 DEF Next

(* What was declared reaches every request through both copies, whatever   *)
(* the caller does with its collections.                                   *)
THEOREM Invariant == Spec => []IInv
BY InitIInv, NextIInv, PTL DEF Spec

-----------------------------------------------------------------------------
(* TypeOK of every reachable state: an invocation that is about to run     *)
(* refers to collections of its own and to the private values only         *)
(* (sandbox.go:366-389).                                                   *)
THEOREM TypeCorrect == Spec => []TypeOK
<1>1. IInv => TypeOK
  BY DEF IInv
<1> QED  BY <1>1, Invariant, PTL

(* SendsDeclared: later changes to the caller's slices and maps do not     *)
(* rewrite what an invocation runs (sandbox.go:356-357).                   *)
THEOREM DeclaredSent == Spec => []SendsDeclared
<1>1. IInv => SendsDeclared
  <2> SUFFICES ASSUME IInv, NoEmptyList, NEW i \in Invokers, pc[i] = "sent"
               PROVE  sent[i].body = Body(Wanted(i), WantedCwd(i), declared.sni)
    BY DEF SendsDeclared, SendsWanted
  <2> DEFINE c == [n \in Names |-> Running(i, n)]
  <2>1. sent[i].body = Body(c, WantedCwd(i), declared.sni)
    <3>1. Sent(i)
      BY DEF IInv
    <3>2. sent[i] = [route |-> IF asked[i].values # Nil THEN "/v1/run/ephemeral"
                               ELSE "/v1/run",
                     key   |-> asked[i].key,
                     body  |-> Body(c, WantedCwd(i), declared.sni)]
      BY <3>1 DEF Sent
    <3> HIDE DEF c
    <3> QED  BY <3>2
  <2>2. \A n \in Names : Trimmed(n) = declared.refs[n]
    BY DEF Trimmed, NoEmptyList
  <2>3. \A n \in Names : c[n] = Wanted(i)[n]
    <3>1. declared.refs \in [Names -> Maybe]
      BY DEF IInv, DeclaredType
    <3> QED  BY <3>1, <2>2 DEF Running, Wanted
  <2>4. Body(c, WantedCwd(i), declared.sni)
          = Body(Wanted(i), WantedCwd(i), declared.sni)
    <3> HIDE DEF c
    <3> QED  BY <2>3 DEF Body, SecretsOf, NetworkOf, Names
  <2> QED  BY <2>1, <2>4
<1> QED  BY <1>1, Invariant, PTL

(* PrivateScoped: private values go with their own invocation, to their    *)
(* own route, without a key (sandbox.go:244-250).                          *)
THEOREM PrivateOnly == Spec => []PrivateScoped
<1>1. IInv => PrivateScoped
  <2> SUFFICES ASSUME IInv, NEW i \in Invokers, pc[i] = "sent"
               PROVE  /\ sent[i].body.invocation_secrets = asked[i].values
                      /\ asked[i].values # Nil =>
                           sent[i].route = "/v1/run/ephemeral" /\ ~sent[i].key
                      /\ sent[i].key = asked[i].key
    BY DEF PrivateScoped
  <2>1. Sent(i)
    BY DEF IInv
  <2>2. [n \in Names |-> Running(i, n)]["values"] = asked[i].values
    BY DEF Names, Running
  <2> QED  BY <2>1, <2>2 DEF Sent, Body
<1> QED  BY <1>1, Invariant, PTL

(* SpecificationUnchanged: no step changes what the Function would send    *)
(* next (sandbox.go:370-371).                                              *)
THEOREM Unchanged == Spec => SpecificationUnchanged
<1>1. ASSUME IInv, IInv', [Next]_vars, function # Nil
      PROVE  function' # Nil /\ Specified' = Specified
  <2>1. function' = function /\ declared' = declared
    BY <1>1 DEF Next, Reuse, Function, NewInvocationSecrets, InvokeWith, RunOnce, Refuse, vars
  <2>2. ASSUME NEW n \in Names
        PROVE  Contained(function.refs, n)' = Contained(function.refs, n)
    <3>1. Contained(function.refs, n) = Trimmed(n)
      BY <1>1 DEF IInv, Declares
    <3>2. Contained(function.refs, n)' = Trimmed(n)'
      BY <1>1, <2>1 DEF IInv, Declares
    <3> QED  BY <3>1, <3>2, <2>1 DEF Trimmed
  <2> QED  BY <1>1, <2>1, <2>2 DEF Specified
<1>2. IInv /\ IInv' /\ [Next]_vars =>
        [function # Nil => function' # Nil /\ Specified' = Specified]_vars
  BY <1>1
<1> QED  BY <1>2, Invariant, PTL DEF Spec, SpecificationUnchanged
=============================================================================
