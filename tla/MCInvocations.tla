--------------------------- MODULE MCInvocations ---------------------------
(* Declarations and overrides for TLC.                                     *)
EXTENDS Invocations, TLC

CONSTANTS a, b, dir

Declared(allow, secrets, bundles, env) ==
  [refs |-> [n \in Names |-> CASE n = "argv"    -> a
                               [] n = "allow"   -> allow
                               [] n = "secrets" -> secrets
                               [] n = "bundles" -> bundles
                               [] n = "keys"    -> IF bundles = a THEN a ELSE Nil
                               [] n = "env"     -> env
                               [] OTHER         -> Nil],
   cwd |-> dir, sni |-> TRUE]

(* Everything declared but for one list or map, which is absent or empty.  *)
MCDeclarations ==
  UNION {{Declared(x, a, a, a), Declared(a, x, a, a),
          Declared(a, a, x, a), Declared(a, a, a, x)} : x \in {Nil, Empty, a}}

Override(env, cwd, private, key) ==
  [env |-> env, cwd |-> cwd, private |-> private, key |-> key]

(* Nothing, what goes together, and what does not.                         *)
MCOverriding ==
  {Override(FALSE, "omitted", FALSE, FALSE), Override(TRUE, Nil, FALSE, TRUE),
   Override(TRUE, dir, TRUE, FALSE), Override(FALSE, "omitted", TRUE, TRUE)}

InvokerSymmetry == Permutations(Invokers)
=============================================================================
