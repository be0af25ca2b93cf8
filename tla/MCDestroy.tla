----------------------------- MODULE MCDestroy -----------------------------
(***************************************************************************)
(* Instances of Destroy for TLC, in milliseconds.                          *)
(***************************************************************************)
EXTENDS Destroy

(* Later than any destroy can last: a context that does not end.           *)
Never == 1000000

(* A context that ends in the middle of a sleep, and one that does not.    *)
MCCtxEnds == {4500, Never}
MCEndless == {Never}
=============================================================================
