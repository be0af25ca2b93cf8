---------------------------- MODULE MCTransport ----------------------------
(***************************************************************************)
(* Instances of Transport for TLC: all calls the SDK makes, one at a time, *)
(* and two at once of those that may share a caller's key.                 *)
(***************************************************************************)
EXTENDS Transport, CallSites, TLC

MCKeyedSites == {CreateSandbox, GetOrCreateSandbox, Exec}

CallSymmetry == Permutations(Calls)
=============================================================================
