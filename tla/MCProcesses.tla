----------------------------- MODULE MCProcesses -----------------------------
(***************************************************************************)
(* An instance of Processes for TLC: one goroutine by itself, two on one   *)
(* handle, and two on handles of their own.                                *)
(***************************************************************************)
EXTENDS Processes

OutputOf(stdout, stderr) == [s \in Streams |-> IF s = "stdout" THEN stdout ELSE stderr]

TwoShareOne == [w \in Waiters |-> IF w = 3 THEN 2 ELSE 1]

TwoBytesEach == OutputOf(2, 2)

SharedOrOwn == {[who |-> {3},    output |-> OutputOf(2, 2)],
                [who |-> {1, 2}, output |-> OutputOf(1, 1)],
                [who |-> {1, 3}, output |-> OutputOf(1, 1)]}

(* Ended with a code, with another one, and killed without a code.         *)
ThreeEnds == {[code |-> "zero",    termination |-> "nil"],
              [code |-> "nonzero", termination |-> "nil"],
              [code |-> "nil",     termination |-> "signal"]}
=============================================================================
