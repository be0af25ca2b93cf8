------------------------- MODULE MCPrivateRequests -------------------------
(***************************************************************************)
(* An instance of PrivateRequests for TLC, in seconds: clients with every  *)
(* kind of transport, with no timeout and with one between the limits, no  *)
(* command time and one above the threshold, an instant exchange and one   *)
(* beyond every limit.                                                     *)
(***************************************************************************)
EXTENDS PrivateRequests

MCHTTPClients  == {[transport |-> "standard", timeout |-> 0],
                   [transport |-> "standard", timeout |-> 40],
                   [transport |-> "hooked",   timeout |-> 40],
                   [transport |-> "unfit",    timeout |-> 0]}
MCCommandTimes == {0, 31}
MCDurations    == {0, 95}
=============================================================================
