---------------------------- MODULE MCExecStream ----------------------------
(* Streams of up to three frames for TLC: events, events without a blank   *)
(* line at the end, and keep-alives, each stream cut off at every line.    *)
EXTENDS ExecStream

Event     == <<"name", "nl", "data", "nl", "nl">>
KeepAlive == <<"comment", "nl", "nl">>

Scripts ==
  LET Frames == {Event, KeepAlive}
  IN  {a \o b \o c : a, b, c \in Frames}

MCWires == UNION {{SubSeq(s, 1, n) : n \in 0 .. Len(s)} : s \in Scripts}
=============================================================================
