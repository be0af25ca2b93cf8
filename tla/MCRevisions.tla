---------------------------- MODULE MCRevisions ----------------------------
(* Two clients for TLC, which change the first resource by its revision;   *)
(* one of them lists, the other makes the second come and go.              *)
EXTENDS Revisions

MCDoes ==
  [c \in Clients |->
     IF c = 1 THEN {<<"list", 0>>, <<"replace", 1>>, <<"set", 1>>}
     ELSE {<<"get", 1>>, <<"merge", 1>>, <<"revoke", 1>>, <<"create", 2>>, <<"drop", 2>>}]
=============================================================================
