---------------------------- MODULE MCPbxServer ----------------------------
(* PbxServer for TLC: what clients send, and what threads find on the stack.  *)
(* One client sends two lines, the other is there to get in the way.          *)
EXTENDS PbxServer

MCCommands ==
    [c \in Clients |->
        IF c = "c1" THEN {<<"dial", " 0">>, <<"chat", " 0">>}
        ELSE {<<"hang", "up">>}]
MCMaxSent == [c \in Clients |-> IF c = "c1" THEN 2 ELSE 1]
MCLeftovers == {<<"pick", "up">>}
=============================================================================
