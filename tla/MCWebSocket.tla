---------------------------- MODULE MCWebSocket ----------------------------
(* A peer that sends two frames of any kind and an application             *)
(* that makes one call.                                                    *)
EXTENDS WebSocket

F(op, fin, enc, body) == [op |-> op, fin |-> fin, enc |-> enc, masked |-> TRUE, body |-> body]

SomeFrames == {
  F("text", TRUE, "7", <<"a">>), F("binary", TRUE, "64", <<"b", "a">>),
  F("text", FALSE, "16", <<"a">>), F("continuation", TRUE, "7", <<"b">>),
  F("ping", TRUE, "7", <<"b">>), F("pong", TRUE, "7", <<>>),
  F("close", TRUE, "7", <<"a">>),
  [F("text", TRUE, "7", <<"a">>) EXCEPT !.masked = FALSE]}

SomeTexts == {<<>>, <<"a", "a">>, <<"a", "b", "a", "b">>}
=============================================================================
