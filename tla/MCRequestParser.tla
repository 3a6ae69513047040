-------------------------- MODULE MCRequestParser --------------------------
(* Two messages on one connection, cut at every place; single messages of  *)
(* every method; and single messages with one wrong byte.                  *)
EXTENDS RequestParser

H(f, v) == [field |-> f, value |-> v]
Plain == H(<<"n", "o">>, <<<<"a">>>>)
Folded == H(<<"X">>, <<<<"a", "a">>, <<"b">>>>)
Empty == H(<<"e">>, <<<<>>>>)

P(k, v) == [key |-> k, value |-> v]

Msg(v, h, f, b, t) == [method |-> "PUT", path |-> <<"/", "a">>, query |-> <<>>,
  fragment |-> <<>>, version |-> v, eol |-> <<CR, LF>>, headers |-> h, framing |-> f,
  body |-> b, trailers |-> t]

V11 == <<"1", ".", "1">>
V10 == <<"1", ".", "0">>
Body == <<"G", CR, "T">>

Messages == {
  [Msg(V11, <<>>, "none", <<>>, <<>>) EXCEPT
     !.query = <<P(<<"k", "=">>, <<"&">>), P(<<"k">>, <<"a">>)>>],
  [Msg(V11, <<Plain, Folded>>, "length", Body, <<>>) EXCEPT !.query = <<P(<<"k">>, <<>>)>>],
  [Msg(V11, <<Empty, Plain, Empty>>, "length", <<>>, <<>>) EXCEPT !.eol = <<LF>>],
  Msg(V11, <<Folded>>, "chunks", Body, <<>>),
  [Msg(V11, <<>>, "chunks", <<"G">>, <<Plain>>) EXCEPT !.eol = <<LF>>],
  [Msg(V11, <<H(CONNECTION, <<CLOSE>>), Plain>>, "length", <<"a">>, <<>>) EXCEPT !.method = "GET"],
  Msg(V10, <<H(CONNECTION, <<KEEP_ALIVE>>)>>, "none", <<>>, <<>>),
  Msg(V10, <<Plain>>, "length", <<"a">>, <<>>),
  Msg(V11, <<H(UPGRADE, <<<<"w">>>>)>>, "none", <<>>, <<>>)}

TwoMessages == {<<a, b>> : a, b \in Messages}

\* A head that fits by itself, and not after trailers.
LongHead == [Msg(V11, <<Folded, Folded, Folded, Folded>>, "none", <<>>, <<>>) EXCEPT !.path = <<"/">>]
AfterTrailers == {<<Msg(V11, <<>>, "chunks", <<"a">>, t), LongHead>> : t \in {<<>>, <<Plain, Plain>>}}

Absolute == <<"h", ":", "/", "/", "a", "@", "b", "/", "c">>
Urls == {
  [Msg(V11, <<>>, "none", <<>>, <<>>) EXCEPT !.path = Absolute,
     !.query = <<P(<<"k">>, <<" ", "%">>), P(<<"k">>, <<"b">>)>>, !.fragment = <<"#", "?">>],
  [Msg(V11, <<>>, "none", <<>>, <<>>) EXCEPT !.query = <<P(<<"a">>, <<"+">>), P(<<"k">>, <<"=", "#">>)>>]}
EveryMethod == {[Msg(V11, <<>>, "none", <<>>, <<>>) EXCEPT
  !.method = m, !.path = IF m = "CONNECT" THEN <<"a", ":", "1">> ELSE <<"*">>] : m \in Method}

SomeMistaken == {<<m>> : m \in {
  [Msg(V11, <<Folded>>, "chunks", <<"G">>, <<Plain>>) EXCEPT !.path = <<"h", ":", "/", "/", "a", "/">>],
  [Msg(V11, <<H(CONNECTION, <<CLOSE>>)>>, "length", Body, <<>>) EXCEPT !.query = <<P(<<"k">>, <<"&">>)>>],
  Msg(V10, <<H(CONNECTION, <<KEEP_ALIVE>>), Empty>>, "length", Body, <<>>)}}

SomeConversations ==
  TwoMessages \cup AfterTrailers \cup {<<m>> : m \in Urls \cup EveryMethod} \cup SomeMistaken

SomeKeys == {<<"k">>, <<"k", "=">>, <<"a">>}

View == <<parser, data, p, again, mark, fed, self, conversation, stream, wrong, over, handled>>
=============================================================================
