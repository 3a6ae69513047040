--------------------------- MODULE RequestParser ---------------------------
(***************************************************************************)
(* crow::HTTPParser: the request that the callbacks of HttpParser build,   *)
(* and handle() called with it.  The peer sends a conversation, a sequence *)
(* of messages; the socket hands its bytes to feed() in arbitrary pieces.  *)
(* A peer may get one byte wrong, and it may leave at any time.            *)
(***************************************************************************)
EXTENDS HttpParser, QueryParams

CONSTANTS
  Conversations,  \* the sequences of messages a peer may send
  Mistaken,       \* those of them in which one byte may be wrong
  WrongBytes,     \* what such a byte is instead
  Keys,           \* the query keys a handler asks for
  PieceLengths    \* how many bytes one read may return

VARIABLES
  self,          \* the members of HTTPParser
  conversation,  \* what the peer sends
  stream,        \* the bytes of it that were not read yet
  wrong,         \* one of its bytes is not the one that was meant
  over,          \* done() was called: nothing is read any more
  handled        \* the requests handle() was called with

requestVars == <<vars, self, conversation, stream, wrong, over, handled>>

(***************************************************************************)
(* The peer: how a message is put on the wire.  A value of several parts   *)
(* is folded over several lines.                                           *)
(***************************************************************************)
RawUrl(m) == m.path \o QueryText(m.query) \o m.fragment

Line(m, words) == words \o m.eol

HeaderLine(m, h) ==
  h.field \o <<":", " ">> \o FlattenSeq(
    [i \in DOMAIN h.value |-> IF i = 1 THEN Line(m, h.value[1]) ELSE Line(m, <<" ">> \o h.value[i])])

Framing(m) ==
  CASE m.framing = "none" -> <<>>
    [] m.framing = "length" ->
         <<[field |-> CONTENT_LENGTH, value |-> <<<<HexDigits[Len(m.body) + 1]>>>>]>>
    [] m.framing = "chunks" -> <<[field |-> TRANSFER_ENCODING, value |-> <<CHUNKED>>]>>

AllHeaders(m) == Framing(m) \o m.headers

\* A chunk for every byte but the last two, which share one.
Chunks(b) ==
  LET n == IF Len(b) < 2 THEN Len(b) ELSE Len(b) - 1
      Part(i) == IF i = n THEN SubSeq(b, n, Len(b)) ELSE <<b[i]>>
  IN FlattenSeq([i \in 1 .. n |->
       <<HexDigits[Len(Part(i)) + 1], CR, LF>> \o Part(i) \o <<CR, LF>>])

Headers(m, hs) == Line(m, FlattenSeq([i \in DOMAIN hs |-> HeaderLine(m, hs[i])]))

WireHead(m) ==
  Line(m, method_strings[m.method] \o <<" ">> \o RawUrl(m)
          \o <<" ", "H", "T", "T", "P", "/">> \o m.version)
  \o Headers(m, AllHeaders(m))

Wire(m) ==
  WireHead(m) \o IF m.framing = "chunks"
                 THEN Chunks(m.body) \o <<"0", ";", "x", CR, LF>> \o Headers(m, m.trailers)
                 ELSE m.body

Bytes(c) == FlattenSeq([i \in DOMAIN c |-> Wire(c[i])])

ASSUME BytesAssumption ==
  /\ \A c \in Conversations : Bytes(c) \in Seq(STRING)
  /\ WrongBytes \subseteq STRING
  /\ PieceLengths \subseteq Nat \ {0}

(***************************************************************************)
(* The callbacks.                                                          *)
(***************************************************************************)
clear == [raw_url |-> <<>>, url |-> <<>>, url_params |-> no_params,
          header_building_state |-> 0, header_field |-> <<>>, header_value |-> <<>>,
          headers |-> <<>>, body |-> <<>>]

on_url(text) == [self EXCEPT !.raw_url = @ \o text]

\* headers.emplace(std::move(header_field), std::move(header_value))
Emplaced == [self EXCEPT !.headers = Append(@, [field |-> self.header_field, value |-> self.header_value]),
                         !.header_field = <<>>, !.header_value = <<>>]

on_header_field(text) ==
  IF self.header_building_state = 0
  THEN [(IF self.header_value # <<>> THEN Emplaced ELSE self)
         EXCEPT !.header_field = text, !.header_building_state = 1]
  ELSE [self EXCEPT !.header_field = @ \o text]

on_header_value(text) ==
  IF self.header_building_state = 0
  THEN [self EXCEPT !.header_value = @ \o text]
  ELSE [self EXCEPT !.header_value = text, !.header_building_state = 0]

on_headers_complete == IF self.header_field # <<>> THEN Emplaced ELSE self

on_body(text) == [self EXCEPT !.body = @ \o text]

\* url: the raw URL up to its "?"; url_params: its pairs.
on_message_complete ==
  LET end == strcspn(self.raw_url, 1, {"?"})
  IN [self EXCEPT !.url = SubSeq(self.raw_url, 1, end),
                  !.url_params = query_string(self.raw_url)]

to_request(q, s) == [method |-> q.method, raw_url |-> s.raw_url, url |-> s.url,
                     url_params |-> s.url_params, headers |-> s.headers, body |-> s.body]

Callback(e) ==
  /\ self' = CASE e.on = "message_begin" -> clear
               [] e.on = "url" -> on_url(e.text)
               [] e.on = "header_field" -> on_header_field(e.text)
               [] e.on = "header_value" -> on_header_value(e.text)
               [] e.on = "headers_complete" -> on_headers_complete
               [] e.on = "body" -> on_body(e.text)
               [] e.on = "message_complete" -> on_message_complete
               [] e.on = "nothing" -> self
  /\ handled' = IF e.on = "message_complete"
                THEN Append(handled, to_request(parser, self')) ELSE handled

RequestInit ==
  /\ Init
  /\ self = clear
  /\ conversation \in Conversations
  /\ stream = Bytes(conversation)
  /\ wrong = FALSE /\ over = FALSE
  /\ handled = <<>>

\* The peer sends something else than the byte it should send next.
mistake(b) ==
  /\ conversation \in Mistaken
  /\ data = <<>> /\ stream # <<>> /\ ~wrong /\ ~over
  /\ stream' = [stream EXCEPT ![1] = b]
  /\ wrong' = TRUE
  /\ UNCHANGED <<vars, self, conversation, over, handled>>

\* do_read() goes on reading only after a feed() that returned true, and not
\* once the socket was handed to handle_upgrade().
feed(n) ==
  /\ fed /\ ~parser.upgrade /\ stream # <<>> /\ ~over
  /\ LET k == Min({n, Len(stream)})
     IN http_parser_execute(SubSeq(stream, 1, k)) /\ stream' = SubSeq(stream, k + 1, Len(stream))
  /\ UNCHANGED <<self, conversation, wrong, over, handled>>

parse == step /\ Callback(event') /\ UNCHANGED <<conversation, stream, wrong, over>>

\* A read that failed, for example because the peer has left, a feed() that
\* returned false or a response that closes the connection ends with done().
finish ==
  /\ done /\ ~over
  /\ over' = TRUE
  /\ UNCHANGED <<self, conversation, stream, wrong, handled>>

RequestNext ==
  \/ parse \/ finish
  \/ \E n \in PieceLengths : feed(n)
  \/ \E b \in WrongBytes : mistake(b)

RequestSpec == RequestInit /\ [][RequestNext]_requestVars

(***************************************************************************)
(* Properties.                                                             *)
(***************************************************************************)
\* The value the application should see: the parts of a folded value, each
\* with the blank it was folded with.
Value(h) == FlattenSeq([i \in DOMAIN h.value |-> IF i = 1 THEN h.value[1] ELSE <<" ">> \o h.value[i]])

\* A header with an empty value is kept only when it is the last one, and a
\* trailer only when another trailer follows.
Kept(m) ==
  LET all == AllHeaders(m) \o m.trailers
      n == Len(AllHeaders(m))
      full == SelectSeq([i \in DOMAIN all |-> [field |-> all[i].field, value |-> Value(all[i]), at |-> i]],
                        LAMBDA h : h.at = n \/ (h.value # <<>> /\ h.at < Len(all)))
  IN [i \in DOMAIN full |-> [field |-> full[i].field, value |-> full[i].value]]

\* Whether the connection takes another message after m.
Says(m, field, value) == \E i \in DOMAIN m.headers : m.headers[i] = [field |-> field, value |-> value]
Persists(m) ==
  /\ m.method # "CONNECT"
  /\ ~\E i \in DOMAIN m.headers : m.headers[i].field = UPGRADE
  /\ IF m.version = <<"1", ".", "1">> THEN ~Says(m, CONNECTION, <<CLOSE>>)
                                     ELSE Says(m, CONNECTION, <<KEEP_ALIVE>>)

\* What counts towards the limit when message i starts: the trailers before it.
Carried(i) ==
  IF i > 1 /\ conversation[i - 1].framing = "chunks"
  THEN Len(Headers(conversation[i - 1], conversation[i - 1].trailers)) ELSE 0
TooLong(i) == Carried(i) + Len(WireHead(conversation[i])) > MaxHeaderSize

\* How many messages of the conversation are taken: all up to the first that
\* ends the connection, and all before the first that is too long.
Taken ==
  Min({Len(conversation)} \cup {i \in DOMAIN conversation : ~Persists(conversation[i])}
      \cup {i - 1 : i \in {j \in DOMAIN conversation : TooLong(j)}})

\* The states in which the bytes of a field are read.
Reading == [
  url |-> URL_States,
  header_field |-> {"s_header_field"},
  header_value |-> {"s_header_value"},
  body |-> {"s_body_identity", "s_message_done", "s_chunk_data", "s_chunk_data_almost_done"}]

\* What the callbacks have put together of a field; the next piece of a name
\* replaces the name when header_building_state is 0.
Text(f) ==
  CASE f = "url" -> self.raw_url
    [] f = "header_field" -> IF self.header_building_state = 1 THEN self.header_field ELSE <<>>
    [] f = "header_value" -> self.header_value
    [] f = "body" -> self.body

\* What the parser has read of a field, delivered or not.
Whole(f) == Text(f) \o IF mark[f] = 0 THEN <<>> ELSE SubSeq(data, mark[f], p - 1)

\* The bytes still to be read: s_message_done sees the last byte of the body again.
Unread ==
  SubSeq(data, IF parser.state = "s_message_done" THEN p + 1 ELSE p, Len(data)) \o stream

\* While a field is read every byte of the stream becomes part of it, in
\* order and once, with its first byte (the body starts after the byte that
\* leads to it); what ends it does not.  It then stays as it is until the
\* next message begins, or, for a header, until it is put with the others.
FieldStep(f) ==
  \/ /\ parser'.state \in Reading[f] /\ (parser.state \in Reading[f] \/ f # "body")
     /\ Whole(f)' \o Unread' = Whole(f) \o Unread
  \/ /\ parser'.state \notin Reading[f] \/ (parser.state \notin Reading[f] /\ f = "body")
     /\ \/ Whole(f)' = Whole(f)
        \/ event'.on = "message_begin" /\ self' = clear
        \/ f = "header_field" /\ parser.state # "s_header_field" /\ Whole(f)' = <<>>
        \/ /\ f = "header_value" /\ parser.state # "s_header_value" /\ Whole(f)' = <<>>
           /\ self'.headers = Append(self.headers, [field |-> self.header_field,
                                                    value |-> self.header_value])

\* Wherever the reads cut the bytes, the callbacks of HTTPParser put the url,
\* the names and values of headers and the body together from the bytes of
\* the stream without losing, repeating or moving one, whatever the bytes
\* are; and a body or chunk gets as many bytes as content_length announced.
PiecesMakeNoDifference ==
  [][wrong' = wrong /\ parser'.http_errno = "OK" =>
       /\ \A f \in Field : FieldStep(f)
       /\ parser.state \in {"s_body_identity", "s_chunk_data"} =>
            parser'.content_length + Len(Whole("body")') =
              parser.content_length + Len(Whole("body"))]_requestVars

\* Every request handed to handle() is the one the peer sent at that place of
\* the conversation: method, URL, headers and body are whole, nothing of the
\* previous message is left in it, each query key has the value that was sent
\* first for it, and where the reads cut the bytes makes no difference.  When
\* nothing more will be read, every message was handled, up to the one after
\* which the connection ends or the first with too long a head.  The trailers
\* of a chunked message count towards the head of the next one.
RequestsArriveAsSent ==
  ~wrong =>
    /\ Len(handled) <= Taken
    /\ \A i \in DOMAIN handled :
         LET m == conversation[i]
         IN /\ handled[i].method = m.method
            /\ handled[i].raw_url = RawUrl(m) /\ handled[i].url = m.path
            /\ \A key \in Keys : get(handled[i].url_params, Escape(key)) = Meant(m.query, key)
            /\ handled[i].headers = Kept(m) /\ handled[i].body = m.body
    /\ ~over /\ data = <<>> /\ (stream = <<>> \/ ~fed \/ parser.upgrade) =>
         Len(handled) = Taken
=============================================================================
