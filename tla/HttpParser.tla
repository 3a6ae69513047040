----------------------------- MODULE HttpParser -----------------------------
(***************************************************************************)
(* http_parser_execute() for a parser of type HTTP_REQUEST, the only type  *)
(* crow creates.  One step is one execution of the loop's switch: the byte *)
(* is consumed (Break), seen again (Again, "goto reexecute_byte") or       *)
(* refused (Error).  Every callback is the event of the step that makes it. *)
(*                                                                         *)
(* A byte is a one-character string.  The letters of a header keyword that *)
(* no branch tells apart are one symbol, e.g. "ection"; where bytes are    *)
(* counted it counts as one byte.                                          *)
(***************************************************************************)
EXTENDS Integers, Sequences, FiniteSets

CONSTANTS
  MaxHeaderSize,  \* CROW_HTTP_MAX_HEADER_SIZE
  ULLONG_MAX      \* the largest content_length, and "no length given"

ASSUME HttpParserAssumption ==
  MaxHeaderSize \in Nat /\ ULLONG_MAX \in Nat /\ ULLONG_MAX >= 16

VARIABLES
  parser,   \* struct http_parser
  data,     \* the piece being parsed; <<>> between two calls
  p,        \* the position of the current byte in data
  again,    \* the switch runs again for the same byte
  mark,     \* where the field being received starts in data; 0: NULL
  event,    \* the callback made by the last step
  fed       \* the last call consumed its whole piece: nparsed == length

vars == <<parser, data, p, again, mark, event, fed>>

method_strings == [
  DELETE |-> <<"D", "E", "L", "E", "T", "E">>, GET |-> <<"G", "E", "T">>,
  HEAD |-> <<"H", "E", "A", "D">>, POST |-> <<"P", "O", "S", "T">>,
  PUT |-> <<"P", "U", "T">>, CONNECT |-> <<"C", "O", "N", "N", "E", "C", "T">>,
  OPTIONS |-> <<"O", "P", "T", "I", "O", "N", "S">>,
  TRACE |-> <<"T", "R", "A", "C", "E">>, COPY |-> <<"C", "O", "P", "Y">>,
  LOCK |-> <<"L", "O", "C", "K">>, MKCOL |-> <<"M", "K", "C", "O", "L">>,
  MOVE |-> <<"M", "O", "V", "E">>,
  PROPFIND |-> <<"P", "R", "O", "P", "F", "I", "N", "D">>,
  PROPPATCH |-> <<"P", "R", "O", "P", "P", "A", "T", "C", "H">>,
  SEARCH |-> <<"S", "E", "A", "R", "C", "H">>, UNLOCK |-> <<"U", "N", "L", "O", "C", "K">>,
  REPORT |-> <<"R", "E", "P", "O", "R", "T">>,
  MKACTIVITY |-> <<"M", "K", "A", "C", "T", "I", "V", "I", "T", "Y">>,
  CHECKOUT |-> <<"C", "H", "E", "C", "K", "O", "U", "T">>,
  MERGE |-> <<"M", "E", "R", "G", "E">>,
  MSEARCH |-> <<"M", "-", "S", "E", "A", "R", "C", "H">>,
  NOTIFY |-> <<"N", "O", "T", "I", "F", "Y">>,
  SUBSCRIBE |-> <<"S", "U", "B", "S", "C", "R", "I", "B", "E">>,
  UNSUBSCRIBE |-> <<"U", "N", "S", "U", "B", "S", "C", "R", "I", "B", "E">>,
  PATCH |-> <<"P", "A", "T", "C", "H">>, PURGE |-> <<"P", "U", "R", "G", "E">>,
  MKCALENDAR |-> <<"M", "K", "C", "A", "L", "E", "N", "D", "A", "R">>]

Method == DOMAIN method_strings

PROXY_CONNECTION == <<"p", "roxy", "-", "connection">>
CONNECTION == <<"c", "o", "n", "n", "ection">>
CONTENT_LENGTH == <<"c", "o", "n", "t", "ent", "-", "length">>
TRANSFER_ENCODING == <<"t", "ransfer", "-", "encoding">>
UPGRADE == <<"u", "pgrade">>
CHUNKED == <<"c", "hunked">>
KEEP_ALIVE == <<"k", "eep", "-", "alive">>
CLOSE == <<"c", "lose">>

\* What each matching header_state looks for, and the state once it is found.
Keyword == [
  h_matching_connection |-> [word |-> CONNECTION, found |-> "h_connection"],
  h_matching_proxy_connection |-> [word |-> PROXY_CONNECTION, found |-> "h_connection"],
  h_matching_content_length |-> [word |-> CONTENT_LENGTH, found |-> "h_content_length"],
  h_matching_transfer_encoding |->
    [word |-> TRANSFER_ENCODING, found |-> "h_transfer_encoding"],
  h_matching_upgrade |-> [word |-> UPGRADE, found |-> "h_upgrade"],
  h_matching_transfer_encoding_chunked |->
    [word |-> CHUNKED, found |-> "h_transfer_encoding_chunked"],
  h_matching_connection_keep_alive |->
    [word |-> KEEP_ALIVE, found |-> "h_connection_keep_alive"],
  h_matching_connection_close |-> [word |-> CLOSE, found |-> "h_connection_close"]]

FieldMatching == {"h_matching_connection", "h_matching_proxy_connection",
  "h_matching_content_length", "h_matching_transfer_encoding", "h_matching_upgrade"}
ValueMatching == DOMAIN Keyword \ FieldMatching
FieldMatched == {"h_connection", "h_content_length", "h_transfer_encoding", "h_upgrade"}
ValueMatched == {"h_transfer_encoding_chunked", "h_connection_keep_alive",
  "h_connection_close"}
HeaderState == {"h_general", "h_C", "h_CO", "h_CON"} \cup DOMAIN Keyword
               \cup FieldMatched \cup ValueMatched

\* The states of the URL in which a piece continues it (and URL_NoSpace, in
\* which white space is an error).
URL_NoSpace == {"s_req_schema", "s_req_schema_slash", "s_req_schema_slash_slash",
  "s_req_server_start"}
URL_Space == {"s_req_server", "s_req_server_with_at", "s_req_path",
  "s_req_query_string_start", "s_req_query_string", "s_req_fragment_start",
  "s_req_fragment"}
URL_States == URL_NoSpace \cup URL_Space

ChunkStates == {"s_chunk_size_start", "s_chunk_size", "s_chunk_parameters",
  "s_chunk_size_almost_done", "s_chunk_data", "s_chunk_data_almost_done",
  "s_chunk_data_done"}
BodyStates == {"s_chunk_data", "s_chunk_data_almost_done", "s_chunk_data_done",
  "s_body_identity", "s_message_done"}

\* CROW_PARSING_HEADER: every state but those of the body.
HeaderStates == {"s_dead", "s_start_req", "s_req_method", "s_req_spaces_before_url",
  "s_req_http_start", "s_req_http_H", "s_req_http_HT", "s_req_http_HTT",
  "s_req_http_HTTP", "s_req_first_http_major", "s_req_http_major",
  "s_req_first_http_minor", "s_req_http_minor", "s_req_line_almost_done",
  "s_header_field_start", "s_header_field", "s_header_value_discard_ws",
  "s_header_value_discard_ws_almost_done", "s_header_value_discard_lws",
  "s_header_value_start", "s_header_value", "s_header_value_lws",
  "s_header_almost_done", "s_headers_almost_done", "s_headers_done"}
  \cup URL_States \cup (ChunkStates \ BodyStates)

Flag == {"CHUNKED", "KEEP_ALIVE", "CLOSE", "TRAILING", "UPGRADE"}
Errno == {"OK", "HEADER_OVERFLOW", "CLOSED_CONNECTION", "INVALID_EOF_STATE",
  "INVALID_METHOD", "INVALID_URL", "INVALID_CONSTANT", "STRICT", "INVALID_VERSION",
  "LF_EXPECTED", "INVALID_HEADER_TOKEN", "INVALID_CONTENT_LENGTH",
  "INVALID_CHUNK_SIZE"}

(***************************************************************************)
(* Classes of bytes.                                                       *)
(***************************************************************************)
CR == "CR"
LF == "LF"
TAB == "HT"
Blank == {" ", TAB}

LowerCase == [A |-> "a", B |-> "b", C |-> "c", D |-> "d", E |-> "e", F |-> "f", G
  |-> "g", H |-> "h", I |-> "i", J |-> "j", K |-> "k", L |-> "l", M |-> "m", N |->
  "n", O |-> "o", P |-> "p", Q |-> "q", R |-> "r", S |-> "s", T |-> "t", U |-> "u",
  V |-> "v", W |-> "w", X |-> "x", Y |-> "y", Z |-> "z"]

LOWER(c) == IF c \in DOMAIN LowerCase THEN LowerCase[c] ELSE c

\* Runs of letters of the keywords are letters too.
ALPHA == DOMAIN LowerCase \cup {LowerCase[c] : c \in DOMAIN LowerCase}
  \cup {"connection", "roxy", "ection", "ent", "length", "ransfer", "encoding",
        "pgrade", "hunked", "eep", "alive", "lose"}

HexDigits == <<"0", "1", "2", "3", "4", "5", "6", "7", "8", "9", "a", "b", "c", "d", "e", "f">>
unhex == [c \in {HexDigits[i] : i \in 1 .. 16} |-> (CHOOSE i \in 1 .. 16 : HexDigits[i] = c) - 1]
Digit == [c \in {HexDigits[i] : i \in 1 .. 10} |-> unhex[c]]

Control == {CR, LF, TAB, "FF", "NUL"}
Separator == {"(", ")", "<", ">", "@", ",", ";", ":", "/", "[", "]", "?", "=", "{",
  "}", " ", TAB}

IS_URL_CHAR(c) == c \notin Control \cup {" ", "?", "#"}
IS_USERINFO_CHAR(c) == c \in ALPHA \cup DOMAIN Digit \cup {"-", "_", ".", "!", "~", "*",
  "(", ")", "%", ";", ":", "&", "=", "+", "$", ","}
IS_TOKEN(c) == c \notin Control \cup Separator

(***************************************************************************)
(* The URL automaton, shared with http_parser_parse_url().                 *)
(***************************************************************************)
parse_url_char(s, c) ==
  CASE c \in Blank \cup {CR, LF, "FF"} -> "s_dead"
    [] s = "s_req_spaces_before_url" /\ c \in {"/", "*"} -> "s_req_path"
    [] s = "s_req_spaces_before_url" /\ c \in ALPHA -> "s_req_schema"
    [] s = "s_req_schema" /\ c \in ALPHA -> s
    [] s = "s_req_schema" /\ c = ":" -> "s_req_schema_slash"
    [] s = "s_req_schema_slash" /\ c = "/" -> "s_req_schema_slash_slash"
    [] s = "s_req_schema_slash_slash" /\ c = "/" -> "s_req_server_start"
    [] s \in {"s_req_server_with_at", "s_req_server_start", "s_req_server"} ->
         CASE c = "/" -> "s_req_path"
           [] c = "?" -> "s_req_query_string_start"
           [] c = "@" -> IF s = "s_req_server_with_at" THEN "s_dead" ELSE "s_req_server_with_at"
           [] IS_USERINFO_CHAR(c) \/ c \in {"[", "]"} -> "s_req_server"
           [] OTHER -> "s_dead"
    [] s = "s_req_path" /\ IS_URL_CHAR(c) -> s
    [] s = "s_req_path" /\ c = "?" -> "s_req_query_string_start"
    [] s \in {"s_req_query_string_start", "s_req_query_string"}
         /\ (IS_URL_CHAR(c) \/ c = "?") -> "s_req_query_string"
    [] s \in {"s_req_path", "s_req_query_string_start", "s_req_query_string"}
         /\ c = "#" -> "s_req_fragment_start"
    [] s = "s_req_fragment_start" /\ (IS_URL_CHAR(c) \/ c = "?") -> "s_req_fragment"
    [] s \in {"s_req_fragment_start", "s_req_fragment"} /\ c = "#" -> s
    [] s = "s_req_fragment" /\ (IS_URL_CHAR(c) \/ c = "?") -> s
    [] OTHER -> "s_dead"

(***************************************************************************)
(* The loop.                                                               *)
(***************************************************************************)
None == [on |-> "nothing", text |-> <<>>]
Field == {"header_field", "header_value", "url", "body"}
Unmarked == [f \in Field |-> 0]

\* http_parser_init(self, HTTP_REQUEST)
http_parser_init ==
  [state |-> "s_start_req", header_state |-> "h_general", index |-> 0, flags |-> {},
   nread |-> 0, content_length |-> 0, http_major |-> 0, http_minor |-> 0,
   method |-> "DELETE", http_errno |-> "OK", upgrade |-> FALSE]

Init ==
  /\ parser = http_parser_init
  /\ data = <<>> /\ p = 1 /\ again = FALSE
  /\ mark = Unmarked /\ event = None /\ fed = TRUE

\* Mistake: HTTP/1.1 messages too need "Connection: keep-alive".
http_should_keep_aliveMistake(q) == "KEEP_ALIVE" \in q.flags

http_should_keep_alive(q) ==
  IF q.http_major > 0 /\ q.http_minor > 0 THEN "CLOSE" \notin q.flags
                                          ELSE "KEEP_ALIVE" \in q.flags

NEW_MESSAGE(q) == IF http_should_keep_alive(q) THEN "s_start_req" ELSE "s_dead"

\* Mistake: a piece that starts inside a header's value does not mark it.
ContinuedMistake == [f \in Field |->
  IF \/ f = "header_field" /\ parser.state = "s_header_field"
     \/ f = "url" /\ parser.state \in URL_States
  THEN 1 ELSE 0]

\* The marks with which a call starts that goes on with a field.
Continued == [f \in Field |->
  IF \/ f = "header_field" /\ parser.state = "s_header_field"
     \/ f = "header_value" /\ parser.state = "s_header_value"
     \/ f = "url" /\ parser.state \in URL_States
  THEN 1 ELSE 0]

\* A call with at least one byte; after an error it returns 0 at once.
http_parser_execute(piece) ==
  /\ data = <<>> /\ piece # <<>>
  /\ IF parser.http_errno = "OK"
     THEN data' = piece /\ mark' = Continued /\ fed' = FALSE
     ELSE fed' = FALSE /\ UNCHANGED <<data, mark>>
  /\ p' = 1 /\ event' = None
  /\ UNCHANGED <<parser, again>>

\* A call with no byte: the end of the stream.  After an error it returns 0,
\* which is its length.
done ==
  /\ data = <<>>
  /\ fed' = (parser.http_errno # "OK" \/ parser.state \in {"s_dead", "s_start_req"})
  /\ parser' = IF fed' THEN parser ELSE [parser EXCEPT !.http_errno = "INVALID_EOF_STATE"]
  /\ event' = None
  /\ UNCHANGED <<data, p, again, mark>>

ch == data[p]

\* Entering the loop body counts a byte of the header.
Counted ==
  IF ~again /\ parser.state \in HeaderStates
  THEN [parser EXCEPT !.nread = @ + 1] ELSE parser

In(S) ==
  /\ p \in DOMAIN data
  /\ parser.state \in S
  /\ Counted.nread <= MaxHeaderSize

Quiet == event' = None /\ UNCHANGED mark
Notify(cb) == event' = [on |-> cb, text |-> <<>>] /\ UNCHANGED mark
Marked(f) == IF mark[f] = 0 THEN p ELSE mark[f]
Mark(f) == mark' = [mark EXCEPT ![f] = Marked(f)] /\ event' = None

\* Mistake: the mark is not cleared after the callback.
DeliverMistake(f, from, n) ==
  /\ event' = IF from = 0 THEN None ELSE [on |-> f, text |-> SubSeq(data, from, n - 1)]
  /\ UNCHANGED mark

\* CROW_CALLBACK_DATA: the bytes from the mark up to, not including, position n.
Deliver(f, from, n) ==
  /\ event' = IF from = 0 THEN None ELSE [on |-> f, text |-> SubSeq(data, from, n - 1)]
  /\ mark' = [mark EXCEPT ![f] = 0]

Break(q) == parser' = q /\ p' = p + 1 /\ again' = FALSE /\ UNCHANGED <<data, fed>>
Again(q) == parser' = q /\ again' = TRUE /\ UNCHANGED <<data, p, fed>>
Return(q, whole) ==
  /\ parser' = q /\ data' = <<>> /\ p' = 1 /\ again' = FALSE /\ fed' = whole
Error(e) ==
  /\ Return([Counted EXCEPT !.http_errno = e], FALSE)
  /\ mark' = Unmarked /\ event' = None

To(s) == [Counted EXCEPT !.state = s]

\* CROW_STRICT_CHECK(ch != c), then Break in state s.
Strict(c, s) == IF ch = c THEN Break(To(s)) /\ Quiet ELSE Error("STRICT")

header_overflow ==
  /\ p \in DOMAIN data
  /\ Counted.nread > MaxHeaderSize
  /\ Error("HEADER_OVERFLOW")

s_dead ==
  /\ In({"s_dead"})
  /\ IF ch \in {CR, LF} THEN Break(Counted) /\ Quiet ELSE Error("CLOSED_CONNECTION")

\* The method that a first letter stands for until a later letter tells more.
FirstMethod == [C |-> "CONNECT", D |-> "DELETE", G |-> "GET", H |-> "HEAD", L |-> "LOCK",
  M |-> "MKCOL", N |-> "NOTIFY", O |-> "OPTIONS", P |-> "POST", R |-> "REPORT",
  S |-> "SUBSCRIBE", T |-> "TRACE", U |-> "UNLOCK"]

s_start_req ==
  /\ In({"s_start_req"})
  /\ CASE ch \in {CR, LF} -> Break(Counted) /\ Quiet
       [] ch \in DOMAIN FirstMethod ->
            /\ Break([To("s_req_method") EXCEPT !.flags = {}, !.content_length = ULLONG_MAX,
                        !.index = 1, !.method = FirstMethod[ch]])
            /\ Notify("message_begin")
       [] OTHER -> Error("INVALID_METHOD")

\* Where a letter that does not fit the method leads to another one.
OtherMethod == {
  <<"CONNECT", 1, "H", "CHECKOUT">>, <<"CONNECT", 2, "P", "COPY">>,
  <<"MKCOL", 1, "O", "MOVE">>, <<"MKCOL", 1, "E", "MERGE">>, <<"MKCOL", 1, "-", "MSEARCH">>,
  <<"MKCOL", 2, "A", "MKACTIVITY">>, <<"MKCOL", 3, "A", "MKCALENDAR">>,
  <<"SUBSCRIBE", 1, "E", "SEARCH">>,
  <<"POST", 1, "R", "PROPFIND">>, <<"POST", 1, "U", "PUT">>, <<"POST", 1, "A", "PATCH">>,
  <<"PUT", 2, "R", "PURGE">>, <<"UNLOCK", 2, "S", "UNSUBSCRIBE">>,
  <<"PROPFIND", 4, "P", "PROPPATCH">>}

Others(m, i, c) == {t \in OtherMethod : t[1] = m /\ t[2] = i /\ t[3] = c}

s_req_method ==
  /\ In({"s_req_method"})
  /\ LET matcher == method_strings[parser.method]
         i == parser.index
         other == Others(parser.method, i, ch)
         Go(s, m) == Break([To(s) EXCEPT !.method = m, !.index = i + 1]) /\ Quiet
     IN CASE ch = " " /\ i = Len(matcher) -> Go("s_req_spaces_before_url", parser.method)
          [] i < Len(matcher) /\ ch = matcher[i + 1] -> Go("s_req_method", parser.method)
          [] other # {} /\ ~(i < Len(matcher) /\ ch = matcher[i + 1]) ->
               \E t \in other : Go("s_req_method", t[4])
          [] OTHER -> Error("INVALID_METHOD")

\* Break in the state parse_url_char() leads to.
Url(s) ==
  LET t == parse_url_char(s, ch)
  IN IF t = "s_dead" THEN Error("INVALID_URL") ELSE Break(To(t)) /\ Mark("url")

s_req_spaces_before_url ==
  /\ In({"s_req_spaces_before_url"})
  /\ IF ch = " " THEN Break(Counted) /\ Quiet
     ELSE Url(IF parser.method = "CONNECT" THEN "s_req_server_start" ELSE parser.state)

s_req_schema == In(URL_NoSpace) /\ Url(parser.state)

s_req_server ==
  /\ In(URL_Space)
  /\ CASE ch = " " -> Break(To("s_req_http_start")) /\ Deliver("url", mark["url"], p)
       [] ch \in {CR, LF} ->
            /\ Break([To(IF ch = CR THEN "s_req_line_almost_done"
                                    ELSE "s_header_field_start")
                      EXCEPT !.http_major = 0, !.http_minor = 9])
            /\ Deliver("url", mark["url"], p)
       [] OTHER -> Url(parser.state)

s_req_http_start ==
  /\ In({"s_req_http_start"})
  /\ CASE ch = "H" -> Break(To("s_req_http_H")) /\ Quiet
       [] ch = " " -> Break(Counted) /\ Quiet
       [] OTHER -> Error("INVALID_CONSTANT")

s_req_http_H == In({"s_req_http_H"}) /\ Strict("T", "s_req_http_HT")
s_req_http_HT == In({"s_req_http_HT"}) /\ Strict("T", "s_req_http_HTT")
s_req_http_HTT == In({"s_req_http_HTT"}) /\ Strict("P", "s_req_http_HTTP")
s_req_http_HTTP == In({"s_req_http_HTTP"}) /\ Strict("/", "s_req_first_http_major")

s_req_first_http_major ==
  /\ In({"s_req_first_http_major"})
  /\ IF ch \in DOMAIN Digit \ {"0"}
     THEN Break([To("s_req_http_major") EXCEPT !.http_major = Digit[ch]]) /\ Quiet
     ELSE Error("INVALID_VERSION")

s_req_http_major ==
  /\ In({"s_req_http_major"})
  /\ CASE ch = "." -> Break(To("s_req_first_http_minor")) /\ Quiet
       [] ch \in DOMAIN Digit /\ parser.http_major * 10 + Digit[ch] <= 999 ->
            Break([Counted EXCEPT !.http_major = @ * 10 + Digit[ch]]) /\ Quiet
       [] OTHER -> Error("INVALID_VERSION")

s_req_first_http_minor ==
  /\ In({"s_req_first_http_minor"})
  /\ IF ch \in DOMAIN Digit
     THEN Break([To("s_req_http_minor") EXCEPT !.http_minor = Digit[ch]]) /\ Quiet
     ELSE Error("INVALID_VERSION")

s_req_http_minor ==
  /\ In({"s_req_http_minor"})
  /\ CASE ch = CR -> Break(To("s_req_line_almost_done")) /\ Quiet
       [] ch = LF -> Break(To("s_header_field_start")) /\ Quiet
       [] ch \in DOMAIN Digit /\ parser.http_minor * 10 + Digit[ch] <= 999 ->
            Break([Counted EXCEPT !.http_minor = @ * 10 + Digit[ch]]) /\ Quiet
       [] OTHER -> Error("INVALID_VERSION")

s_req_line_almost_done ==
  /\ In({"s_req_line_almost_done"})
  /\ IF ch = LF THEN Break(To("s_header_field_start")) /\ Quiet ELSE Error("LF_EXPECTED")

\* The header_state after the first letter of a header's name.
FirstHeaderState(c) ==
  CASE c = "c" -> "h_C"
    [] c = "p" -> "h_matching_proxy_connection"
    [] c = "t" -> "h_matching_transfer_encoding"
    [] c = "u" -> "h_matching_upgrade"
    [] OTHER -> "h_general"

s_header_field_start ==
  /\ In({"s_header_field_start"})
  /\ CASE ch = CR -> Break(To("s_headers_almost_done")) /\ Quiet
       [] ch = LF -> Again(To("s_headers_almost_done")) /\ Quiet
       [] IS_TOKEN(ch) /\ ch \notin {CR, LF} ->
            /\ Break([To("s_header_field") EXCEPT !.index = 0,
                        !.header_state = FirstHeaderState(LOWER(ch))])
            /\ Mark("header_field")
       [] OTHER -> Error("INVALID_HEADER_TOKEN")

\* One more letter of the keyword that header_state is matching.
Matched(q, c) ==
  LET k == Keyword[q.header_state]
      i == q.index + 2    \* ++index counts from 0
  IN [q EXCEPT !.index = @ + 1,
        !.header_state = CASE i > Len(k.word) \/ (i <= Len(k.word) /\ c # k.word[i]) -> "h_general"
                           [] i = Len(k.word) /\ c = k.word[i] -> k.found
                           [] OTHER -> @]

FieldLetter(q, c) ==
  LET Next1(h) == [q EXCEPT !.index = @ + 1, !.header_state = h]
  IN CASE q.header_state = "h_C" -> Next1(IF c = "o" THEN "h_CO" ELSE "h_general")
       [] q.header_state = "h_CO" -> Next1(IF c = "n" THEN "h_CON" ELSE "h_general")
       [] q.header_state = "h_CON" ->
            Next1(CASE c = "n" -> "h_matching_connection"
                    [] c = "t" -> "h_matching_content_length"
                    [] OTHER -> "h_general")
       [] q.header_state \in FieldMatching -> Matched(q, c)
       [] q.header_state \in FieldMatched -> [q EXCEPT !.header_state = "h_general"]
       [] OTHER -> q

s_header_field ==
  /\ In({"s_header_field"})
  /\ CASE IS_TOKEN(ch) -> Break(FieldLetter(Counted, LOWER(ch))) /\ Quiet
       [] ch \in {":", CR, LF} ->
            /\ Break(To(CASE ch = ":" -> "s_header_value_discard_ws"
                         [] ch = CR -> "s_header_almost_done"
                         [] ch = LF -> "s_header_field_start"))
            /\ Deliver("header_field", mark["header_field"], p)
       [] OTHER -> Error("INVALID_HEADER_TOKEN")

\* The first byte of a value (s_header_value_start).
FirstOfValue ==
  LET h == parser.header_state
      c == LOWER(ch)
      q == [To("s_header_value") EXCEPT !.index = 0]
      Go(r) == Break(r) /\ Mark("header_value")
  IN CASE h = "h_upgrade" ->
            Go([q EXCEPT !.flags = @ \cup {"UPGRADE"}, !.header_state = "h_general"])
       [] h = "h_content_length" ->
            IF ch \in DOMAIN Digit THEN Go([q EXCEPT !.content_length = Digit[ch]])
                                   ELSE Error("INVALID_CONTENT_LENGTH")
       [] OTHER -> Go([q EXCEPT !.header_state =
            CASE h = "h_transfer_encoding" /\ c = "c" -> "h_matching_transfer_encoding_chunked"
              [] h = "h_connection" /\ c = "k" -> "h_matching_connection_keep_alive"
              [] h = "h_connection" /\ c = "c" -> "h_matching_connection_close"
              [] OTHER -> "h_general"])

s_header_value_discard_ws ==
  /\ In({"s_header_value_discard_ws"})
  /\ CASE ch \in Blank -> Break(Counted) /\ Quiet
       [] ch = CR -> Break(To("s_header_value_discard_ws_almost_done")) /\ Quiet
       [] ch = LF -> Break(To("s_header_value_discard_lws")) /\ Quiet
       [] OTHER -> FirstOfValue

s_header_value_start == In({"s_header_value_start"}) /\ FirstOfValue

\* One more digit d of a number in the given base, in 64-bit arithmetic: the
\* product may wrap, and the test against a conservative limit comes after it.
Fits(n, base) == (ULLONG_MAX - base) \div base >= n
OneMoreDigit(n, base, d) == (n * base + d) % (ULLONG_MAX + 1)

s_header_value ==
  /\ In({"s_header_value"})
  /\ LET h == parser.header_state
     IN CASE ch = CR -> Break(To("s_header_almost_done"))
                        /\ Deliver("header_value", mark["header_value"], p)
          [] ch = LF -> Again(To("s_header_almost_done"))
                        /\ Deliver("header_value", mark["header_value"], p)
          [] ch \notin {CR, LF} /\ h = "h_content_length" ->
               CASE ch = " " -> Break(Counted) /\ Quiet
                 [] ch \in DOMAIN Digit /\ Fits(parser.content_length, 10) ->
                      /\ Break([Counted EXCEPT !.content_length = OneMoreDigit(@, 10, Digit[ch])])
                      /\ Quiet
                 [] OTHER -> Error("INVALID_CONTENT_LENGTH")
          [] ch \notin {CR, LF} /\ h \in ValueMatching ->
               Break(Matched(Counted, LOWER(ch))) /\ Quiet
          [] ch \notin {CR, LF} /\ h \in ValueMatched /\ ch = " " -> Break(Counted) /\ Quiet
          [] OTHER -> /\ Break([Counted EXCEPT !.header_state =
                              IF h \in {"h_connection", "h_transfer_encoding"} THEN h
                                                                             ELSE "h_general"])
                      /\ Quiet

s_header_almost_done == In({"s_header_almost_done"}) /\ Strict(LF, "s_header_value_lws")

\* The line after a header: it continues the value, or the header is finished.
FlagOf == [h_connection_keep_alive |-> {"KEEP_ALIVE"}, h_connection_close |-> {"CLOSE"},
           h_transfer_encoding_chunked |-> {"CHUNKED"}]

s_header_value_lws ==
  /\ In({"s_header_value_lws"})
  /\ IF ch \in Blank
     THEN Again(To("s_header_value_start"))
     ELSE Again([To("s_header_field_start") EXCEPT !.flags =
            @ \cup IF parser.header_state \in ValueMatched THEN FlagOf[parser.header_state] ELSE {}])
  /\ Quiet

s_header_value_discard_ws_almost_done ==
  In({"s_header_value_discard_ws_almost_done"}) /\ Strict(LF, "s_header_value_discard_lws")

s_header_value_discard_lws ==
  /\ In({"s_header_value_discard_lws"})
  /\ IF ch \in Blank
     THEN Break(To("s_header_value_discard_ws")) /\ Quiet
     ELSE Again(To("s_header_field_start")) /\ Deliver("header_value", p, p)

s_headers_almost_done ==
  /\ In({"s_headers_almost_done"})
  /\ CASE ch # LF -> Error("STRICT")
       [] ch = LF /\ "TRAILING" \in parser.flags ->
            Break(To(NEW_MESSAGE(parser))) /\ Notify("message_complete")
       [] OTHER ->
            /\ Again([To("s_headers_done") EXCEPT
                        !.upgrade = "UPGRADE" \in parser.flags \/ parser.method = "CONNECT"])
            /\ Notify("headers_complete")

\* Reached with the LF of s_headers_almost_done.  on_headers_complete()
\* returns 0, so F_SKIPBODY is never set.
s_headers_done ==
  /\ In({"s_headers_done"})
  /\ LET Zeroed(s) == [To(s) EXCEPT !.nread = 0]
     IN CASE parser.upgrade ->
               /\ Return(Zeroed(NEW_MESSAGE(parser)), p = Len(data))
               /\ event' = [on |-> "message_complete", text |-> <<>>] /\ mark' = Unmarked
          [] ~parser.upgrade /\ "CHUNKED" \in parser.flags ->
               Break(Zeroed("s_chunk_size_start")) /\ Quiet
          [] ~parser.upgrade /\ "CHUNKED" \notin parser.flags
               /\ parser.content_length \notin {0, ULLONG_MAX} ->
               Break(Zeroed("s_body_identity")) /\ Quiet
          [] OTHER -> Break(Zeroed(NEW_MESSAGE(parser))) /\ Notify("message_complete")

\* The bytes of the body this piece still holds.
to_read ==
  LET rest == Len(data) - p + 1
  IN IF parser.content_length < rest THEN parser.content_length ELSE rest

s_body_identity ==
  /\ In({"s_body_identity"})
  /\ LET left == parser.content_length - to_read
         last == p + to_read - 1
     IN IF left = 0
        THEN /\ parser' = [parser EXCEPT !.content_length = 0, !.state = "s_message_done"]
             /\ p' = last /\ again' = TRUE
             /\ Deliver("body", Marked("body"), last + 1)
        ELSE /\ parser' = [parser EXCEPT !.content_length = left]
             /\ p' = last + 1 /\ again' = FALSE
             /\ Mark("body")
  /\ UNCHANGED <<data, fed>>

s_message_done ==
  /\ In({"s_message_done"})
  /\ Break(To(NEW_MESSAGE(parser))) /\ Notify("message_complete")

s_chunk_size_start ==
  /\ In({"s_chunk_size_start"})
  /\ IF LOWER(ch) \in DOMAIN unhex
     THEN Break([To("s_chunk_size") EXCEPT !.content_length = unhex[LOWER(ch)]]) /\ Quiet
     ELSE Error("INVALID_CHUNK_SIZE")

s_chunk_size ==
  /\ In({"s_chunk_size"})
  /\ CASE ch = CR -> Break(To("s_chunk_size_almost_done")) /\ Quiet
       [] ch \in {";", " "} -> Break(To("s_chunk_parameters")) /\ Quiet
       [] LOWER(ch) \in DOMAIN unhex ->
            IF Fits(parser.content_length, 16)
            THEN /\ Break([Counted EXCEPT
                             !.content_length = OneMoreDigit(@, 16, unhex[LOWER(ch)])])
                 /\ Quiet
            ELSE Error("INVALID_CONTENT_LENGTH")
       [] OTHER -> Error("INVALID_CHUNK_SIZE")

s_chunk_parameters ==
  /\ In({"s_chunk_parameters"})
  /\ Break(IF ch = CR THEN To("s_chunk_size_almost_done") ELSE Counted) /\ Quiet

s_chunk_size_almost_done ==
  /\ In({"s_chunk_size_almost_done"})
  /\ CASE ch # LF -> Error("STRICT")
       [] ch = LF /\ parser.content_length = 0 ->
            /\ Break([To("s_header_field_start") EXCEPT !.nread = 0,
                        !.flags = @ \cup {"TRAILING"}])
            /\ Quiet
       [] OTHER -> Break([To("s_chunk_data") EXCEPT !.nread = 0]) /\ Quiet

s_chunk_data ==
  /\ In({"s_chunk_data"})
  /\ parser' = [parser EXCEPT !.content_length = @ - to_read,
       !.state = IF parser.content_length = to_read THEN "s_chunk_data_almost_done" ELSE @]
  /\ p' = p + to_read /\ again' = FALSE
  /\ Mark("body")
  /\ UNCHANGED <<data, fed>>

s_chunk_data_almost_done ==
  /\ In({"s_chunk_data_almost_done"})
  /\ IF ch = CR THEN Break(To("s_chunk_data_done")) /\ Deliver("body", mark["body"], p)
                ELSE Error("STRICT")

s_chunk_data_done ==
  /\ In({"s_chunk_data_done"})
  /\ IF ch = LF THEN Break([To("s_chunk_size_start") EXCEPT !.nread = 0]) /\ Quiet
                ELSE Error("STRICT")

\* The end of the piece: a callback for the mark that is left.
leftover ==
  /\ data # <<>> /\ p > Len(data)
  /\ LET open == {f \in Field : mark[f] # 0}
     IN event' = IF open = {} THEN None
                 ELSE LET f == CHOOSE f \in open : TRUE
                      IN [on |-> f, text |-> SubSeq(data, mark[f], Len(data))]
  /\ mark' = Unmarked
  /\ Return(parser, TRUE)

request_line ==
  \/ s_dead \/ s_start_req \/ s_req_method \/ s_req_spaces_before_url \/ s_req_schema
  \/ s_req_server \/ s_req_http_start \/ s_req_http_H \/ s_req_http_HT \/ s_req_http_HTT
  \/ s_req_http_HTTP \/ s_req_first_http_major \/ s_req_http_major
  \/ s_req_first_http_minor \/ s_req_http_minor \/ s_req_line_almost_done

header_lines ==
  \/ s_header_field_start \/ s_header_field \/ s_header_value_discard_ws
  \/ s_header_value_start \/ s_header_value \/ s_header_almost_done \/ s_header_value_lws
  \/ s_header_value_discard_ws_almost_done \/ s_header_value_discard_lws
  \/ s_headers_almost_done \/ s_headers_done

message_body ==
  \/ s_body_identity \/ s_message_done \/ s_chunk_size_start \/ s_chunk_size
  \/ s_chunk_parameters \/ s_chunk_size_almost_done \/ s_chunk_data
  \/ s_chunk_data_almost_done \/ s_chunk_data_done

step == header_overflow \/ request_line \/ header_lines \/ message_body \/ leftover

\* Arbitrary bytes in arbitrary pieces.
Next == step \/ done \/ \E piece \in Seq(STRING) : http_parser_execute(piece)

Spec == Init /\ [][Next]_vars

(***************************************************************************)
(* Properties.                                                             *)
(***************************************************************************)
\* The assert()s of http_parser_execute() hold whatever the peer sends and
\* however it is cut into pieces: a chunk size starts with the first counted
\* byte, chunks are only read with F_CHUNKED, a body only with a length that
\* is neither 0 nor the value that stands for "none", a header name or value
\* is never in a header_state its switch does not handle, and at most one
\* field is open when a piece ends.
AssertsHold ==
  /\ parser.state \in ChunkStates => "CHUNKED" \in parser.flags
  /\ parser.state = "s_chunk_size_start" /\ p \in DOMAIN data => Counted.nread = 1
  /\ parser.state \in {"s_body_identity", "s_chunk_data"} =>
       parser.content_length \notin {0, ULLONG_MAX}
  /\ parser.state = "s_chunk_data_almost_done" => parser.content_length = 0
  /\ parser.state = "s_header_field" =>
       parser.header_state \notin ValueMatching \cup ValueMatched
  /\ parser.state = "s_header_value" =>
       parser.header_state \notin {"h_connection", "h_transfer_encoding"}
  /\ \A f, g \in Field : mark[f] # 0 /\ mark[g] # 0 => f = g
=============================================================================
