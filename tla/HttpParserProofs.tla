-------------------------- MODULE HttpParserProofs --------------------------
(***************************************************************************)
(* No assert() of http_parser_execute() ever fails: for every input, cut   *)
(* into pieces in every way, for any limit on the header and any width of  *)
(* content_length.  One lemma per case of the switch.  Then, with the      *)
(* callbacks of crow::HTTPParser: where the reads cut the bytes makes no   *)
(* difference to the request that is put together.                         *)
(***************************************************************************)
EXTENDS RequestParser, SequenceTheorems, TLAPS

\* Every state of the switch.
State == HeaderStates \cup BodyStates

\* The values struct http_parser may hold.
Parsers ==
  [state : State, header_state : HeaderState, index : Nat, flags : SUBSET Flag,
   nread : Nat, content_length : 0 .. ULLONG_MAX, http_major : Nat, http_minor : Nat,
   method : Method, http_errno : Errno, upgrade : BOOLEAN]

\* The parser is one of them.
ParserOK == parser \in Parsers

\* The arguments and the marks of the call have their types.
CallOK ==
  /\ data \in Seq(STRING) /\ p \in Nat \ {0}
  /\ mark \in [Field -> Nat]

\* An error ends the call: no step is taken with http_errno set.
ErrorEnds == parser.http_errno # "OK" => data = <<>>

\* Chunks are only read in a message with F_CHUNKED.
ChunkFlag == parser.state \in ChunkStates => "CHUNKED" \in parser.flags

\* Where a chunk size starts, nread was reset and the byte is a new one.
SizeCounts ==
  parser.state = "s_chunk_size_start" /\ parser.http_errno = "OK" =>
    parser.nread = 0 /\ again = FALSE

\* content_length where it is used.  In the line before a chunk it must
\* already differ from the value for "none", which s_chunk_data asserts.
Lengths ==
  /\ parser.state \in {"s_body_identity", "s_chunk_data"} =>
       parser.content_length \notin {0, ULLONG_MAX}
  /\ parser.state \in {"s_chunk_size", "s_chunk_parameters", "s_chunk_size_almost_done"} =>
       parser.content_length # ULLONG_MAX
  /\ parser.state = "s_chunk_data_almost_done" => parser.content_length = 0

\* The header_states that the switches of a header name and value handle.
HeaderStatesFit ==
  /\ parser.state = "s_header_field" =>
       parser.header_state \notin ValueMatching \cup ValueMatched
  /\ parser.state = "s_header_value" =>
       parser.header_state \notin {"h_connection", "h_transfer_encoding"}

\* The states in which the mark of a field may be set.
StatesOf == [
  header_field |-> {"s_header_field"},
  header_value |-> {"s_header_value"},
  url |-> URL_States,
  body |-> {"s_body_identity", "s_chunk_data", "s_chunk_data_almost_done"}]

\* A mark is only set in a state of its field, so no two are set together.
MarksFit == \A f \in Field : mark[f] # 0 => parser.state \in StatesOf[f]

\* The inductive invariant.
Inv ==
  /\ ParserOK /\ CallOK
  /\ ErrorEnds /\ ChunkFlag /\ SizeCounts /\ Lengths /\ HeaderStatesFit
  /\ MarksFit

\* A hex digit stands for a number below 16 (unhex).
LEMMA UnhexRange == \A c \in DOMAIN unhex : unhex[c] \in 0 .. 15
  BY DEF unhex, HexDigits

\* A decimal digit stands for a number below 10.
LEMMA DigitRange == \A c \in DOMAIN Digit : Digit[c] \in 0 .. 9
  BY DEF Digit, unhex, HexDigits

\* q differs from the parser only in its state and its counters.
Same(q) ==
  /\ q.header_state = parser.header_state /\ q.flags = parser.flags
  /\ q.content_length = parser.content_length /\ q.http_errno = parser.http_errno

\* Counting the byte changes nread only.
LEMMA CountedType ==
  ASSUME ParserOK
  PROVE  Counted \in Parsers /\ Counted.state = parser.state /\ Same(Counted)
  <1>1. CASE ~again /\ parser.state \in HeaderStates
     BY <1>1 DEF ParserOK, Parsers, Counted, Same
  <1>2. CASE ~(~again /\ parser.state \in HeaderStates)
     BY <1>2 DEF ParserOK, Parsers, Counted, Same
  <1> QED BY <1>1, <1>2

\* So does the move to a state, but for the state.
LEMMA ToState ==
  ASSUME ParserOK, NEW s \in State
  PROVE  To(s) \in Parsers /\ To(s).state = s /\ Same(To(s))
  BY CountedType DEF Parsers, To, Same

\* CROW_SET_ERRNO and the return that follows it keep the invariant.
LEMMA ErrorKeeps == ASSUME Inv, NEW e \in Errno \ {"OK"}, Error(e) PROVE Inv'
  <1>0. ParserOK /\ Counted \in Parsers /\ Same(Counted) /\ Counted.state = parser.state
     BY CountedType DEF Inv
  <1>1. parser' \in Parsers /\ parser' = [Counted EXCEPT !.http_errno = e]
     BY <1>0 DEF Parsers, Error, Return
  <1>2. data' = <<>> /\ p' = 1 /\ mark' = Unmarked
     BY DEF Error, Return
  <1>3. ParserOK' /\ CallOK' /\ ErrorEnds'
     BY <1>1, <1>2 DEF ParserOK, CallOK, ErrorEnds, Unmarked
  <1>4. MarksFit'
     BY <1>2 DEF MarksFit, Unmarked
  <1>5. /\ parser'.http_errno # "OK"
        /\ \A f \in {"state", "flags", "content_length", "header_state"} :
             parser'[f] = parser[f]
     BY <1>0, <1>1 DEF Parsers, Same
  <1> QED BY <1>3, <1>4, <1>5 DEF Inv, ChunkFlag, SizeCounts, Lengths, HeaderStatesFit

\* The states the invariant says more about than their type.
Marking ==
  {"s_header_field", "s_header_value", "s_body_identity"} \cup URL_States \cup ChunkStates

\* The other ones.
Plain == State \ Marking

\* No field is open.
NoMarks == mark \in [Field -> Nat] /\ \A f \in Field : mark[f] = 0

\* Between two fields no mark is set.
LEMMA Unopened ==
  ASSUME Inv,
         parser.state \in Plain \cup {"s_chunk_size_start", "s_chunk_size",
           "s_chunk_parameters", "s_chunk_size_almost_done", "s_chunk_data_done"}
  PROVE  NoMarks
  BY DEF Inv, CallOK, MarksFit, NoMarks, StatesOf, Plain, Marking, Field, ChunkStates,
     URL_States, URL_Space, URL_NoSpace

\* A step to a plain state with no mark left keeps the invariant.
LEMMA PlainKeeps ==
  ASSUME Inv, parser' \in Parsers, parser'.state \in Plain, parser'.http_errno = "OK",
         NoMarks', data' = data \/ data' = <<>>, p' \in Nat \ {0}
  PROVE  Inv'
  <1>1. data' \in Seq(STRING)
    <2>1. data \in Seq(STRING) BY DEF Inv, CallOK
    <2>2. <<>> \in Seq(STRING) OBVIOUS
    <2> QED BY <2>1, <2>2, Zenon
  <1>2. ParserOK' /\ CallOK' /\ ErrorEnds'
     BY <1>1 DEF ParserOK, CallOK, ErrorEnds, NoMarks
  <1>3. ChunkFlag' /\ SizeCounts' /\ Lengths' /\ HeaderStatesFit'
     BY DEF ChunkFlag, SizeCounts, Lengths, HeaderStatesFit, Plain, Marking, ChunkStates
  <1>4. MarksFit'
     BY DEF MarksFit, NoMarks
  <1> QED
     BY <1>2, <1>3, <1>4 DEF Inv

\* What a case of the switch may rely on: there is a byte, and no error.
LEMMA InMeans == ASSUME Inv, NEW S, In(S) PROVE
  /\ parser \in Parsers /\ parser.state \in S /\ parser.http_errno = "OK"
  /\ data \in Seq(STRING) /\ p \in 1 .. Len(data) /\ ch \in STRING
  BY DEF Inv, In, ParserOK, CallOK, ErrorEnds, ch

\* A byte that leads from a plain state to a plain one.
LEMMA QuietKeeps ==
  ASSUME Inv, NEW S \in SUBSET Plain, In(S), NEW q \in Parsers, q.state \in Plain,
         q.http_errno = "OK",
         Break(q) \/ Again(q), UNCHANGED mark
  PROVE Inv'
  <1>1. NoMarks /\ NoMarks' BY InMeans, Unopened DEF NoMarks
  <1>2. p' \in Nat \ {0} /\ data' = data /\ parser' = q BY InMeans DEF Break, Again
  <1> QED BY <1>1, <1>2, PlainKeeps

\* In particular one that only changes the state.
LEMMA ToKeeps == ASSUME Inv, NEW S \in SUBSET Plain, In(S), NEW s \in Plain,
         Break(To(s)) \/ Again(To(s)), UNCHANGED mark
  PROVE Inv'
  <1>0. parser \in Parsers /\ parser.http_errno = "OK"
     BY InMeans
  <1>1. To(s) \in Parsers /\ To(s).state = s /\ To(s).http_errno = "OK"
     BY <1>0, ToState DEF ParserOK, Plain, Same
  <1> QED BY <1>1, QuietKeeps

\* In particular one that is skipped.
LEMMA StayKeeps ==
  ASSUME Inv, NEW S \in SUBSET Plain, In(S), Break(Counted), UNCHANGED mark
  PROVE  Inv'
  <1>1. Counted \in Parsers /\ Counted.state \in Plain /\ Counted.http_errno = "OK"
     BY CountedType, InMeans DEF ParserOK, Same
  <1> QED BY <1>1, QuietKeeps

\* CROW_STRICT_CHECK in front of such a byte.
LEMMA StrictKeeps ==
  ASSUME Inv, NEW c, NEW S \in SUBSET Plain, In(S), NEW s \in Plain, Strict(c, s)
  PROVE  Inv'
  BY ToKeeps, ErrorKeeps DEF Strict, Quiet, Errno

\* The plain states, listed.
LEMMA PlainStates ==
  {"s_dead", "s_start_req", "s_req_method", "s_req_spaces_before_url",
   "s_req_http_start", "s_req_http_H", "s_req_http_HT", "s_req_http_HTT",
   "s_req_http_HTTP", "s_req_first_http_major", "s_req_http_major",
   "s_req_first_http_minor", "s_req_http_minor", "s_req_line_almost_done",
   "s_header_field_start", "s_header_value_discard_ws",
   "s_header_value_discard_ws_almost_done", "s_header_value_discard_lws",
   "s_header_value_start", "s_header_value_lws", "s_header_almost_done",
   "s_headers_almost_done", "s_headers_done", "s_message_done"} \subseteq Plain
  BY DEF Plain, State, HeaderStates, Marking, ChunkStates, BodyStates, URL_States,
     URL_Space, URL_NoSpace

\* The letters of a request lead to methods only.
LEMMA Methods ==
  /\ \A c \in DOMAIN FirstMethod : FirstMethod[c] \in Method
  /\ \A t \in OtherMethod : t[4] \in Method
  BY DEF FirstMethod, OtherMethod, Method, method_strings

\* parse_url_char() stays in the URL or fails.
LEMMA UrlStates ==
  ASSUME NEW s \in URL_States \cup {"s_req_spaces_before_url"}, NEW c
  PROVE  parse_url_char(s, c) \in URL_States \cup {"s_dead"}
  BY DEF parse_url_char, URL_States, URL_Space, URL_NoSpace

\* The assignments of s_start_req give a parser in the same state.
LEMMA BeginUpdate ==
  ASSUME NEW r \in Parsers, NEW m \in Method, NEW q,
         q = [r EXCEPT !.flags = {}, !.content_length = ULLONG_MAX, !.index = 1,
           !.method = m]
  PROVE  q \in Parsers /\ q.state = r.state /\ q.http_errno = r.http_errno
  <1>0. {} \in SUBSET Flag /\ ULLONG_MAX \in 0 .. ULLONG_MAX /\ 1 \in Nat
     BY HttpParserAssumption
  <1>1. PICK fl \in SUBSET Flag, n \in 0 .. ULLONG_MAX, i \in Nat : fl = {}
             /\ n = ULLONG_MAX /\ i = 1
     BY <1>0, Zenon
  <1>2. q = [r EXCEPT !.flags = fl, !.content_length = n, !.index = i, !.method = m]
     BY <1>1, Zenon
  <1> QED BY <1>2 DEF Parsers

\* So do those of s_req_method.
LEMMA MethodUpdate ==
  ASSUME NEW r \in Parsers, NEW i \in Nat, NEW m \in Method
  PROVE  LET q == [r EXCEPT !.method = m, !.index = i]
         IN q \in Parsers /\ q.state = r.state /\ q.http_errno = r.http_errno
  BY DEF Parsers

\* So do those of an HTTP/0.9 request.
LEMMA VersionUpdate ==
  ASSUME NEW r \in Parsers, NEW i \in Nat, NEW j \in Nat
  PROVE  LET q == [r EXCEPT !.http_major = i, !.http_minor = j]
         IN q \in Parsers /\ q.state = r.state /\ q.http_errno = r.http_errno
  BY DEF Parsers

\* s_dead: line ends are skipped, anything else is CLOSED_CONNECTION.
LEMMA s_deadKeeps == ASSUME Inv, s_dead PROVE Inv'
  BY StayKeeps, ErrorKeeps, PlainStates DEF s_dead, Quiet, Errno

\* s_start_req: the first letter of a method begins a message.
LEMMA s_start_reqKeeps == ASSUME Inv, s_start_req PROVE Inv'
  <1>0. In({"s_start_req"})
     BY DEF s_start_req
  <1>1. \/ Break(Counted) /\ UNCHANGED mark
        \/ /\ ch \in DOMAIN FirstMethod
           /\ \E q :
                /\ q = [To("s_req_method") EXCEPT !.flags = {},
                          !.content_length = ULLONG_MAX, !.index = 1,
                          !.method = FirstMethod[ch]]
                /\ Break(q) /\ UNCHANGED mark
        \/ Error("INVALID_METHOD")
     BY Zenon DEF s_start_req, Quiet, Notify
  <1>2. CASE Break(Counted) /\ UNCHANGED mark
     BY <1>0, <1>2, StayKeeps, PlainStates
  <1>3. ASSUME ch \in DOMAIN FirstMethod, NEW q, Break(q), UNCHANGED mark,
               q = [To("s_req_method") EXCEPT !.flags = {}, !.content_length = ULLONG_MAX,
                      !.index = 1, !.method = FirstMethod[ch]]
        PROVE  Inv'
     <2>1. To("s_req_method") \in Parsers /\ To("s_req_method").state = "s_req_method"
             /\ To("s_req_method").http_errno = "OK"
        BY <1>0, InMeans, ToState, PlainStates DEF ParserOK, Same, Plain
     <2>2. FirstMethod[ch] \in Method
        BY <1>3, Methods
     <2>3. q \in Parsers /\ q.state = "s_req_method" /\ q.http_errno = "OK"
        BY <2>1, <2>2, <1>3, BeginUpdate, Zenon
     <2> QED BY <1>0, <1>3, <2>3, QuietKeeps, PlainStates
  <1> QED BY <1>1, <1>2, <1>3, ErrorKeeps DEF Errno

\* s_req_method: one more letter of the method.
LEMMA s_req_methodKeeps == ASSUME Inv, s_req_method PROVE Inv'
  <1>0. In({"s_req_method"}) /\ parser.method \in Method /\ parser.index \in Nat
     BY InMeans DEF s_req_method, Parsers
  <1>1. \/ \E s \in {"s_req_spaces_before_url", "s_req_method"}, m \in Method : \E q :
              q = [To(s) EXCEPT !.method = m, !.index = parser.index + 1] /\ Break(q)
                /\ UNCHANGED mark
        \/ Error("INVALID_METHOD")
     BY <1>0, Methods DEF s_req_method, Quiet, Others
  <1>2. ASSUME NEW s \in {"s_req_spaces_before_url", "s_req_method"}, NEW m \in Method,
               NEW q,
               q = [To(s) EXCEPT !.method = m, !.index = parser.index + 1], Break(q),
                 UNCHANGED mark
        PROVE  Inv'
     <2>1. To(s) \in Parsers /\ To(s).state = s /\ To(s).http_errno = "OK"
        BY <1>0, InMeans, ToState, PlainStates DEF ParserOK, Same, Plain
     <2>2. parser.index + 1 \in Nat
        BY <1>0
     <2>3. q \in Parsers /\ q.state = s /\ q.http_errno = "OK"
        BY <1>2, <2>1, <2>2, MethodUpdate, Zenon
     <2> QED BY <1>0, <1>2, <2>3, QuietKeeps, PlainStates
  <1> QED BY <1>1, <1>2, ErrorKeeps DEF Errno

\* A byte of the URL leaves only the URL marked.
LEMMA UrlKeeps ==
  ASSUME Inv, NEW S \in SUBSET (URL_States \cup {"s_req_spaces_before_url"}), In(S),
         NEW s \in URL_States \cup {"s_req_spaces_before_url"}, Url(s)
  PROVE  Inv'
  <1> DEFINE t == parse_url_char(s, ch)
  <1>1. CASE t = "s_dead"
     BY <1>1, ErrorKeeps DEF Url, Errno
  <1>2. CASE t # "s_dead"
     <2>1. t \in URL_States /\ t \in State
        BY <1>2, UrlStates DEF State, HeaderStates
     <2>2. parser' = To(t) /\ data' = data /\ p' = p + 1
           /\ mark' = [mark EXCEPT !["url"] = Marked("url")]
        BY <1>2 DEF Url, Break, Mark
     <2>3. parser' \in Parsers /\ parser'.state \in URL_States
           /\ parser'.http_errno = "OK"
        BY <2>1, <2>2, InMeans, ToState DEF ParserOK, Same
     <2>4. \A f \in Field \ {"url"} : mark[f] = 0
        BY DEF Inv, MarksFit, In, StatesOf, Field, URL_States, URL_Space, URL_NoSpace
     <2>5. CallOK'
        BY <2>2 DEF Inv, CallOK, Marked, Field
     <2>6. MarksFit'
        BY <2>2, <2>3, <2>4 DEF MarksFit, StatesOf, Field, Inv, CallOK
     <2>7. ChunkFlag' /\ SizeCounts' /\ Lengths' /\ HeaderStatesFit'
        BY <2>3 DEF ChunkFlag, SizeCounts, Lengths, HeaderStatesFit, ChunkStates,
           URL_States, URL_Space, URL_NoSpace
     <2> QED BY <2>3, <2>5, <2>6, <2>7 DEF Inv, ParserOK, ErrorEnds
  <1> QED BY <1>1, <1>2

\* s_req_spaces_before_url: spaces, then the first byte of the URL.
LEMMA s_req_spaces_before_urlKeeps == ASSUME Inv, s_req_spaces_before_url PROVE Inv'
  <1>1. CASE ch = " "
     BY <1>1, StayKeeps, PlainStates DEF s_req_spaces_before_url, Quiet
  <1>2. CASE ch # " "
     <2>1. \E s \in URL_States \cup {"s_req_spaces_before_url"} : Url(s)
        BY <1>2, InMeans DEF s_req_spaces_before_url, URL_States, URL_NoSpace
     <2> QED BY <2>1, UrlKeeps DEF s_req_spaces_before_url
  <1> QED BY <1>1, <1>2

\* s_req_schema and the other URL states without spaces.
LEMMA s_req_schemaKeeps == ASSUME Inv, s_req_schema PROVE Inv'
  BY UrlKeeps, InMeans DEF s_req_schema, URL_States

\* s_req_server and the other URL states: the end of the URL closes its mark.
LEMMA s_req_serverKeeps == ASSUME Inv, s_req_server PROVE Inv'
  <1>0. In(URL_Space)
        /\ URL_Space \in SUBSET (URL_States \cup {"s_req_spaces_before_url"})
     BY DEF s_req_server, URL_States
  <1>1. CASE ch \notin {" ", CR, LF}
     BY <1>0, <1>1, UrlKeeps, InMeans DEF s_req_server, URL_States
  <1>2. CASE ch \in {" ", CR, LF}
     <2> DEFINE t == CASE ch = " " -> "s_req_http_start" [] ch
         = CR -> "s_req_line_almost_done" [] OTHER -> "s_header_field_start"
     <2>0. t \in Plain /\ t \in State
        BY PlainStates DEF Plain
     <2>1. To(t) \in Parsers /\ To(t).state = t /\ To(t).http_errno = "OK"
        BY <2>0, <1>0, InMeans, ToState DEF ParserOK, Same
     <2>2. data' = data /\ p' = p + 1 /\ mark' = [mark EXCEPT !["url"] = 0]
        BY <1>2, Zenon DEF s_req_server, Break, Deliver
     <2>3. parser' \in Parsers /\ parser'.state \in Plain /\ parser'.http_errno = "OK"
        <3>1. parser' = To(t) \/ parser'
              = [To(t) EXCEPT !.http_major = 0, !.http_minor = 9]
           BY <1>2, Zenon DEF s_req_server, Break, CR, LF
        <3> HIDE DEF t
        <3>2. 0 \in Nat /\ 9 \in Nat OBVIOUS
        <3> DEFINE q == [To(t) EXCEPT !.http_major = 0, !.http_minor = 9]
        <3>3. q \in Parsers /\ q.state = To(t).state /\ q.http_errno = To(t).http_errno
           BY <2>1, <3>2, VersionUpdate, Zenon
        <3>4. parser' = To(t) \/ parser' = q
           BY <3>1, Zenon
        <3> HIDE DEF q
        <3> QED BY <2>0, <2>1, <3>3, <3>4, Zenon
     <2>4. NoMarks'
        BY <1>0, <2>2 DEF Inv, CallOK, NoMarks, MarksFit, In, StatesOf, Field, URL_Space
     <2>5. p' \in Nat \ {0}
        BY <1>0, <2>2, InMeans
     <2> QED BY <2>2, <2>3, <2>4, <2>5, PlainKeeps
  <1> QED BY <1>1, <1>2

\* A digit of the major version gives a parser in the same state.
LEMMA MajorUpdate ==
  ASSUME NEW r \in Parsers, NEW i \in Nat
  PROVE  LET q == [r EXCEPT !.http_major = i]
         IN q \in Parsers /\ q.state = r.state /\ q.http_errno = r.http_errno
  BY DEF Parsers

\* So does one of the minor version.
LEMMA MinorUpdate ==
  ASSUME NEW r \in Parsers, NEW i \in Nat
  PROVE  LET q == [r EXCEPT !.http_minor = i]
         IN q \in Parsers /\ q.state = r.state /\ q.http_errno = r.http_errno
  BY DEF Parsers

\* s_req_http_start: the H of HTTP, or spaces.
LEMMA s_req_http_startKeeps == ASSUME Inv, s_req_http_start PROVE Inv'
  BY StayKeeps, ToKeeps, ErrorKeeps, PlainStates DEF s_req_http_start, Quiet, Errno

\* The states that expect one given byte.
LEMMA ConstantKeeps ==
  ASSUME Inv, \/ s_req_http_H \/ s_req_http_HT \/ s_req_http_HTT \/ s_req_http_HTTP
              \/ s_header_almost_done \/ s_header_value_discard_ws_almost_done
  PROVE  Inv'
  BY StrictKeeps, PlainStates DEF s_req_http_H, s_req_http_HT, s_req_http_HTT,
     s_req_http_HTTP,
     s_header_almost_done, s_header_value_discard_ws_almost_done

\* s_req_line_almost_done: LF ends the request line.
LEMMA s_req_line_almost_doneKeeps == ASSUME Inv, s_req_line_almost_done PROVE Inv'
  BY ToKeeps, ErrorKeeps, PlainStates DEF s_req_line_almost_done, Quiet, Errno

\* The four states of the version: a digit, a point, the end of the line, or an error.
LEMMA VersionKeeps ==
  ASSUME Inv, s_req_first_http_major \/ s_req_http_major \/ s_req_first_http_minor
         \/ s_req_http_minor
  PROVE  Inv'
  <1> DEFINE S == {"s_req_first_http_major", "s_req_http_major",
                   "s_req_first_http_minor", "s_req_http_minor"}
             T == S \cup {"s_req_line_almost_done", "s_header_field_start"}
  <1>0. S \in SUBSET Plain /\ T \in SUBSET Plain
     BY PlainStates
  <1>1. In(S)
     BY DEF s_req_first_http_major, s_req_http_major, s_req_first_http_minor,
        s_req_http_minor, In
  <1>2. Counted \in Parsers /\ Counted.state \in S /\ Counted.http_errno = "OK"
        /\ Counted.http_major \in Nat
        /\ Counted.http_minor \in Nat
     BY <1>1, InMeans, CountedType DEF ParserOK, Same, Parsers
  <1>3. ASSUME NEW s \in T PROVE To(s) \in Parsers /\ To(s).state = s
               /\ To(s).http_errno = "OK"
     BY <1>0, <1>1, InMeans, ToState DEF ParserOK, Same, Plain
  <1>4. ch \in DOMAIN Digit => /\ Digit[ch] \in Nat
                               /\ Counted.http_major * 10 + Digit[ch] \in Nat
                               /\ Counted.http_minor * 10 + Digit[ch] \in Nat
     BY <1>2, DigitRange
  <1>5. \/ \E r \in Parsers, i \in Nat : \E q :
             /\ r.state \in T /\ r.http_errno = "OK"
             /\ q = [r EXCEPT !.http_major = i] \/ q = [r EXCEPT !.http_minor = i]
             /\ Break(q) /\ UNCHANGED mark
        \/ \E s \in T : Break(To(s)) /\ UNCHANGED mark
        \/ Error("INVALID_VERSION")
     <2>1. CASE s_req_first_http_major
        BY <1>3, <1>4, <2>1, Zenon DEF s_req_first_http_major, Quiet
     <2>2. CASE s_req_http_major
        BY <1>2, <1>4, <2>2, Zenon DEF s_req_http_major, Quiet
     <2>3. CASE s_req_first_http_minor
        BY <1>3, <1>4, <2>3, Zenon DEF s_req_first_http_minor, Quiet
     <2>4. CASE s_req_http_minor
        BY <1>2, <1>4, <2>4, Zenon DEF s_req_http_minor, Quiet
     <2> QED BY <2>1, <2>2, <2>3, <2>4, Zenon
  <1>6. ASSUME NEW r \in Parsers, NEW i \in Nat, NEW q, r.state \in T,
               r.http_errno = "OK",
               q = [r EXCEPT !.http_major = i] \/ q = [r EXCEPT !.http_minor = i],
                 Break(q), UNCHANGED mark
        PROVE  Inv'
     <2>1. q \in Parsers /\ q.state = r.state /\ q.http_errno = r.http_errno
        <3>1. CASE q = [r EXCEPT !.http_major = i]
           BY <3>1, MajorUpdate, Zenon
        <3>2. CASE q = [r EXCEPT !.http_minor = i]
           BY <3>2, MinorUpdate, Zenon
        <3> QED BY <1>6, <3>1, <3>2
     <2>2. q \in Parsers /\ q.state \in Plain /\ q.http_errno = "OK"
        BY <1>0, <1>6, <2>1
     <2> QED BY <1>0, <1>1, <1>6, <2>2, QuietKeeps
  <1> QED BY <1>0, <1>1, <1>5, <1>6, ToKeeps, ErrorKeeps DEF Errno

\* A step inside a header name or value, with its mark the only one that may
\* be set.
LEMMA OpenKeeps ==
  ASSUME Inv, parser' \in Parsers, parser'.http_errno = "OK",
         NEW f \in {"header_field", "header_value"},
         \/ /\ f = "header_field" /\ parser'.state = "s_header_field"
            /\ parser'.header_state \notin ValueMatching \cup ValueMatched
         \/ /\ f = "header_value" /\ parser'.state = "s_header_value"
            /\ parser'.header_state \notin {"h_connection", "h_transfer_encoding"},
         mark' \in [Field -> Nat], \A g \in Field \ {f} : mark'[g] = 0, data' = data,
         p' \in Nat \ {0}
  PROVE  Inv'
  <1>1. ParserOK' /\ CallOK' /\ ErrorEnds'
     BY DEF Inv, ParserOK, CallOK, ErrorEnds
  <1>2. ChunkFlag' /\ SizeCounts' /\ Lengths' /\ HeaderStatesFit'
     BY DEF ChunkFlag, SizeCounts, Lengths, HeaderStatesFit, ChunkStates
  <1>3. MarksFit'
     BY DEF MarksFit, StatesOf, Field
  <1> QED
     BY <1>1, <1>2, <1>3 DEF Inv

\* Matching a header name finds a header name, matching a value a value.
LEMMA Found ==
  /\ \A h \in FieldMatching : h \in DOMAIN Keyword /\ Keyword[h].found \in FieldMatched
  /\ \A h \in ValueMatching : h \in DOMAIN Keyword /\ Keyword[h].found \in ValueMatched
  BY DEF FieldMatching, ValueMatching, FieldMatched, ValueMatched, Keyword

\* The header_states of names and those of values are apart.
LEMMA HeaderStatesApart ==
  /\ FieldMatching \cup FieldMatched \cup ValueMatched \cup {"h_general", "h_C", "h_CO",
     "h_CON"} \subseteq HeaderState
  /\ (FieldMatching \cup FieldMatched \cup {"h_general", "h_C", "h_CO", "h_CON"})
       \cap (ValueMatching \cup ValueMatched) = {}
  /\ (ValueMatching \cup ValueMatched) \cap {"h_connection", "h_transfer_encoding",
     "h_general"} = {}
  /\ ValueMatching \subseteq HeaderState
  /\ {"h_matching_connection", "h_matching_content_length", "h_matching_proxy_connection",
      "h_matching_transfer_encoding", "h_matching_upgrade"} = FieldMatching
  /\ {"h_matching_transfer_encoding_chunked", "h_matching_connection_keep_alive",
      "h_matching_connection_close"} = ValueMatching
  BY DEF FieldMatching, ValueMatching, FieldMatched, ValueMatched, Keyword, HeaderState

\* One more letter of a keyword does not lead from a name to a value, nor
\* back to a state the value does not handle.
LEMMA MatchedKeeps ==
  ASSUME NEW r \in Parsers, NEW c, r.header_state \in FieldMatching \cup ValueMatching,
         NEW q, q = Matched(r, c)
  PROVE  /\ q \in Parsers /\ q.state = r.state /\ q.http_errno = r.http_errno
         /\ q.header_state \in {"h_general", r.header_state,
            Keyword[r.header_state].found}
  <1> DEFINE k == Keyword[r.header_state]
             i == r.index + 2
             H == CASE i > Len(k.word) \/ (i <= Len(k.word) /\ c # k.word[i]) ->
                         "h_general"
                    [] i = Len(k.word) /\ c = k.word[i] -> k.found
                    [] OTHER -> r.header_state
  <1>1. PICK h : h = H
     OBVIOUS
  <1>2. h \in {"h_general", r.header_state, Keyword[r.header_state].found}
     BY <1>1
  <1>3. PICK j \in Nat : j = r.index + 1
     BY DEF Parsers
  <1>4. h \in HeaderState
     <2>1. r.header_state \in HeaderState BY DEF Parsers
     <2> QED BY <1>2, <2>1, Found, HeaderStatesApart
  <1>5. q = [r EXCEPT !.index = j, !.header_state = h]
     BY <1>1, <1>3, Zenon DEF Matched
  <1>6. q \in Parsers /\ q.state = r.state /\ q.http_errno = r.http_errno
        /\ q.header_state = h
     BY <1>4, <1>5 DEF Parsers
  <1> QED BY <1>2, <1>6

\* One more letter of a name leads to no header_state of a value.
LEMMA FieldLetterKeeps ==
  ASSUME NEW r \in Parsers, NEW c, r.header_state \notin ValueMatching \cup ValueMatched,
         NEW q, q = FieldLetter(r, c)
  PROVE  /\ q \in Parsers /\ q.state = r.state /\ q.http_errno = r.http_errno
         /\ q.header_state \notin ValueMatching \cup ValueMatched
  <1> DEFINE Early == {"h_general", "h_CO", "h_CON", "h_matching_connection",
                       "h_matching_content_length"}
             Fine == /\ q \in Parsers /\ q.state = r.state /\ q.http_errno = r.http_errno
                     /\ q.header_state \notin ValueMatching \cup ValueMatched
  <1>0. PICK j \in Nat : j = r.index + 1
     BY DEF Parsers
  <1>1. Early \subseteq HeaderState /\ Early \cap (ValueMatching \cup ValueMatched) = {}
     BY HeaderStatesApart
  <1>2. ASSUME NEW h \in Early, \/ q = [r EXCEPT !.index = j, !.header_state = h]
                                \/ q = [r EXCEPT !.header_state = h]
        PROVE  Fine
     <2> HIDE DEF Early
     <2> QED BY <1>1, <1>2 DEF Parsers
  <1>3. CASE r.header_state = "h_C"
     <2>1. PICK h \in Early : h = IF c = "o" THEN "h_CO" ELSE "h_general"
        OBVIOUS
     <2>2. r.header_state \notin {"h_CO", "h_CON"} \cup FieldMatching \cup FieldMatched
        BY <1>3 DEF FieldMatching, FieldMatched
     <2>3. q = [r EXCEPT !.index = j, !.header_state = h]
        BY <1>0, <1>3, <2>1, <2>2, Zenon DEF FieldLetter
     <2> QED BY <1>2, <2>3, Zenon
  <1>4. CASE r.header_state = "h_CO"
     <2>1. PICK h \in Early : h = IF c = "n" THEN "h_CON" ELSE "h_general"
        OBVIOUS
     <2>2. r.header_state \notin {"h_C", "h_CON"} \cup FieldMatching \cup FieldMatched
        BY <1>4 DEF FieldMatching, FieldMatched
     <2>3. q = [r EXCEPT !.index = j, !.header_state = h]
        BY <1>0, <1>4, <2>1, <2>2, Zenon DEF FieldLetter
     <2> QED BY <1>2, <2>3, Zenon
  <1>5. CASE r.header_state = "h_CON"
     <2>1. PICK h \in Early : h = CASE c = "n" -> "h_matching_connection"
                                    [] c = "t" -> "h_matching_content_length"
                                    [] OTHER -> "h_general"
        OBVIOUS
     <2>2. r.header_state \notin {"h_C", "h_CO"} \cup FieldMatching \cup FieldMatched
        BY <1>5 DEF FieldMatching, FieldMatched
     <2>3. q = [r EXCEPT !.index = j, !.header_state = h]
        BY <1>0, <1>5, <2>1, <2>2, Zenon DEF FieldLetter
     <2> QED BY <1>2, <2>3, Zenon
  <1>6. CASE r.header_state \in FieldMatching
     <2>1. r.header_state \notin {"h_C", "h_CO", "h_CON"} \cup FieldMatched
        BY <1>6 DEF FieldMatching, FieldMatched
     <2>2. q = Matched(r, c)
        BY <1>6, <2>1, Zenon DEF FieldLetter
     <2>3. {"h_general", r.header_state,
           Keyword[r.header_state].found} \cap (ValueMatching \cup ValueMatched) = {}
        BY <1>6, Found, HeaderStatesApart
     <2> QED BY <1>6, <2>2, <2>3, MatchedKeeps
  <1>7. CASE r.header_state \in FieldMatched
     <2>1. r.header_state \notin {"h_C", "h_CO", "h_CON"} \cup FieldMatching
        BY <1>7 DEF FieldMatching, FieldMatched
     <2>2. q = [r EXCEPT !.header_state = "h_general"]
        BY <1>7, <2>1, Zenon DEF FieldLetter
     <2> QED BY <1>2, <2>2, Zenon
  <1>8. CASE r.header_state \notin {"h_C", "h_CO", "h_CON"} \cup FieldMatching
             \cup FieldMatched
     <2>1. q = r
        BY <1>8, Zenon DEF FieldLetter
     <2> QED BY <2>1
  <1> QED BY <1>3, <1>4, <1>5, <1>6, <1>7, <1>8

\* The parser after a case of the switch has moved to a state.
LEMMA ToIn ==
  ASSUME Inv, NEW S, In(S), NEW s \in State
  PROVE  /\ To(s) \in Parsers /\ To(s).state = s /\ To(s).http_errno = "OK" /\ Same(To(s))
         /\ Counted \in Parsers /\ Counted.state = parser.state
            /\ Counted.http_errno = "OK" /\ Same(Counted)
  BY InMeans, ToState, CountedType DEF ParserOK, Same

\* The states of a header name and value.
LEMMA FieldStates == {"s_header_field", "s_header_value"} \subseteq State
  BY DEF State, HeaderStates

\* Mark() opens one field and leaves the others closed.
LEMMA MarkOpens ==
  ASSUME Inv, p \in Nat \ {0}, NEW f \in Field, \A g \in Field \ {f} : mark[g] = 0,
         Mark(f)
  PROVE  mark' \in [Field -> Nat] /\ \A g \in Field \ {f} : mark'[g] = 0
  BY DEF Inv, CallOK, Mark, Marked

\* Deliver() closes it.
LEMMA DeliverCloses ==
  ASSUME Inv, NEW f \in Field, \A g \in Field \ {f} : mark[g] = 0, NEW a, NEW b,
         Deliver(f, a, b)
  PROVE  NoMarks'
  BY DEF Inv, CallOK, Deliver, NoMarks

\* s_header_field_start: a token opens the name; CR or LF ends the headers.
LEMMA s_header_field_startKeeps == ASSUME Inv, s_header_field_start PROVE Inv'
  <1> DEFINE H == FirstHeaderState(LOWER(ch))
  <1>0. In({"s_header_field_start"}) /\ {"s_header_field_start"} \in SUBSET Plain
     BY PlainStates DEF s_header_field_start
  <1>1. \/ (Break(To("s_headers_almost_done")) \/ Again(To("s_headers_almost_done")))
           /\ UNCHANGED mark
        \/ Error("INVALID_HEADER_TOKEN")
        \/ \E q : q = [To("s_header_field") EXCEPT !.index = 0, !.header_state = H]
           /\ Break(q) /\ Mark("header_field")
     BY Zenon DEF s_header_field_start, Quiet
  <1>2. CASE (Break(To("s_headers_almost_done")) \/ Again(To("s_headers_almost_done")))
             /\ UNCHANGED mark
     BY <1>0, <1>2, ToKeeps, PlainStates
  <1>3. ASSUME NEW q, q = [To("s_header_field") EXCEPT !.index = 0, !.header_state = H],
               Break(q), Mark("header_field")
        PROVE  Inv'
     <2>1. H \in HeaderState /\ H \notin ValueMatching \cup ValueMatched /\ 0 \in Nat
        BY HeaderStatesApart DEF FirstHeaderState
     <2>2. To("s_header_field") \in Parsers
           /\ To("s_header_field").state = "s_header_field"
           /\ To("s_header_field").http_errno = "OK"
        BY <1>0, ToIn, FieldStates
     <2> HIDE DEF H
     <2>3. q \in Parsers /\ q.state = "s_header_field" /\ q.http_errno = "OK"
           /\ q.header_state = H
        BY <1>3, <2>1, <2>2 DEF Parsers
     <2>4. NoMarks /\ p \in Nat \ {0}
        BY <1>0, Unopened, InMeans
     <2>5. mark' \in [Field -> Nat] /\ \A g \in Field \ {"header_field"} : mark'[g] = 0
        BY <1>3, <2>4, MarkOpens DEF NoMarks, Field
     <2>6. parser' = q /\ data' = data /\ p' \in Nat \ {0}
        BY <1>3, <2>4 DEF Break
     <2> QED BY <2>1, <2>3, <2>5, <2>6, OpenKeeps
  <1> QED BY <1>1, <1>2, <1>3, ErrorKeeps DEF Errno

\* s_header_field: a letter of the name, or its end, which closes the mark.
LEMMA s_header_fieldKeeps == ASSUME Inv, s_header_field PROVE Inv'
  <1>0. In({"s_header_field"}) /\ parser.state = "s_header_field" /\ p \in Nat \ {0}
        /\ parser.header_state \notin ValueMatching \cup ValueMatched
     BY InMeans DEF s_header_field, Inv, HeaderStatesFit
  <1>1. mark \in [Field -> Nat] /\ \A g \in Field \ {"header_field"} : mark[g] = 0
     BY <1>0 DEF Inv, CallOK, MarksFit, StatesOf, Field, URL_States, URL_Space,
        URL_NoSpace
  <1>2. \/ \E q : q = FieldLetter(Counted, LOWER(ch)) /\ Break(q) /\ UNCHANGED mark
        \/ \E s \in {"s_header_value_discard_ws", "s_header_almost_done",
           "s_header_field_start"} :
              Break(To(s)) /\ Deliver("header_field", mark["header_field"], p)
        \/ Error("INVALID_HEADER_TOKEN")
     BY DEF s_header_field, Quiet
  <1>3. ASSUME NEW q, q = FieldLetter(Counted, LOWER(ch)), Break(q), UNCHANGED mark
        PROVE  Inv'
     <2>1. Counted \in Parsers /\ Counted.state = "s_header_field"
           /\ Counted.http_errno = "OK"
           /\ Counted.header_state \notin ValueMatching \cup ValueMatched
        BY <1>0, ToIn, FieldStates DEF Same
     <2>2. q \in Parsers /\ q.state = "s_header_field" /\ q.http_errno = "OK"
           /\ q.header_state \notin ValueMatching \cup ValueMatched
        BY <1>3, <2>1, FieldLetterKeeps
     <2>3. parser' = q /\ data' = data /\ p' \in Nat \ {0} /\ mark' = mark
        BY <1>0, <1>3 DEF Break
     <2> QED BY <1>1, <2>2, <2>3, OpenKeeps
  <1>4. ASSUME NEW s \in {"s_header_value_discard_ws", "s_header_almost_done",
               "s_header_field_start"},
               Break(To(s)), Deliver("header_field", mark["header_field"], p)
        PROVE  Inv'
     <2>1. s \in Plain /\ s \in State
        BY PlainStates DEF Plain
     <2>2. To(s) \in Parsers /\ To(s).state = s /\ To(s).http_errno = "OK"
        BY <1>0, <2>1, ToIn
     <2>3. NoMarks'
        BY <1>1, <1>4, DeliverCloses DEF Field
     <2>4. parser' = To(s) /\ data' = data /\ p' \in Nat \ {0}
        BY <1>0, <1>4 DEF Break
     <2> QED BY <2>1, <2>2, <2>3, <2>4, PlainKeeps
  <1> QED BY <1>2, <1>3, <1>4, ErrorKeeps DEF Errno

\* The first byte of a value leaves h_connection and h_transfer_encoding,
\* which s_header_value asserts it never meets.
LEMMA FirstOfValueKeeps ==
  ASSUME Inv, NEW S \in SUBSET Plain, In(S), FirstOfValue
  PROVE  Inv'
  <1> DEFINE h == parser.header_state
             c == LOWER(ch)
             Q == [To("s_header_value") EXCEPT !.index = 0]
             H == CASE h = "h_transfer_encoding" /\ c = "c" ->
                         "h_matching_transfer_encoding_chunked"
                    [] h = "h_connection" /\ c = "k" -> "h_matching_connection_keep_alive"
                    [] h = "h_connection" /\ c = "c" -> "h_matching_connection_close"
                    [] OTHER -> "h_general"
             Go(q) == Break(q) /\ Mark("header_value")
  <1>0. NoMarks /\ p \in Nat \ {0}
     BY Unopened, InMeans
  <1>1. PICK r : r = Q
     OBVIOUS
  <1>2. r \in Parsers /\ r.state = "s_header_value" /\ r.http_errno = "OK"
        /\ r.header_state = h /\ r.flags \in SUBSET Flag
     <2>1. To("s_header_value") \in Parsers
           /\ To("s_header_value").state = "s_header_value"
           /\ To("s_header_value").http_errno = "OK"
              /\ To("s_header_value").header_state = h
        BY ToIn, FieldStates DEF Same
     <2> HIDE DEF h
     <2> QED BY <1>1, <2>1 DEF Parsers
  <1>3. \/ \E q : /\ q = [r EXCEPT !.flags = r.flags \cup {"UPGRADE"},
                                    !.header_state = "h_general"]
                  /\ Go(q)
        \/ h = "h_content_length" /\ ch \in DOMAIN Digit
           /\ \E q : q = [r EXCEPT !.content_length = Digit[ch]] /\ Go(q)
        \/ Error("INVALID_CONTENT_LENGTH")
        \/ \E q : q = [r EXCEPT !.header_state = H] /\ Go(q)
     BY <1>1, Zenon DEF FirstOfValue
  <1>4. ASSUME NEW q, q \in Parsers, q.state = "s_header_value", q.http_errno = "OK",
               q.header_state \notin {"h_connection", "h_transfer_encoding"}, Go(q)
        PROVE  Inv'
     <2>1. mark' \in [Field -> Nat] /\ \A g \in Field \ {"header_value"} : mark'[g] = 0
        BY <1>0, <1>4, MarkOpens DEF NoMarks, Field
     <2>2. parser' = q /\ data' = data /\ p' \in Nat \ {0}
        BY <1>0, <1>4 DEF Break
     <2> QED BY <1>4, <2>1, <2>2, OpenKeeps
  <1>5. ASSUME NEW q, Go(q),
               q = [r EXCEPT !.flags = r.flags \cup {"UPGRADE"}, !.header_state = "h_general"]
        PROVE  Inv'
     <2>1. PICK fl \in SUBSET Flag, g \in HeaderState : fl = r.flags \cup {"UPGRADE"}
                /\ g = "h_general"
        BY <1>2, HeaderStatesApart DEF Flag
     <2>2. q = [r EXCEPT !.flags = fl, !.header_state = g]
        BY <1>5, <2>1, Zenon
     <2>3. q \in Parsers /\ q.state = "s_header_value" /\ q.http_errno = "OK"
           /\ q.header_state = g
        BY <1>2, <2>2 DEF Parsers
     <2> QED BY <2>1, <2>3, <1>4, <1>5
  <1>6. ASSUME h = "h_content_length", ch \in DOMAIN Digit, NEW q,
               q = [r EXCEPT !.content_length = Digit[ch]], Go(q)
        PROVE  Inv'
     <2>1. PICK n \in 0 .. ULLONG_MAX : n = Digit[ch]
        BY <1>6, DigitRange, HttpParserAssumption
     <2>2. q = [r EXCEPT !.content_length = n]
        BY <1>6, <2>1, Zenon
     <2>3. q \in Parsers /\ q.state = "s_header_value" /\ q.http_errno = "OK"
           /\ q.header_state = "h_content_length"
        BY <1>2, <1>6, <2>2 DEF Parsers
     <2> QED BY <2>3, <1>4, <1>6
  <1>7. ASSUME NEW q, q = [r EXCEPT !.header_state = H], Go(q) PROVE Inv'
     <2>1. PICK g \in HeaderState \ {"h_connection", "h_transfer_encoding"} : g = H
        BY HeaderStatesApart
     <2>2. q = [r EXCEPT !.header_state = g]
        BY <1>7, <2>1, Zenon
     <2>3. q \in Parsers /\ q.state = "s_header_value" /\ q.http_errno = "OK"
           /\ q.header_state = g
        BY <1>2, <2>2 DEF Parsers
     <2> QED BY <2>1, <2>3, <1>4, <1>7
  <1> QED BY <1>3, <1>5, <1>6, <1>7, ErrorKeeps DEF Errno

\* s_header_value_discard_ws: blanks, line ends or the first byte of the
\* value.
LEMMA s_header_value_discard_wsKeeps == ASSUME Inv, s_header_value_discard_ws PROVE Inv'
  BY StayKeeps, ToKeeps, FirstOfValueKeeps, PlainStates DEF s_header_value_discard_ws,
     Quiet

\* s_header_value_start: the first byte of a continued value.
LEMMA s_header_value_startKeeps == ASSUME Inv, s_header_value_start PROVE Inv'
  BY FirstOfValueKeeps, PlainStates DEF s_header_value_start

\* The test against the conservative limit: when it passes, the new length
\* did not wrap and is not the value for "none".
LEMMA FitsDigit ==
  ASSUME NEW n \in 0 .. ULLONG_MAX, NEW base \in {10, 16}, NEW d \in 0 .. base - 1,
         Fits(n, base)
  PROVE  OneMoreDigit(n, base, d) \in 0 .. ULLONG_MAX - 1
  <1>1. CASE base = 10
     <2>1. n * 10 + d <= ULLONG_MAX - 1 /\ n * 10 + d >= 0
        BY <1>1, HttpParserAssumption DEF Fits
     <2> QED BY <1>1, <2>1, HttpParserAssumption DEF OneMoreDigit
  <1>2. CASE base = 16
     <2>1. n * 16 + d <= ULLONG_MAX - 1 /\ n * 16 + d >= 0
        BY <1>2, HttpParserAssumption DEF Fits
     <2> QED BY <1>2, <2>1, HttpParserAssumption DEF OneMoreDigit
  <1> QED BY <1>1, <1>2

\* s_header_value: a byte of the value, or its end, which closes the mark.
LEMMA s_header_valueKeeps == ASSUME Inv, s_header_value PROVE Inv'
  <1> DEFINE h == parser.header_state
             H == IF h \in {"h_connection", "h_transfer_encoding"} THEN h ELSE "h_general"
             Go(q) == Break(q) /\ UNCHANGED mark
             N == OneMoreDigit(Counted.content_length, 10, Digit[ch])
  <1>0. In({"s_header_value"}) /\ parser.state = "s_header_value" /\ p \in Nat \ {0}
        /\ h \notin {"h_connection", "h_transfer_encoding"}
     <2>0. In({"s_header_value"})
        BY DEF s_header_value
     <2>1. parser.state = "s_header_value" /\ p \in Nat \ {0}
        BY <2>0, InMeans
     <2> QED BY <2>0, <2>1 DEF Inv, HeaderStatesFit
  <1>1. mark \in [Field -> Nat] /\ \A g \in Field \ {"header_value"} : mark[g] = 0
     BY <1>0 DEF Inv, CallOK, MarksFit, StatesOf, Field, URL_States, URL_Space,
        URL_NoSpace
  <1>2. Counted \in Parsers /\ Counted.state = "s_header_value"
        /\ Counted.http_errno = "OK"
        /\ Counted.header_state = h /\ Counted.content_length = parser.content_length
     BY <1>0, ToIn, FieldStates DEF Same
  <1>3. \/ (Break(To("s_header_almost_done")) \/ Again(To("s_header_almost_done")))
             /\ Deliver("header_value", mark["header_value"], p)
        \/ Go(Counted)
        \/ /\ h = "h_content_length" /\ ch \in DOMAIN Digit
           /\ Fits(parser.content_length, 10)
           /\ \E q : q = [Counted EXCEPT !.content_length = N] /\ Go(q)
        \/ Error("INVALID_CONTENT_LENGTH")
        \/ h \in ValueMatching /\ \E q : q = Matched(Counted, LOWER(ch)) /\ Go(q)
        \/ \E q : q = [Counted EXCEPT !.header_state = H] /\ Go(q)
     BY Zenon DEF s_header_value, Quiet
  <1>4. ASSUME NEW q, q \in Parsers, q.state = "s_header_value", q.http_errno = "OK",
               q.header_state \notin {"h_connection", "h_transfer_encoding"}, Go(q)
        PROVE  Inv'
     <2>1. parser' = q /\ data' = data /\ p' \in Nat \ {0} /\ mark' = mark
        BY <1>0, <1>4 DEF Break
     <2> QED BY <1>1, <1>4, <2>1, OpenKeeps
  <1>5. CASE (Break(To("s_header_almost_done")) \/ Again(To("s_header_almost_done")))
             /\ Deliver("header_value", mark["header_value"], p)
     <2>1. "s_header_almost_done" \in Plain /\ "s_header_almost_done" \in State
        BY PlainStates DEF Plain
     <2>2. To("s_header_almost_done") \in Parsers
           /\ To("s_header_almost_done").state = "s_header_almost_done"
           /\ To("s_header_almost_done").http_errno = "OK"
        BY <1>0, <2>1, ToIn
     <2>3. NoMarks'
        BY <1>1, <1>5, DeliverCloses DEF Field
     <2>4. parser' = To("s_header_almost_done") /\ data' = data /\ p' \in Nat \ {0}
        BY <1>0, <1>5 DEF Break, Again
     <2> QED BY <2>1, <2>2, <2>3, <2>4, PlainKeeps
  <1>6. ASSUME h = "h_content_length", ch \in DOMAIN Digit,
               Fits(parser.content_length, 10),
               NEW q, q = [Counted EXCEPT !.content_length = N], Go(q)
        PROVE  Inv'
     <2>1. PICK n \in 0 .. ULLONG_MAX : n = N
        <3>1. parser.content_length \in 0 .. ULLONG_MAX
           BY DEF Inv, ParserOK, Parsers
        <3> QED BY <1>2, <1>6, <3>1, DigitRange, FitsDigit, HttpParserAssumption
     <2>2. q = [Counted EXCEPT !.content_length = n]
        BY <1>6, <2>1, Zenon
     <2>3. q \in Parsers /\ q.state = "s_header_value" /\ q.http_errno = "OK"
           /\ q.header_state = "h_content_length"
        BY <1>2, <1>6, <2>2 DEF Parsers
     <2> QED BY <2>3, <1>4, <1>6
  <1>7. ASSUME h \in ValueMatching, NEW q, q = Matched(Counted, LOWER(ch)), Go(q)
               PROVE Inv'
     <2>1. q \in Parsers /\ q.state = "s_header_value" /\ q.http_errno = "OK"
           /\ q.header_state \in {"h_general", h, Keyword[h].found}
        BY <1>2, <1>7, MatchedKeeps
     <2>2. {"h_general", h, Keyword[h].found} \cap {"h_connection",
           "h_transfer_encoding"} = {}
        BY <1>7, Found, HeaderStatesApart
     <2> QED BY <2>1, <2>2, <1>4, <1>7
  <1>8. ASSUME NEW q, q = [Counted EXCEPT !.header_state = H], Go(q) PROVE Inv'
     <2>1. PICK g \in HeaderState : g = H /\ g = "h_general"
        BY <1>0, HeaderStatesApart
     <2>2. q = [Counted EXCEPT !.header_state = g]
        BY <1>8, <2>1, Zenon
     <2>3. q \in Parsers /\ q.state = "s_header_value" /\ q.http_errno = "OK"
           /\ q.header_state = g
        BY <1>2, <2>2 DEF Parsers
     <2> QED BY <2>1, <2>3, <1>4, <1>8
  <1> QED BY <1>0, <1>2, <1>3, <1>4, <1>5, <1>6, <1>7, <1>8, ErrorKeeps DEF Errno

\* s_header_value_lws: the value goes on, or its flag is set.
LEMMA s_header_value_lwsKeeps == ASSUME Inv, s_header_value_lws PROVE Inv'
  <1> DEFINE F == IF parser.header_state \in ValueMatched THEN FlagOf[parser.header_state] ELSE {}
             T == To("s_header_field_start")
  <1>0. In({"s_header_value_lws"}) /\ {"s_header_value_lws"} \in SUBSET Plain
        /\ "s_header_field_start" \in Plain
     BY PlainStates DEF s_header_value_lws
  <1>1. \/ Again(To("s_header_value_start")) /\ UNCHANGED mark
        \/ \E q : q = [T EXCEPT !.flags = T.flags \cup F] /\ Again(q) /\ UNCHANGED mark
     BY Zenon DEF s_header_value_lws, Quiet
  <1>2. CASE Again(To("s_header_value_start")) /\ UNCHANGED mark
     BY <1>0, <1>2, ToKeeps, PlainStates
  <1>3. ASSUME NEW q, q = [T EXCEPT !.flags = T.flags \cup F], Again(q),
               UNCHANGED mark PROVE Inv'
     <2>1. T \in Parsers /\ T.state = "s_header_field_start" /\ T.http_errno = "OK"
        BY <1>0, ToIn DEF Plain
     <2>2. F \in SUBSET Flag
        BY DEF ValueMatched, FlagOf, Flag
     <2>3. PICK fl \in SUBSET Flag : fl = T.flags \cup F
        BY <2>1, <2>2 DEF Parsers
     <2>4. q = [T EXCEPT !.flags = fl]
        BY <1>3, <2>3, Zenon
     <2>5. q \in Parsers /\ q.state = "s_header_field_start" /\ q.http_errno = "OK"
        BY <2>1, <2>4 DEF Parsers
     <2> QED BY <1>0, <1>3, <2>5, QuietKeeps
  <1> QED BY <1>1, <1>2, <1>3

\* s_header_value_discard_lws: a header without a value opens and closes its
\* mark in one step.
LEMMA s_header_value_discard_lwsKeeps == ASSUME Inv, s_header_value_discard_lws PROVE Inv'
  <1>0. In({"s_header_value_discard_lws"})
        /\ {"s_header_value_discard_lws"} \in SUBSET Plain
        /\ "s_header_field_start" \in Plain /\ "s_header_field_start" \in State
     BY PlainStates DEF s_header_value_discard_lws, Plain
  <1>1. CASE Break(To("s_header_value_discard_ws")) /\ UNCHANGED mark
     BY <1>0, <1>1, ToKeeps, PlainStates
  <1>2. CASE Again(To("s_header_field_start")) /\ Deliver("header_value", p, p)
     <2>1. NoMarks /\ p \in Nat \ {0}
        BY <1>0, Unopened, InMeans
     <2>2. NoMarks'
        BY <1>2, <2>1, DeliverCloses DEF NoMarks, Field
     <2>3. To("s_header_field_start") \in Parsers
           /\ To("s_header_field_start").state = "s_header_field_start"
           /\ To("s_header_field_start").http_errno = "OK"
        BY <1>0, ToIn
     <2>4. parser' = To("s_header_field_start") /\ data' = data /\ p' = p
        BY <1>2 DEF Again
     <2> QED BY <1>0, <2>1, <2>2, <2>3, <2>4, PlainKeeps
  <1> QED BY <1>1, <1>2 DEF s_header_value_discard_lws, Quiet

\* CROW_NEW_MESSAGE() is the start of a request, or dead.
LEMMA NewMessage == ASSUME NEW q PROVE NEW_MESSAGE(q) \in {"s_start_req", "s_dead"}
  BY DEF NEW_MESSAGE

\* s_headers_almost_done: the end of the trailer, or of the headers.
LEMMA s_headers_almost_doneKeeps == ASSUME Inv, s_headers_almost_done PROVE Inv'
  <1> DEFINE T == To("s_headers_done")
             U == "UPGRADE" \in parser.flags \/ parser.method = "CONNECT"
  <1>0. In({"s_headers_almost_done"}) /\ {"s_headers_almost_done"} \in SUBSET Plain
        /\ "s_headers_done" \in Plain
     BY PlainStates DEF s_headers_almost_done
  <1>1. \/ Error("STRICT")
        \/ Break(To(NEW_MESSAGE(parser))) /\ UNCHANGED mark
        \/ \E q : q = [T EXCEPT !.upgrade = U] /\ Again(q) /\ UNCHANGED mark
     BY Zenon DEF s_headers_almost_done, Notify
  <1>2. CASE Break(To(NEW_MESSAGE(parser))) /\ UNCHANGED mark
     BY <1>0, <1>2, NewMessage, ToKeeps, PlainStates
  <1>3. ASSUME NEW q, q = [T EXCEPT !.upgrade = U], Again(q), UNCHANGED mark PROVE Inv'
     <2>1. T \in Parsers /\ T.state = "s_headers_done" /\ T.http_errno = "OK"
        BY <1>0, ToIn DEF Plain
     <2>2. PICK u \in BOOLEAN : u = U
        BY Zenon
     <2>3. q = [T EXCEPT !.upgrade = u]
        BY <1>3, <2>2, Zenon
     <2>4. q \in Parsers /\ q.state = "s_headers_done" /\ q.http_errno = "OK"
        BY <2>1, <2>3 DEF Parsers
     <2> QED BY <1>0, <1>3, <2>4, QuietKeeps
  <1> QED BY <1>1, <1>2, <1>3, ErrorKeeps DEF Errno

\* The states in which the body is marked.
BodyMarked == {"s_body_identity", "s_chunk_data", "s_chunk_data_almost_done"}

\* A step to a state of the body.
LEMMA BodyKeeps ==
  ASSUME Inv, parser' \in Parsers, parser'.http_errno = "OK",
         parser'.state \in ChunkStates \cup {"s_body_identity"},
         ChunkFlag', SizeCounts', Lengths',
         mark' \in [Field -> Nat], \A g \in Field \ {"body"} : mark'[g] = 0,
         mark'["body"] # 0 => parser'.state \in BodyMarked,
         data' = data, p' \in Nat \ {0}
  PROVE  Inv'
  <1>1. ParserOK' /\ CallOK' /\ ErrorEnds'
     BY DEF Inv, ParserOK, CallOK, ErrorEnds
  <1>2. HeaderStatesFit'
     BY DEF HeaderStatesFit, ChunkStates
  <1>3. MarksFit'
     BY DEF MarksFit, StatesOf, Field, BodyMarked
  <1> QED
     BY <1>1, <1>2, <1>3 DEF Inv

\* The states of the body are states.
LEMMA BodyStatesIn == ChunkStates \cup {"s_body_identity",
    "s_message_done"} \subseteq State
  BY DEF ChunkStates, State, BodyStates, HeaderStates

\* s_headers_done: the one place where a body with a length begins, and the
\* length is neither 0 nor "none".
LEMMA s_headers_doneKeeps == ASSUME Inv, s_headers_done PROVE Inv'
  <1> DEFINE Zeroed(s) == [To(s) EXCEPT !.nread = 0]
             M == NEW_MESSAGE(parser)
  <1>0. In({"s_headers_done"}) /\ {"s_headers_done"} \in SUBSET Plain
     BY PlainStates DEF s_headers_done
  <1>1. NoMarks /\ p \in Nat \ {0}
     BY <1>0, Unopened, InMeans
  <1>2. M \in Plain /\ M \in State /\ {"s_chunk_size_start",
        "s_body_identity"} \subseteq State
     BY NewMessage, PlainStates, BodyStatesIn DEF Plain, ChunkStates
  <1>3. ASSUME NEW s \in State
        PROVE  /\ Zeroed(s) \in Parsers /\ Zeroed(s).state = s
               /\ Zeroed(s).http_errno = "OK" /\ Zeroed(s).nread = 0
               /\ Zeroed(s).flags = parser.flags
                  /\ Zeroed(s).content_length = parser.content_length
     <2>1. To(s) \in Parsers /\ To(s).state = s /\ To(s).http_errno = "OK"
           /\ To(s).flags = parser.flags
           /\ To(s).content_length = parser.content_length
        BY <1>0, ToIn DEF Same
     <2> QED BY <2>1 DEF Parsers
  <1> HIDE DEF Zeroed, M
  <1>4. \/ Return(Zeroed(M), p = Len(data)) /\ mark' = Unmarked
        \/ "CHUNKED" \in parser.flags /\ Break(Zeroed("s_chunk_size_start"))
           /\ UNCHANGED mark
        \/ parser.content_length \notin {0, ULLONG_MAX}
           /\ Break(Zeroed("s_body_identity")) /\ UNCHANGED mark
        \/ Break(Zeroed(M)) /\ UNCHANGED mark
     BY Zenon DEF s_headers_done, Quiet, Notify, Zeroed, M
  <1>5. CASE Return(Zeroed(M), p = Len(data)) /\ mark' = Unmarked
     <2>1. NoMarks' /\ data' = <<>> /\ p' \in Nat \ {0} /\ parser' = Zeroed(M)
        BY <1>5 DEF NoMarks, Unmarked, Return
     <2> QED BY <1>2, <1>3, <2>1, PlainKeeps
  <1>6. CASE "CHUNKED" \in parser.flags /\ Break(Zeroed("s_chunk_size_start"))
             /\ UNCHANGED mark
     <2>1. parser' = Zeroed("s_chunk_size_start") /\ data' = data /\ p' \in Nat \ {0}
           /\ mark' = mark /\ again' = FALSE
        BY <1>1, <1>6 DEF Break
     <2>2. parser' \in Parsers /\ parser'.state = "s_chunk_size_start"
           /\ parser'.http_errno = "OK" /\ parser'.nread = 0
           /\ parser'.flags = parser.flags
        BY <1>2, <1>3, <2>1
     <2>3. ChunkFlag' /\ SizeCounts' /\ Lengths'
        BY <1>6, <2>1, <2>2 DEF ChunkFlag, SizeCounts, Lengths
     <2> QED BY <1>1, <2>1, <2>2, <2>3, BodyKeeps DEF NoMarks, ChunkStates, Field
  <1>7. CASE parser.content_length \notin {0, ULLONG_MAX}
             /\ Break(Zeroed("s_body_identity")) /\ UNCHANGED mark
     <2>1. parser' = Zeroed("s_body_identity") /\ data' = data /\ p' \in Nat \ {0}
           /\ mark' = mark
        BY <1>1, <1>7 DEF Break
     <2>2. parser' \in Parsers /\ parser'.state = "s_body_identity"
           /\ parser'.http_errno = "OK"
           /\ parser'.content_length = parser.content_length
        BY <1>2, <1>3, <2>1
     <2>3. ChunkFlag' /\ SizeCounts' /\ Lengths'
        BY <1>7, <2>2 DEF ChunkFlag, SizeCounts, Lengths, ChunkStates
     <2> QED BY <1>1, <2>1, <2>2, <2>3, BodyKeeps DEF NoMarks, Field
  <1>8. CASE Break(Zeroed(M)) /\ UNCHANGED mark
     BY <1>0, <1>2, <1>3, <1>8, QuietKeeps
  <1> QED BY <1>4, <1>5, <1>6, <1>7, <1>8

\* CROW_MIN(content_length, the rest of the piece): at least one byte, at
\* most the length.
LEMMA ToRead ==
  ASSUME Inv, NEW S, In(S), parser.content_length # 0
  PROVE  /\ to_read \in 1 .. parser.content_length
         /\ parser.content_length - to_read \in 0 .. ULLONG_MAX - 1
         /\ p + to_read - 1 \in Nat \ {0} /\ p + to_read \in Nat \ {0}
  <1>1. p \in 1 .. Len(data) /\ Len(data) \in Nat
     BY InMeans
  <1>2. parser.content_length \in 0 .. ULLONG_MAX
     BY InMeans DEF Parsers
  <1> QED BY <1>1, <1>2, HttpParserAssumption DEF to_read

\* s_body_identity: the piece holds the rest of the body, or part of it.
LEMMA s_body_identityKeeps == ASSUME Inv, s_body_identity PROVE Inv'
  <1>0. In({"s_body_identity"}) /\ parser \in Parsers
        /\ parser.state = "s_body_identity" /\ parser.http_errno = "OK"
        /\ p \in Nat \ {0}
     BY InMeans DEF s_body_identity
  <1>1. parser.content_length # 0
     BY <1>0 DEF Inv, Lengths
  <1>2. mark \in [Field -> Nat] /\ \A g \in Field \ {"body"} : mark[g] = 0
     BY <1>0 DEF Inv, CallOK, MarksFit, StatesOf, Field, URL_States, URL_Space,
        URL_NoSpace
  <1>3. PICK left \in 0 .. ULLONG_MAX - 1 : left = parser.content_length - to_read
     BY <1>0, <1>1, ToRead
  <1>4. CASE left = 0
     <2>1. /\ parser' = [parser EXCEPT !.content_length = 0, !.state = "s_message_done"]
           /\ p' = p + to_read - 1 /\ data' = data
           /\ Deliver("body", Marked("body"), p + to_read - 1 + 1)
        BY <1>3, <1>4, Zenon DEF s_body_identity
     <2>2. "s_message_done" \in State /\ "s_message_done" \in Plain
           /\ 0 \in 0 .. ULLONG_MAX
        BY PlainStates, BodyStatesIn, HttpParserAssumption
     <2>3. parser' \in Parsers /\ parser'.state = "s_message_done"
           /\ parser'.http_errno = "OK"
        BY <1>0, <2>1, <2>2 DEF Parsers
     <2>4. p' \in Nat \ {0}
        BY <1>0, <1>1, <2>1, ToRead
     <2>5. NoMarks'
        BY <1>2, <2>1, DeliverCloses DEF Field
     <2> QED BY <2>1, <2>2, <2>3, <2>4, <2>5, PlainKeeps
  <1>5. CASE left # 0
     <2>1. /\ parser' = [parser EXCEPT !.content_length = left]
              /\ p' = p + to_read - 1 + 1 /\ data' = data
           /\ Mark("body")
        BY <1>3, <1>5, Zenon DEF s_body_identity
     <2>2. parser' \in Parsers /\ parser'.state = "s_body_identity"
           /\ parser'.http_errno = "OK"
           /\ parser'.content_length = left
        <3>1. left \in 0 .. ULLONG_MAX
           BY HttpParserAssumption
        <3> QED BY <1>0, <2>1, <3>1 DEF Parsers
     <2>3. p' \in Nat \ {0}
        BY <1>0, <1>1, <2>1, ToRead
     <2>4. mark' \in [Field -> Nat] /\ \A g \in Field \ {"body"} : mark'[g] = 0
        BY <1>0, <1>2, <2>1, MarkOpens DEF Field
     <2>5. ChunkFlag' /\ SizeCounts' /\ Lengths'
        BY <1>5, <2>2 DEF ChunkFlag, SizeCounts, Lengths, ChunkStates
     <2> QED BY <2>1, <2>2, <2>3, <2>4, <2>5, BodyKeeps DEF BodyMarked
  <1> QED BY <1>4, <1>5

\* s_message_done: the next message.
LEMMA s_message_doneKeeps == ASSUME Inv, s_message_done PROVE Inv'
  BY NewMessage, ToKeeps, PlainStates DEF s_message_done, Notify

\* The states of the line in front of a chunk.
ChunkHead == {"s_chunk_size_start", "s_chunk_size", "s_chunk_parameters",
    "s_chunk_size_almost_done"}

\* Inside the head of a chunk: the length stays below the value for "none".
LEMMA ChunkHeadKeeps ==
  ASSUME Inv, NEW S \in SUBSET (ChunkStates \ {"s_chunk_data",
         "s_chunk_data_almost_done"}), In(S), NEW q,
         q \in Parsers, q.http_errno = "OK", q.flags = parser.flags,
           q.state \in ChunkHead,
         q.content_length # ULLONG_MAX, q.state = "s_chunk_size_start" => q.nread = 0,
         Break(q), UNCHANGED mark
  PROVE  Inv'
  <1>1. parser.state \in S /\ p \in Nat \ {0}
     BY InMeans
  <1>2. NoMarks /\ "CHUNKED" \in parser.flags
     <2>1. parser.state \in ChunkStates \ {"s_chunk_data", "s_chunk_data_almost_done"}
        BY <1>1
     <2>2. "CHUNKED" \in parser.flags
        BY <2>1 DEF Inv, ChunkFlag
     <2> QED BY <2>1, <2>2, Unopened DEF ChunkStates
  <1>3. parser' = q /\ data' = data /\ p' \in Nat \ {0} /\ mark' = mark /\ again' = FALSE
     BY <1>1 DEF Break
  <1>4. ChunkFlag' /\ SizeCounts' /\ Lengths'
     BY <1>2, <1>3 DEF ChunkFlag, SizeCounts, Lengths, ChunkHead
  <1> QED BY <1>2, <1>3, <1>4, BodyKeeps DEF NoMarks, ChunkHead, ChunkStates, Field

\* s_chunk_size_start: the first digit.
LEMMA s_chunk_size_startKeeps == ASSUME Inv, s_chunk_size_start PROVE Inv'
  <1> DEFINE T == To("s_chunk_size")
  <1>0. In({"s_chunk_size_start"})
        /\ {"s_chunk_size_start"} \in SUBSET (ChunkStates \ {"s_chunk_data",
        "s_chunk_data_almost_done"})
     BY DEF s_chunk_size_start, ChunkStates
  <1>1. \/ LOWER(ch) \in DOMAIN unhex
           /\ \E q : q = [T EXCEPT !.content_length = unhex[LOWER(ch)]] /\ Break(q)
              /\ UNCHANGED mark
        \/ Error("INVALID_CHUNK_SIZE")
     BY Zenon DEF s_chunk_size_start, Quiet
  <1>2. ASSUME LOWER(ch) \in DOMAIN unhex, NEW q,
               q = [T EXCEPT !.content_length = unhex[LOWER(ch)]],
               Break(q), UNCHANGED mark
        PROVE  Inv'
     <2>1. T \in Parsers /\ T.state = "s_chunk_size" /\ T.http_errno = "OK"
           /\ T.flags = parser.flags
        BY <1>0, ToIn, BodyStatesIn DEF Same, ChunkStates
     <2>2. PICK n \in 0 .. ULLONG_MAX : n = unhex[LOWER(ch)] /\ n # ULLONG_MAX
        BY <1>2, UnhexRange, HttpParserAssumption
     <2>3. q = [T EXCEPT !.content_length = n]
        BY <1>2, <2>2, Zenon
     <2>4. q \in Parsers /\ q.state = "s_chunk_size" /\ q.http_errno = "OK"
           /\ q.flags = parser.flags /\ q.content_length = n
        BY <2>1, <2>3 DEF Parsers
     <2> QED BY <1>0, <1>2, <2>2, <2>4, ChunkHeadKeeps DEF ChunkHead
  <1> QED BY <1>1, <1>2, ErrorKeeps DEF Errno

\* s_chunk_size: one more digit, or the end of the size.
LEMMA s_chunk_sizeKeeps == ASSUME Inv, s_chunk_size PROVE Inv'
  <1> DEFINE N == OneMoreDigit(Counted.content_length, 16, unhex[LOWER(ch)])
  <1>0. In({"s_chunk_size"})
        /\ {"s_chunk_size"} \in SUBSET (ChunkStates \ {"s_chunk_data",
        "s_chunk_data_almost_done"})
     BY DEF s_chunk_size, ChunkStates
  <1>1. parser.content_length \in 0 .. ULLONG_MAX
        /\ parser.content_length # ULLONG_MAX /\ parser.state = "s_chunk_size"
     <2>1. parser \in Parsers /\ parser.state = "s_chunk_size"
        BY <1>0, InMeans
     <2> QED BY <2>1 DEF Inv, Lengths, Parsers
  <1>2. Counted \in Parsers /\ Counted.state = "s_chunk_size" /\ Counted.http_errno = "OK"
        /\ Counted.flags = parser.flags /\ Counted.content_length = parser.content_length
     BY <1>0, <1>1, ToIn, BodyStatesIn DEF Same, ChunkStates
  <1>3. \/ \E s \in {"s_chunk_size_almost_done", "s_chunk_parameters"} : Break(To(s))
           /\ UNCHANGED mark
        \/ /\ LOWER(ch) \in DOMAIN unhex /\ Fits(parser.content_length, 16)
           /\ \E q : q = [Counted EXCEPT !.content_length = N] /\ Break(q)
              /\ UNCHANGED mark
        \/ Error("INVALID_CONTENT_LENGTH") \/ Error("INVALID_CHUNK_SIZE")
     BY Zenon DEF s_chunk_size, Quiet
  <1>4. ASSUME NEW s \in {"s_chunk_size_almost_done", "s_chunk_parameters"},
               Break(To(s)), UNCHANGED mark
        PROVE  Inv'
     <2>1. To(s) \in Parsers /\ To(s).state = s /\ To(s).http_errno = "OK"
           /\ To(s).flags = parser.flags
           /\ To(s).content_length = parser.content_length
        BY <1>0, ToIn, BodyStatesIn DEF Same, ChunkStates
     <2> QED BY <1>0, <1>1, <1>4, <2>1, ChunkHeadKeeps DEF ChunkHead
  <1>5. ASSUME LOWER(ch) \in DOMAIN unhex, Fits(parser.content_length, 16),
               NEW q, q = [Counted EXCEPT !.content_length = N], Break(q), UNCHANGED mark
        PROVE  Inv'
     <2>1. PICK n \in 0 .. ULLONG_MAX : n = N /\ n # ULLONG_MAX
        BY <1>1, <1>2, <1>5, UnhexRange, FitsDigit, HttpParserAssumption
     <2>2. q = [Counted EXCEPT !.content_length = n]
        BY <1>5, <2>1, Zenon
     <2>3. q \in Parsers /\ q.state = "s_chunk_size" /\ q.http_errno = "OK"
           /\ q.flags = parser.flags /\ q.content_length = n
        BY <1>2, <2>2 DEF Parsers
     <2> QED BY <1>0, <1>5, <2>1, <2>3, ChunkHeadKeeps DEF ChunkHead
  <1> QED BY <1>3, <1>4, <1>5, ErrorKeeps DEF Errno

\* s_chunk_parameters: skipped up to CR.
LEMMA s_chunk_parametersKeeps == ASSUME Inv, s_chunk_parameters PROVE Inv'
  <1>0. In({"s_chunk_parameters"})
        /\ {"s_chunk_parameters"} \in SUBSET (ChunkStates \ {"s_chunk_data",
        "s_chunk_data_almost_done"})
     BY DEF s_chunk_parameters, ChunkStates
  <1>1. parser.content_length # ULLONG_MAX /\ parser.state = "s_chunk_parameters"
     <2>1. parser.state = "s_chunk_parameters"
        BY <1>0, InMeans
     <2> QED BY <2>1 DEF Inv, Lengths
  <1>2. PICK q : (q = Counted \/ q = To("s_chunk_size_almost_done")) /\ Break(q)
             /\ UNCHANGED mark
     BY Zenon DEF s_chunk_parameters, Quiet
  <1>3. q \in Parsers /\ q.state \in {"s_chunk_parameters",
        "s_chunk_size_almost_done"} /\ q.http_errno = "OK"
        /\ q.flags = parser.flags /\ q.content_length = parser.content_length
     BY <1>0, <1>1, <1>2, ToIn, BodyStatesIn DEF Same, ChunkStates
  <1> QED BY <1>0, <1>1, <1>2, <1>3, ChunkHeadKeeps DEF ChunkHead

\* s_chunk_size_almost_done: the last chunk, or the data of one with a
\* length.
LEMMA s_chunk_size_almost_doneKeeps == ASSUME Inv, s_chunk_size_almost_done PROVE Inv'
  <1> DEFINE T == To("s_header_field_start")
             D == To("s_chunk_data")
             F == T.flags \cup {"TRAILING"}
  <1>0. In({"s_chunk_size_almost_done"}) /\ "s_header_field_start" \in Plain
        /\ "s_header_field_start" \in State /\ "s_chunk_data" \in State
     BY PlainStates, BodyStatesIn DEF s_chunk_size_almost_done, Plain, ChunkStates
  <1>1. parser.state = "s_chunk_size_almost_done" /\ p \in Nat \ {0}
     BY <1>0, InMeans
  <1>2. NoMarks /\ "CHUNKED" \in parser.flags /\ parser.content_length # ULLONG_MAX
     <2>1. "CHUNKED" \in parser.flags /\ parser.content_length # ULLONG_MAX
        BY <1>1 DEF Inv, ChunkFlag, Lengths, ChunkStates
     <2> QED BY <1>1, <2>1, Unopened
  <1>3. \/ Error("STRICT")
        \/ \E q : q = [T EXCEPT !.nread = 0, !.flags = F] /\ Break(q) /\ UNCHANGED mark
        \/ parser.content_length # 0
           /\ \E q : q = [D EXCEPT !.nread = 0] /\ Break(q) /\ UNCHANGED mark
     BY Zenon DEF s_chunk_size_almost_done, Quiet
  <1>4. ASSUME NEW q, q = [T EXCEPT !.nread = 0, !.flags = F], Break(q),
               UNCHANGED mark PROVE Inv'
     <2>1. T \in Parsers /\ T.state = "s_header_field_start" /\ T.http_errno = "OK"
        BY <1>0, ToIn
     <2>2. F \in SUBSET Flag
        BY <2>1 DEF Parsers, Flag
     <2>3. PICK fl \in SUBSET Flag : fl = F
        BY <2>2, Zenon
     <2>4. q = [T EXCEPT !.nread = 0, !.flags = fl]
        BY <1>4, <2>3, Zenon
     <2>5. q \in Parsers /\ q.state = "s_header_field_start" /\ q.http_errno = "OK"
        BY <2>1, <2>4 DEF Parsers
     <2>6. parser' = q /\ data' = data /\ p' \in Nat \ {0} /\ NoMarks'
        BY <1>1, <1>2, <1>4 DEF Break, NoMarks
     <2> QED BY <1>0, <2>5, <2>6, PlainKeeps
  <1>5. ASSUME parser.content_length # 0, NEW q, q = [D EXCEPT !.nread = 0], Break(q),
               UNCHANGED mark
        PROVE  Inv'
     <2>1. D \in Parsers /\ D.state = "s_chunk_data" /\ D.http_errno = "OK"
           /\ D.flags = parser.flags /\ D.content_length = parser.content_length
        BY <1>0, ToIn DEF Same
     <2>2. q \in Parsers /\ q.state = "s_chunk_data" /\ q.http_errno = "OK"
           /\ q.flags = parser.flags /\ q.content_length = parser.content_length
        BY <1>5, <2>1 DEF Parsers
     <2>3. parser' = q /\ data' = data /\ p' \in Nat \ {0} /\ mark' = mark
        BY <1>1, <1>5 DEF Break
     <2>4. ChunkFlag' /\ SizeCounts' /\ Lengths'
        BY <1>2, <1>5, <2>2, <2>3 DEF ChunkFlag, SizeCounts, Lengths
     <2> QED BY <1>2, <2>2, <2>3, <2>4, BodyKeeps DEF NoMarks, ChunkStates, Field
  <1> QED BY <1>3, <1>4, <1>5, ErrorKeeps DEF Errno

\* s_chunk_data: the length is 0 exactly when the state changes.
LEMMA s_chunk_dataKeeps == ASSUME Inv, s_chunk_data PROVE Inv'
  <1> DEFINE t == IF parser.content_length
      = to_read THEN "s_chunk_data_almost_done" ELSE parser.state
  <1>0. In({"s_chunk_data"}) /\ parser \in Parsers /\ parser.state = "s_chunk_data"
        /\ parser.http_errno = "OK" /\ p \in Nat \ {0}
     BY InMeans DEF s_chunk_data
  <1>1. parser.content_length # 0 /\ "CHUNKED" \in parser.flags
     BY <1>0 DEF Inv, Lengths, ChunkFlag, ChunkStates
  <1>2. mark \in [Field -> Nat] /\ \A g \in Field \ {"body"} : mark[g] = 0
     BY <1>0 DEF Inv, CallOK, MarksFit, StatesOf, Field, URL_States, URL_Space,
        URL_NoSpace
  <1>3. PICK left \in 0 .. ULLONG_MAX - 1 : left = parser.content_length - to_read
     BY <1>0, <1>1, ToRead
  <1>4. /\ parser' = [parser EXCEPT !.content_length = left, !.state = t]
        /\ p' = p + to_read /\ data' = data /\ Mark("body")
     BY <1>3, Zenon DEF s_chunk_data
  <1>5. /\ to_read \in 1 .. parser.content_length
           /\ parser.content_length \in 0 .. ULLONG_MAX
        /\ left \in 0 .. ULLONG_MAX /\ left # ULLONG_MAX
     BY <1>0, <1>1, ToRead, HttpParserAssumption DEF Parsers
  <1>6. t \in {"s_chunk_data", "s_chunk_data_almost_done"} /\ t \in State
        /\ (t = "s_chunk_data_almost_done" <=> left = 0)
     BY <1>0, <1>3, <1>5, BodyStatesIn DEF ChunkStates
  <1> HIDE DEF t
  <1>7. parser' \in Parsers /\ parser'.state = t /\ parser'.http_errno = "OK"
        /\ parser'.content_length = left /\ parser'.flags = parser.flags
     BY <1>0, <1>4, <1>5, <1>6 DEF Parsers
  <1>8. p' \in Nat \ {0}
     BY <1>0, <1>1, <1>4, ToRead
  <1>9. mark' \in [Field -> Nat] /\ \A g \in Field \ {"body"} : mark'[g] = 0
     BY <1>0, <1>2, <1>4, MarkOpens DEF Field
  <1>10. ChunkFlag' /\ SizeCounts' /\ Lengths'
     BY <1>1, <1>5, <1>6, <1>7 DEF ChunkFlag, SizeCounts, Lengths
  <1> QED BY <1>4, <1>6, <1>7, <1>8, <1>9, <1>10, BodyKeeps DEF BodyMarked, ChunkStates

\* s_chunk_data_almost_done: CR closes the mark of the body.
LEMMA s_chunk_data_almost_doneKeeps == ASSUME Inv, s_chunk_data_almost_done PROVE Inv'
  <1> DEFINE T == To("s_chunk_data_done")
  <1>0. In({"s_chunk_data_almost_done"}) /\ "s_chunk_data_done" \in State
     BY BodyStatesIn DEF s_chunk_data_almost_done, ChunkStates
  <1>1. parser.state = "s_chunk_data_almost_done" /\ p \in Nat \ {0}
     BY <1>0, InMeans
  <1>2. "CHUNKED" \in parser.flags
     BY <1>1 DEF Inv, ChunkFlag, ChunkStates
  <1>3. mark \in [Field -> Nat] /\ \A g \in Field \ {"body"} : mark[g] = 0
     BY <1>1 DEF Inv, CallOK, MarksFit, StatesOf, Field, URL_States, URL_Space,
        URL_NoSpace
  <1>4. CASE Break(T) /\ Deliver("body", mark["body"], p)
     <2>1. T \in Parsers /\ T.state = "s_chunk_data_done" /\ T.http_errno = "OK"
           /\ T.flags = parser.flags
        BY <1>0, ToIn DEF Same
     <2>2. parser' = T /\ data' = data /\ p' \in Nat \ {0}
        BY <1>1, <1>4 DEF Break
     <2>3. NoMarks'
        BY <1>3, <1>4, DeliverCloses DEF Field
     <2>4. ChunkFlag' /\ SizeCounts' /\ Lengths'
        BY <1>2, <2>1, <2>2 DEF ChunkFlag, SizeCounts, Lengths
     <2> QED BY <2>1, <2>2, <2>3, <2>4, BodyKeeps DEF NoMarks, ChunkStates, Field
  <1> QED BY <1>4, ErrorKeeps DEF s_chunk_data_almost_done, Errno

\* s_chunk_data_done: LF, and nread is reset for the next size.
LEMMA s_chunk_data_doneKeeps == ASSUME Inv, s_chunk_data_done PROVE Inv'
  <1> DEFINE T == To("s_chunk_size_start")
  <1>0. In({"s_chunk_data_done"}) /\ "s_chunk_size_start" \in State
     BY BodyStatesIn DEF s_chunk_data_done, ChunkStates
  <1>1. parser.state = "s_chunk_data_done" /\ p \in Nat \ {0}
     BY <1>0, InMeans
  <1>2. NoMarks /\ "CHUNKED" \in parser.flags
     <2>1. "CHUNKED" \in parser.flags
        BY <1>1 DEF Inv, ChunkFlag, ChunkStates
     <2> QED BY <1>1, <2>1, Unopened
  <1>3. \/ \E q : q = [T EXCEPT !.nread = 0] /\ Break(q) /\ UNCHANGED mark
        \/ Error("STRICT")
     BY Zenon DEF s_chunk_data_done, Quiet
  <1>4. ASSUME NEW q, q = [T EXCEPT !.nread = 0], Break(q), UNCHANGED mark PROVE Inv'
     <2>1. T \in Parsers /\ T.state = "s_chunk_size_start" /\ T.http_errno = "OK"
           /\ T.flags = parser.flags
        BY <1>0, ToIn DEF Same
     <2>2. q \in Parsers /\ q.state = "s_chunk_size_start" /\ q.http_errno = "OK"
           /\ q.flags = parser.flags /\ q.nread = 0
        BY <1>4, <2>1 DEF Parsers
     <2>3. parser' = q /\ data' = data /\ p' \in Nat \ {0} /\ mark' = mark
           /\ again' = FALSE
        BY <1>1, <1>4 DEF Break
     <2>4. ChunkFlag' /\ SizeCounts' /\ Lengths'
        BY <1>2, <2>2, <2>3 DEF ChunkFlag, SizeCounts, Lengths
     <2> QED BY <1>2, <2>2, <2>3, <2>4, BodyKeeps DEF NoMarks, ChunkStates, Field
  <1> QED BY <1>3, <1>4, ErrorKeeps DEF Errno

\* The end of a piece: the open field is delivered, and no mark survives the
\* call.
LEMMA leftoverKeeps == ASSUME Inv, leftover PROVE Inv'
  <1>1. parser' = parser /\ data' = <<>> /\ p' = 1 /\ again' = FALSE /\ mark' = Unmarked
     BY DEF leftover, Return
  <1>2. CallOK' /\ MarksFit' /\ ErrorEnds'
     BY <1>1 DEF CallOK, MarksFit, ErrorEnds, Unmarked
  <1> QED
     BY <1>1, <1>2 DEF Inv, ParserOK, ChunkFlag, SizeCounts, Lengths, HeaderStatesFit

\* A new piece marks what the state says is open.
LEMMA http_parser_executeKeeps ==
  ASSUME Inv, NEW piece \in Seq(STRING), http_parser_execute(piece) PROVE Inv'
  <1>1. parser' = parser /\ again' = again /\ p' = 1
     BY DEF http_parser_execute
  <1>2. ParserOK' /\ ChunkFlag' /\ SizeCounts' /\ Lengths' /\ HeaderStatesFit'
     BY <1>1 DEF Inv, ParserOK, ChunkFlag, SizeCounts, Lengths, HeaderStatesFit
  <1>3. CASE parser.http_errno = "OK"
     <2>1. data' = piece /\ mark' = Continued
        BY <1>3 DEF http_parser_execute
     <2>2. CallOK' /\ ErrorEnds'
        BY <1>1, <1>3, <2>1 DEF CallOK, ErrorEnds, Continued
     <2>3. MarksFit'
        BY <1>1, <2>1 DEF MarksFit, Continued, StatesOf, Field
     <2> QED BY <1>2, <2>2, <2>3 DEF Inv
  <1>4. CASE parser.http_errno # "OK"
     <2>1. data' = data /\ mark' = mark
        BY <1>4 DEF http_parser_execute
     <2> QED BY <1>1, <1>2, <2>1 DEF Inv, CallOK, ErrorEnds, MarksFit
  <1> QED BY <1>3, <1>4

\* The end of the stream: nothing but http_errno may change.
LEMMA doneKeeps == ASSUME Inv, done PROVE Inv'
  <1>1. data = <<>> /\ data' = data /\ p' = p /\ again' = again /\ mark' = mark
     BY DEF done
  <1>2. CASE parser' = parser
     BY <1>1, <1>2 DEF Inv, ParserOK, CallOK, ErrorEnds, ChunkFlag, SizeCounts, Lengths,
        HeaderStatesFit, MarksFit
  <1>3. CASE parser' = [parser EXCEPT !.http_errno = "INVALID_EOF_STATE"]
     <2>1. parser \in Parsers /\ "INVALID_EOF_STATE" \in Errno
        BY DEF Inv, ParserOK, Errno
     <2>2. parser' \in Parsers /\ parser'.http_errno = "INVALID_EOF_STATE"
           /\ \A f \in {"state", "flags", "content_length",
              "header_state"} : parser'[f] = parser[f]
        BY <1>3, <2>1 DEF Parsers
     <2>3. ParserOK' /\ CallOK' /\ ErrorEnds' /\ MarksFit'
        BY <1>1, <2>2 DEF Inv, ParserOK, CallOK, ErrorEnds, MarksFit
     <2> QED BY <2>2, <2>3 DEF Inv, ChunkFlag, SizeCounts, Lengths, HeaderStatesFit
  <1> QED BY <1>2, <1>3 DEF done

\* http_parser_init() establishes the invariant.
LEMMA InitInv == Init => Inv
  <1> SUFFICES ASSUME Init PROVE Inv
     OBVIOUS
  <1>1. /\ "s_start_req" \in State /\ "s_start_req" \in Plain
           /\ "h_general" \in HeaderState
        /\ 0 \in 0 .. ULLONG_MAX /\ "DELETE" \in Method /\ "OK" \in Errno
     BY PlainStates, HttpParserAssumption DEF Plain, HeaderState, Method, method_strings,
        Errno
  <1>2. parser \in Parsers /\ parser.state = "s_start_req" /\ parser.http_errno = "OK"
     BY <1>1 DEF Init, http_parser_init, Parsers
  <1>3. CallOK /\ MarksFit
     BY DEF Init, CallOK, MarksFit, Unmarked
  <1> QED
     BY <1>2, <1>3 DEF Inv, ParserOK, ErrorEnds, ChunkFlag, SizeCounts, Lengths,
        HeaderStatesFit, ChunkStates

\* The cases of the request line.
LEMMA RequestLineKeeps == ASSUME Inv, request_line PROVE Inv'
  BY s_deadKeeps, s_start_reqKeeps, s_req_methodKeeps, s_req_spaces_before_urlKeeps,
     s_req_schemaKeeps, s_req_serverKeeps, s_req_http_startKeeps, ConstantKeeps,
       VersionKeeps,
     s_req_line_almost_doneKeeps DEF request_line

\* The cases of the headers.
LEMMA HeaderLinesKeep == ASSUME Inv, header_lines PROVE Inv'
  BY s_header_field_startKeeps, s_header_fieldKeeps, s_header_value_discard_wsKeeps,
     s_header_value_startKeeps, s_header_valueKeeps, ConstantKeeps,
       s_header_value_lwsKeeps,
     s_header_value_discard_lwsKeeps, s_headers_almost_doneKeeps, s_headers_doneKeeps
     DEF header_lines

\* The cases of the body.
LEMMA MessageBodyKeeps == ASSUME Inv, message_body PROVE Inv'
  BY s_body_identityKeeps, s_message_doneKeeps, s_chunk_size_startKeeps,
     s_chunk_sizeKeeps,
     s_chunk_parametersKeeps, s_chunk_size_almost_doneKeeps, s_chunk_dataKeeps,
     s_chunk_data_almost_doneKeeps, s_chunk_data_doneKeeps DEF message_body

\* Every step of every call.
LEMMA NextKeeps == ASSUME Inv, [Next]_vars PROVE Inv'
  <1>1. CASE header_overflow
     BY <1>1, ErrorKeeps DEF header_overflow, Errno
  <1>2. CASE step
     BY <1>1, <1>2, RequestLineKeeps, HeaderLinesKeep, MessageBodyKeeps,
        leftoverKeeps DEF step
  <1>3. CASE UNCHANGED vars
     BY <1>3 DEF vars, Inv, ParserOK, CallOK, ErrorEnds, ChunkFlag, SizeCounts, Lengths,
        HeaderStatesFit, MarksFit
  <1> QED
     BY <1>2, <1>3, doneKeeps, http_parser_executeKeeps DEF Next

\* The invariant contains what the code asserts.
LEMMA InvAsserts == Inv => AssertsHold
  <1> SUFFICES ASSUME Inv PROVE AssertsHold
     OBVIOUS
  <1>1. ASSUME parser.state = "s_chunk_size_start", p \in DOMAIN data
               PROVE Counted.nread = 1
     <2>1. parser.http_errno = "OK" /\ parser \in Parsers
        BY <1>1 DEF Inv, ErrorEnds, ParserOK
     <2>2. parser.nread = 0 /\ again = FALSE /\ parser.state \in HeaderStates
        BY <1>1, <2>1 DEF Inv, SizeCounts, HeaderStates, ChunkStates, BodyStates
     <2> QED BY <2>1, <2>2 DEF Counted, Parsers
  <1>2. \A f, g \in Field : mark[f] # 0 /\ mark[g] # 0 => f = g
     BY DEF Inv, MarksFit, StatesOf, Field, URL_States, URL_Space, URL_NoSpace
  <1> QED
     BY <1>1, <1>2 DEF AssertsHold, Inv, ChunkFlag, Lengths, HeaderStatesFit

\* The invariant holds of http_parser_execute() whatever bytes arrive, in
\* whatever pieces, with errors and ends of the stream in between.
THEOREM HttpParserInvariant == Spec => []Inv
  BY InitInv, NextKeeps, PTL DEF Spec

\* No assert() of http_parser_execute() fails, for any
\* CROW_HTTP_MAX_HEADER_SIZE, any width of content_length and any input in
\* any pieces.
THEOREM AssertsNeverFail == Spec => []AssertsHold
  BY HttpParserInvariant, InvAsserts, PTL

-----------------------------------------------------------------------------
(* The request that the callbacks put together. *)

\* The members of HTTPParser; of those that are only copied nothing is said.
SelfOK ==
  /\ self \in [raw_url : Seq(STRING), url : {self.url}, url_params : {self.url_params},
               header_building_state : {0, 1}, header_field : Seq(STRING),
               header_value : Seq(STRING), headers : {self.headers}, body : Seq(STRING)]
  /\ self.header_building_state = 1 => self.header_value = <<>>

\* A header is put with the others.
Put == self'.headers = Append(self.headers, [field |-> self.header_field,
                                             value |-> self.header_value])

\* What a step leaves of the text of a field that it does not read.
Left(f) ==
  \/ Text(f)' = Text(f)
  \/ f = "header_field" /\ Text(f)' = <<>>
  \/ f = "header_value" /\ Text(f)' = <<>> /\ Put

\* The parser calls nothing.
LEMMA CalledNothing ==
  ASSUME SelfOK, event'.on = "nothing", Callback(event')
  PROVE  SelfOK' /\ self' = self
  BY DEF Callback, SelfOK

\* on_message_begin: whatever is left of the message before is dropped.
LEMMA CalledBegin ==
  ASSUME SelfOK, event'.on = "message_begin", Callback(event')
  PROVE  SelfOK' /\ self' = clear
  <1>1. self' = clear
    BY DEF Callback
  <1>2. <<>> \in Seq(STRING)
    OBVIOUS
  <1> QED
    BY <1>1, <1>2, Zenon DEF SelfOK, clear

\* on_url appends to the url and leaves the other fields alone.
LEMMA CalledUrl ==
  ASSUME SelfOK, event'.on = "url", event'.text \in Seq(STRING), Callback(event')
  PROVE  /\ SelfOK' /\ Text("url")' = Text("url") \o event'.text
         /\ \A f \in Field \ {"url"} : Left(f)
  <1>1. self' = [self EXCEPT !.raw_url = @ \o event'.text]
    BY DEF Callback, on_url
  <1>2. self.raw_url \o event'.text \in Seq(STRING)
    BY DEF SelfOK
  <1>3. /\ self'.raw_url = self.raw_url \o event'.text
        /\ self'.header_building_state = self.header_building_state
        /\ self'.header_field = self.header_field /\ self'.header_value = self.header_value
        /\ self'.body = self.body
    BY <1>1 DEF SelfOK
  <1>4. SelfOK'
    BY <1>1, <1>2 DEF SelfOK
  <1> QED
    BY <1>3, <1>4 DEF Text, Left, Field

\* on_body appends to the body and leaves the other fields alone.
LEMMA CalledBody ==
  ASSUME SelfOK, event'.on = "body", event'.text \in Seq(STRING), Callback(event')
  PROVE  /\ SelfOK' /\ Text("body")' = Text("body") \o event'.text
         /\ \A f \in Field \ {"body"} : Left(f)
  <1>1. self' = [self EXCEPT !.body = @ \o event'.text]
    BY DEF Callback, on_body
  <1>2. self.body \o event'.text \in Seq(STRING)
    BY DEF SelfOK
  <1>3. /\ self'.body = self.body \o event'.text
        /\ self'.header_building_state = self.header_building_state
        /\ self'.header_field = self.header_field /\ self'.header_value = self.header_value
        /\ self'.raw_url = self.raw_url
    BY <1>1 DEF SelfOK
  <1>4. SelfOK'
    BY <1>1, <1>2 DEF SelfOK
  <1> QED
    BY <1>3, <1>4 DEF Text, Left, Field

\* The header that is complete is put with the others, and the next one is empty.
LEMMA EmplacedMeans ==
  ASSUME SelfOK
  PROVE  /\ Emplaced \in [raw_url : Seq(STRING), url : {self.url},
               url_params : {self.url_params}, header_building_state : {0, 1},
               header_field : Seq(STRING), header_value : Seq(STRING),
               headers : {Emplaced.headers}, body : Seq(STRING)]
         /\ Emplaced.raw_url = self.raw_url /\ Emplaced.body = self.body
         /\ Emplaced.header_building_state = self.header_building_state
         /\ Emplaced.header_field = <<>> /\ Emplaced.header_value = <<>>
         /\ Emplaced.headers = Append(self.headers, [field |-> self.header_field,
                                                     value |-> self.header_value])
  <1>1. <<>> \in Seq(STRING)
    OBVIOUS
  <1> DEFINE h == Append(self.headers, [field |-> self.header_field,
                                        value |-> self.header_value])
             e == [self EXCEPT !.headers = h, !.header_field = <<>>, !.header_value = <<>>]
  <1>2. Emplaced = e
    BY DEF Emplaced
  <1> HIDE DEF h
  <1>3. /\ e \in [raw_url : Seq(STRING), url : {self.url},
               url_params : {self.url_params}, header_building_state : {0, 1},
               header_field : Seq(STRING), header_value : Seq(STRING),
               headers : {h}, body : Seq(STRING)]
        /\ e.raw_url = self.raw_url /\ e.body = self.body
        /\ e.header_building_state = self.header_building_state
        /\ e.header_field = <<>> /\ e.header_value = <<>> /\ e.headers = h
    BY <1>1 DEF SelfOK
  <1> HIDE DEF e
  <1> QED
    BY <1>2, <1>3 DEF h

\* on_header_field appends to a name that was begun, or begins one when the
\* value before it is complete.
LEMMA CalledField ==
  ASSUME SelfOK, event'.on = "header_field", event'.text \in Seq(STRING), Callback(event')
  PROVE  /\ SelfOK' /\ Text("header_field")' = Text("header_field") \o event'.text
         /\ \A f \in Field \ {"header_field"} : Left(f)
  <1>0. PICK t \in Seq(STRING) : t = event'.text
    OBVIOUS
  <1>1. self' = on_header_field(t)
    BY <1>0 DEF Callback
  <1>2. CASE self.header_building_state = 1
    <2>1. self' = [self EXCEPT !.header_field = @ \o t]
      BY <1>1, <1>2 DEF on_header_field
    <2>2. self.header_field \o t \in Seq(STRING)
      BY DEF SelfOK
    <2>3. /\ self'.raw_url = self.raw_url /\ self'.body = self.body
          /\ self'.header_building_state = 1
          /\ self'.header_field = self.header_field \o t
          /\ self'.header_value = self.header_value
      BY <1>2, <2>1 DEF SelfOK
    <2>4. SelfOK'
      BY <2>1, <2>2 DEF SelfOK
    <2> QED
      BY <1>0, <1>2, <2>3, <2>4 DEF Text, Left, Field
  <1>3. CASE self.header_building_state = 0
    <2> DEFINE base == IF self.header_value # <<>> THEN Emplaced ELSE self
    <2>1. self' = [base EXCEPT !.header_field = t, !.header_building_state = 1]
      BY <1>1, <1>3 DEF on_header_field
    <2>2. /\ base \in [raw_url : Seq(STRING), url : {base.url},
               url_params : {base.url_params}, header_building_state : {0, 1},
               header_field : Seq(STRING), header_value : Seq(STRING),
               headers : {base.headers}, body : Seq(STRING)]
          /\ base.raw_url = self.raw_url /\ base.body = self.body
          /\ base.header_value = <<>>
          /\ self.header_value # <<>> =>
               base.headers = Append(self.headers, [field |-> self.header_field,
                                                    value |-> self.header_value])
      <3>1. CASE self.header_value = <<>>
        BY <3>1 DEF SelfOK
      <3>2. CASE self.header_value # <<>>
        <4>1. base = Emplaced
          BY <3>2
        <4>2. Emplaced.url = self.url /\ Emplaced.url_params = self.url_params
          BY EmplacedMeans
        <4> HIDE DEF base
        <4> QED
          BY <4>1, <4>2, EmplacedMeans
      <3> QED
        BY <3>1, <3>2
    <2> HIDE DEF base
    <2>3. /\ self'.raw_url = self.raw_url /\ self'.body = self.body
          /\ self'.header_building_state = 1 /\ self'.header_field = t
          /\ self'.header_value = <<>> /\ self'.headers = base.headers
      BY <2>1, <2>2
    <2>4. SelfOK'
      BY <2>1, <2>2 DEF SelfOK
    <2>5. Left("header_value")
      BY <2>2, <2>3 DEF Left, Put, Text
    <2>6. Text("header_field")' = Text("header_field") \o t
      BY <1>3, <2>3 DEF Text
    <2>7. Left("url") /\ Left("body")
      BY <2>3 DEF Left, Text
    <2> QED
      BY <1>0, <2>4, <2>5, <2>6, <2>7 DEF Field
  <1> QED
    BY <1>2, <1>3 DEF SelfOK

\* on_header_value appends to a value that was begun, or begins one.
LEMMA CalledValue ==
  ASSUME SelfOK, event'.on = "header_value", event'.text \in Seq(STRING), Callback(event')
  PROVE  /\ SelfOK' /\ Text("header_value")' = Text("header_value") \o event'.text
         /\ \A f \in Field \ {"header_value"} : Left(f)
  <1>0. PICK t \in Seq(STRING) : t = event'.text
    OBVIOUS
  <1>1. self' = on_header_value(t)
    BY <1>0 DEF Callback
  <1>2. CASE self.header_building_state = 0
    <2>1. self' = [self EXCEPT !.header_value = @ \o t]
      BY <1>1, <1>2 DEF on_header_value
    <2>2. self.header_value \o t \in Seq(STRING)
      BY DEF SelfOK
    <2>3. /\ self'.raw_url = self.raw_url /\ self'.body = self.body
          /\ self'.header_building_state = 0
          /\ self'.header_field = self.header_field
          /\ self'.header_value = self.header_value \o t
      BY <1>2, <2>1 DEF SelfOK
    <2>4. SelfOK'
      <3>1. self' \in [raw_url : Seq(STRING), url : {self'.url},
              url_params : {self'.url_params}, header_building_state : {0, 1},
              header_field : Seq(STRING), header_value : Seq(STRING),
              headers : {self'.headers}, body : Seq(STRING)]
        BY <2>1, <2>2 DEF SelfOK
      <3> QED
        BY <2>3, <3>1 DEF SelfOK
    <2> QED
      BY <1>0, <1>2, <2>3, <2>4 DEF Text, Left, Field
  <1>3. CASE self.header_building_state = 1
    <2>1. self' = [self EXCEPT !.header_value = t, !.header_building_state = 0]
      BY <1>1, <1>3 DEF on_header_value
    <2>2. self.header_value = <<>> /\ <<>> \o t = t
      BY <1>3 DEF SelfOK
    <2>3. /\ self'.raw_url = self.raw_url /\ self'.body = self.body
          /\ self'.header_building_state = 0
          /\ self'.header_field = self.header_field
          /\ self'.header_value = t
      BY <2>1 DEF SelfOK
    <2>4. SelfOK'
      <3>1. self' \in [raw_url : Seq(STRING), url : {self'.url},
              url_params : {self'.url_params}, header_building_state : {0, 1},
              header_field : Seq(STRING), header_value : Seq(STRING),
              headers : {self'.headers}, body : Seq(STRING)]
        BY <2>1 DEF SelfOK
      <3> QED
        BY <2>3, <3>1 DEF SelfOK
    <2> QED
      BY <1>0, <2>2, <2>3, <2>4 DEF Text, Left, Field
  <1> QED
    BY <1>2, <1>3 DEF SelfOK

\* on_headers_complete puts the last header with the others.
LEMMA CalledHeadersComplete ==
  ASSUME SelfOK, event'.on = "headers_complete", Callback(event')
  PROVE  SelfOK' /\ \A f \in Field : Left(f)
  <1>1. self' = on_headers_complete
    BY DEF Callback
  <1>2. CASE self.header_field = <<>>
    <2>1. self' = self
      BY <1>1, <1>2 DEF on_headers_complete
    <2> QED
      BY <2>1 DEF SelfOK, Left, Text
  <1>3. CASE self.header_field # <<>>
    <2>1. self' = Emplaced
      BY <1>1, <1>3 DEF on_headers_complete
    <2>2. SelfOK'
      <3>1. Emplaced.url = self.url /\ Emplaced.url_params = self.url_params
        BY EmplacedMeans
      <3> QED
        BY <2>1, <3>1, EmplacedMeans DEF SelfOK
    <2>3. /\ self'.raw_url = self.raw_url /\ self'.body = self.body
          /\ self'.header_field = <<>> /\ self'.header_value = <<>>
          /\ Put
      BY <2>1, EmplacedMeans DEF Put
    <2> QED
      BY <2>2, <2>3 DEF Left, Text, Field
  <1> QED
    BY <1>2, <1>3

\* on_message_complete cuts the url, and changes no field.
LEMMA CalledMessageComplete ==
  ASSUME SelfOK, event'.on = "message_complete", Callback(event')
  PROVE  SelfOK' /\ \A f \in Field : Text(f)' = Text(f)
  <1>1. self' = on_message_complete
    BY DEF Callback
  <1> DEFINE u == SubSeq(self.raw_url, 1, strcspn(self.raw_url, 1, {"?"}))
             q == query_string(self.raw_url)
  <1>2. self' = [self EXCEPT !.url = u, !.url_params = q]
    BY <1>1 DEF on_message_complete
  <1> HIDE DEF u, q
  <1>3. /\ self'.raw_url = self.raw_url /\ self'.body = self.body
        /\ self'.header_building_state = self.header_building_state
        /\ self'.header_field = self.header_field /\ self'.header_value = self.header_value
    BY <1>2 DEF SelfOK
  <1>4. SelfOK'
    BY <1>2 DEF SelfOK
  <1> QED
    BY <1>3, <1>4 DEF Text, Field

-----------------------------------------------------------------------------
(* Where the bytes are. *)

\* The call is somewhere in its piece, and so are the marks; between two
\* calls there is none.  In the states of a field, but for the body, its mark
\* is set.  Nothing is read after an error.
PlaceOK ==
  /\ stream \in Seq(STRING)
  /\ p <= Len(data) + 1
  /\ data = <<>> => \A f \in Field : mark[f] = 0
  /\ parser.state = "s_message_done" /\ parser.http_errno = "OK" => p <= Len(data)
  /\ \A f \in Field : mark[f] <= p
  /\ \A f \in Field \ {"body"} : data # <<>> /\ parser.state \in Reading[f] => mark[f] # 0
  /\ fed /\ ~over => parser.http_errno = "OK"

\* The inductive invariant of the request that is built.
RequestInv == Inv /\ SelfOK /\ PlaceOK

\* The states in which a field is read.
InField == UNION {Reading[f] : f \in Field}

\* A part of a piece is a sequence of bytes.
LEMMA Parts ==
  ASSUME NEW d \in Seq(STRING), NEW a \in Nat \ {0}, NEW b \in Nat, b <= Len(d)
  PROVE  SubSeq(d, a, b) \in Seq(STRING)
  <1>1. \A i \in a .. b : d[i] \in STRING
    <2>1. Len(d) \in Nat
      OBVIOUS
    <2>2. \A i \in a .. b : i \in 1 .. Len(d)
      BY <2>1
    <2> QED
      BY <2>2, ElementOfSeq
  <1> QED
    BY <1>1, SubSeqProperties

\* Putting sequences of bytes together is associative.
LEMMA Associative ==
  ASSUME NEW t \in Seq(STRING), NEW x \in Seq(STRING), NEW y \in Seq(STRING)
  PROVE  (t \o x) \o y = t \o (x \o y)
  BY ConcatAssociative

\* Four sequences, put together in either order.
Regroup(t, x, y, s) == (t \o x) \o (y \o s) = (t \o (x \o y)) \o s

\* For sequences of bytes it makes no difference.
LEMMA Regrouped ==
  ASSUME NEW t \in Seq(STRING), NEW x \in Seq(STRING), NEW y \in Seq(STRING),
         NEW s \in Seq(STRING)
  PROVE  Regroup(t, x, y, s)
  <1>1. PICK u \in Seq(STRING) : u = t \o x
    BY ConcatProperties
  <1>2. (u \o y) \o s = u \o (y \o s)
    BY Associative
  <1>3. (t \o x) \o y = t \o (x \o y)
    BY Associative
  <1> QED
    BY <1>1, <1>2, <1>3, Zenon DEF Regroup

\* Text, the bytes from m up to a, those from a on and what follows the piece.
Joined(t, d, m, a, s) == (t \o SubSeq(d, m, a - 1)) \o (SubSeq(d, a, Len(d)) \o s)

\* The same, not cut.
Uncut(t, d, m, s) == (t \o SubSeq(d, m, Len(d))) \o s

\* It makes no difference where a is.
LEMMA CutAnywhere ==
  ASSUME NEW t \in Seq(STRING), NEW d \in Seq(STRING), NEW s \in Seq(STRING),
         NEW m \in Nat \ {0}, NEW a \in Nat, m <= a, a <= Len(d) + 1
  PROVE  Joined(t, d, m, a, s) = Uncut(t, d, m, s)
  <1>1. Len(d) \in Nat
    OBVIOUS
  <1>2. /\ m \in 1 .. Len(d) + 1 /\ a - 1 \in m - 1 .. Len(d)
        /\ Len(d) \in a - 1 .. Len(d) /\ (a - 1) + 1 = a /\ a - 1 \in Nat
    BY <1>1
  <1>3. SubSeq(d, m, a - 1) \o SubSeq(d, a, Len(d)) = SubSeq(d, m, Len(d))
    <2>1. SubSeq(d, m, a - 1) \o SubSeq(d, (a - 1) + 1, Len(d)) = SubSeq(d, m, Len(d))
      BY <1>2, ConcatAdjacentSubSeq
    <2> QED
      BY <1>2, <2>1
  <1>4. a \in Nat \ {0} /\ a - 1 <= Len(d)
    BY <1>1
  <1>5. SubSeq(d, m, a - 1) \in Seq(STRING)
    BY <1>2, <1>4, Parts
  <1>6. SubSeq(d, a, Len(d)) \in Seq(STRING)
    <2>1. Len(d) <= Len(d)
      BY <1>1
    <2> QED
      BY <1>1, <1>4, <2>1, Parts
  <1>7. Regroup(t, SubSeq(d, m, a - 1), SubSeq(d, a, Len(d)), s)
    BY <1>5, <1>6, Regrouped, Zenon
  <1> QED
    BY <1>3, <1>7, Zenon DEF Regroup, Joined, Uncut

\* Cut at a or at b, the bytes are the same.
SameBytes(t, d, m, a, b, s) == Joined(t, d, m, a, s) = Joined(t, d, m, b, s)

\* So what is read of a field together with what is still to be read is the
\* same here and there in a piece.
LEMMA CutEither ==
  ASSUME NEW t \in Seq(STRING), NEW d \in Seq(STRING), NEW s \in Seq(STRING),
         NEW m \in Nat \ {0}, NEW a \in Nat, m <= a, a <= Len(d) + 1,
         NEW b \in Nat, m <= b, b <= Len(d) + 1
  PROVE  SameBytes(t, d, m, a, b, s)
  <1>1. Joined(t, d, m, a, s) = Uncut(t, d, m, s)
    BY CutAnywhere, Zenon
  <1>2. Joined(t, d, m, b, s) = Uncut(t, d, m, s)
    BY CutAnywhere, Zenon
  <1> QED
    BY <1>1, <1>2, Zenon DEF SameBytes

\* What the callbacks have put together is a sequence of bytes.
LEMMA TextType ==
  /\ SelfOK => \A f \in Field : Text(f) \in Seq(STRING)
  /\ SelfOK' => \A f \in Field : Text(f)' \in Seq(STRING)
  <1>1. <<>> \in Seq(STRING)
    OBVIOUS
  <1> QED
    BY <1>1 DEF SelfOK, Text, Field

\* A field as it was read: its text and the bytes since its mark, or none.
LEMMA WholeMarked ==
  ASSUME RequestInv, NEW f \in Field
  PROVE  /\ Marked(f) \in Nat \ {0} /\ Marked(f) <= p
         /\ Whole(f) = Text(f) \o SubSeq(data, Marked(f), p - 1)
         /\ mark[f] = 0 => Whole(f) = Text(f)
         /\ Whole(f) \in Seq(STRING)
  <1>1. /\ mark[f] \in Nat /\ p \in Nat \ {0} /\ mark[f] <= p /\ data \in Seq(STRING)
        /\ p - 1 \in Nat /\ p - 1 <= Len(data)
    BY DEF RequestInv, PlaceOK, Inv, CallOK
  <1>2. Text(f) \in Seq(STRING)
    BY TextType DEF RequestInv
  <1>3. Marked(f) \in Nat \ {0} /\ Marked(f) <= p
    BY <1>1 DEF Marked
  <1>4. CASE mark[f] = 0
    <2>1. SubSeq(data, p, p - 1) = <<>>
      BY <1>1, SubSeqEmpty
    <2>2. Whole(f) = Text(f) \o <<>> /\ Marked(f) = p
      BY <1>4 DEF Whole, Marked
    <2>3. Text(f) \o <<>> = Text(f)
      BY <1>2, ConcatEmptySeq
    <2> QED
      BY <1>2, <1>3, <2>1, <2>2, <2>3
  <1>5. CASE mark[f] # 0
    <2>1. Whole(f) = Text(f) \o SubSeq(data, mark[f], p - 1) /\ Marked(f) = mark[f]
      BY <1>5 DEF Whole, Marked
    <2>2. SubSeq(data, mark[f], p - 1) \in Seq(STRING)
      BY <1>1, <1>5, Parts
    <2> QED
      BY <1>2, <1>3, <1>5, <2>1, <2>2, ConcatProperties
  <1> QED
    BY <1>4, <1>5

\* Without a mark a field is its text.
LEMMA WholeUnmarked ==
  ASSUME NEW f \in Field
  PROVE  /\ SelfOK /\ mark[f] = 0 => Whole(f) = Text(f)
         /\ SelfOK' /\ mark'[f] = 0 => Whole(f)' = Text(f)'
  <1>1. \A t \in Seq(STRING) : t \o <<>> = t
    BY ConcatEmptySeq
  <1> QED
    BY <1>1, TextType DEF Whole

\* No state belongs to two fields.
LEMMA FieldsApart ==
  /\ \A f, g \in Field, s \in State : s \in Reading[f] /\ s \in Reading[g] => f = g
  /\ \A f \in Field : StatesOf[f] \subseteq Reading[f] /\ StatesOf[f] \subseteq State
  /\ \A f \in Field : Reading[f] \subseteq InField
  /\ InField = URL_States \cup {"s_header_field", "s_header_value", "s_body_identity",
                 "s_message_done", "s_chunk_data", "s_chunk_data_almost_done"}
  <1>1. \A f, g \in Field, s \in State : s \in Reading[f] /\ s \in Reading[g] => f = g
    BY DEF Field, Reading, URL_States, URL_Space, URL_NoSpace
  <1>2. \A f \in Field : StatesOf[f] \subseteq Reading[f] /\ StatesOf[f] \subseteq State
    BY DEF Field, Reading, StatesOf, State, HeaderStates, BodyStates
  <1>3. \A f \in Field : Reading[f] \subseteq InField
    BY DEF InField
  <1>4. InField = URL_States \cup {"s_header_field", "s_header_value", "s_body_identity",
                    "s_message_done", "s_chunk_data", "s_chunk_data_almost_done"}
    <2>1. InField = Reading["url"] \cup Reading["header_field"]
                      \cup Reading["header_value"] \cup Reading["body"]
      BY DEF InField, Field
    <2> QED
      BY <2>1 DEF Reading
  <1> QED
    BY <1>1, <1>2, <1>3, <1>4

\* In the states of a field no other one is marked, and between two none is.
LEMMA OneMark ==
  ASSUME NEW m, NEW s \in State, \A f \in Field : m[f] # 0 => s \in StatesOf[f]
  PROVE  /\ \A f, g \in Field : s \in Reading[f] /\ f # g => m[g] = 0
         /\ s \notin InField => \A f \in Field : m[f] = 0
         /\ s = "s_message_done" => \A f \in Field : m[f] = 0
  <1>1. \A f \in Field : "s_message_done" \notin StatesOf[f]
    BY DEF Field, StatesOf, URL_States, URL_Space, URL_NoSpace
  <1> QED
    BY <1>1, FieldsApart

\* The marks and states of a step, for OneMark.
LEMMA MarksOf ==
  /\ Inv => parser.state \in State /\ \A f \in Field : mark[f] # 0 => parser.state \in StatesOf[f]
  /\ Inv' => parser'.state \in State
             /\ \A f \in Field : mark'[f] # 0 => parser'.state \in StatesOf[f]
  BY DEF Inv, MarksFit, ParserOK, Parsers

\* What the step does to the bytes of the fields.
Conserved ==
  /\ \A f \in Field : FieldStep(f)
  /\ parser.state \in {"s_body_identity", "s_chunk_data"} =>
       parser'.content_length + Len(Whole("body")') =
         parser.content_length + Len(Whole("body"))

\* A field that is not read, and not begun, by the step.
LEMMA NotRead ==
  ASSUME SelfOK, SelfOK', NEW f \in Field, mark[f] = 0, mark'[f] = 0,
         parser.state \notin Reading[f],
         parser'.state \notin Reading[f] \/ f = "body",
         Left(f) \/ (event'.on = "message_begin" /\ self' = clear)
  PROVE  FieldStep(f)
  <1>1. Whole(f) = Text(f) /\ Whole(f)' = Text(f)'
    BY WholeUnmarked
  <1>2. /\ f = "header_field" => parser.state # "s_header_field"
        /\ f = "header_value" => parser.state # "s_header_value"
    BY DEF Reading
  <1> QED
    BY <1>1, <1>2 DEF FieldStep, Left, Put

\* Between the fields.
LEMMA BetweenStep ==
  ASSUME RequestInv, Inv', Callback(event'), stream' = stream, over' = over,
         parser.state \notin InField,
         parser'.state \notin InField \ {"s_body_identity", "s_chunk_data"},
         \/ event'.on \in {"nothing", "message_begin", "headers_complete", "message_complete"}
         \/ event'.on = "header_value" /\ event'.text = <<>>,
         p' <= Len(data') + 1, \A f \in Field : mark'[f] = 0,
         fed' => parser'.http_errno = "OK"
  PROVE  SelfOK' /\ PlaceOK' /\ Conserved
  <1>1. \A f \in Field : mark[f] = 0
    BY MarksOf, OneMark DEF RequestInv
  <1>2. SelfOK' /\ \A f \in Field : Left(f) \/ (event'.on = "message_begin" /\ self' = clear)
    <2>1. SelfOK
      BY DEF RequestInv
    <2>2. CASE event'.on = "nothing"
      BY <2>1, <2>2, CalledNothing DEF Left, Text
    <2>3. CASE event'.on = "message_begin"
      BY <2>1, <2>3, CalledBegin
    <2>4. CASE event'.on = "headers_complete"
      BY <2>1, <2>4, CalledHeadersComplete
    <2>5. CASE event'.on = "message_complete"
      BY <2>1, <2>5, CalledMessageComplete DEF Left
    <2>6. CASE event'.on = "header_value" /\ event'.text = <<>>
      <3>1. event'.text \in Seq(STRING) /\ "header_value" \in Field
        BY <2>6 DEF Field
      <3>2. /\ SelfOK' /\ Text("header_value")' = Text("header_value") \o event'.text
            /\ \A f \in Field \ {"header_value"} : Left(f)
        BY <2>1, <2>6, <3>1, CalledValue
      <3>3. Text("header_value") \in Seq(STRING)
        BY <2>1, <3>1, TextType
      <3>4. Text("header_value") \o <<>> = Text("header_value")
        BY <3>3, ConcatEmptySeq
      <3>5. Left("header_value")
        BY <2>6, <3>2, <3>4 DEF Left
      <3> QED
        BY <3>2, <3>5
    <2> QED
      BY <2>2, <2>3, <2>4, <2>5, <2>6
  <1>3. \A f \in Field : parser.state \notin Reading[f] /\ (parser'.state \notin Reading[f] \/ f = "body")
    <2>1. {"s_body_identity", "s_chunk_data"} \subseteq Reading["body"] /\ "body" \in Field
      BY DEF Reading, Field
    <2> QED
      BY <2>1, MarksOf, FieldsApart
  <1>4. Conserved
    <2>1. \A f \in Field : FieldStep(f)
      BY <1>1, <1>2, <1>3, NotRead DEF RequestInv
    <2>2. parser.state \notin {"s_body_identity", "s_chunk_data"}
      BY FieldsApart
    <2> QED
      BY <2>1, <2>2 DEF Conserved
  <1>5. PlaceOK'
    <2>1. stream' \in Seq(STRING) /\ parser'.state # "s_message_done"
      BY FieldsApart DEF RequestInv, PlaceOK
    <2>2. p' \in Nat
      BY DEF Inv, CallOK
    <2> QED
      BY <1>3, <2>1, <2>2 DEF PlaceOK
  <1> QED
    BY <1>2, <1>4, <1>5

\* One more byte of the url, of a name or of a value.
LEMMA ReadStep ==
  ASSUME RequestInv, Inv', Callback(event'), stream' = stream, over' = over,
         NEW f \in Field \ {"body"},
         parser.state \in Reading[f] \/ parser.state \notin InField,
         parser'.state \in Reading[f],
         event'.on = "nothing", data' = data, p' = p + 1, p <= Len(data),
         mark'[f] = Marked(f), fed' = fed, data # <<>>
  PROVE  SelfOK' /\ PlaceOK' /\ Conserved
  <1>0. /\ data \in Seq(STRING) /\ Len(data) \in Nat /\ stream \in Seq(STRING)
        /\ p \in Nat \ {0} /\ SelfOK
    BY DEF RequestInv, Inv, CallOK, PlaceOK
  <1>1. SelfOK' /\ self' = self
    BY <1>0, CalledNothing
  <1>2. \A g \in Field : g # f => mark[g] = 0 /\ mark'[g] = 0
    BY MarksOf, OneMark DEF RequestInv
  <1>3. /\ Marked(f) \in Nat \ {0} /\ Marked(f) <= p
        /\ Whole(f) = Text(f) \o SubSeq(data, Marked(f), p - 1)
    BY WholeMarked
  <1>4. Whole(f)' = Text(f) \o SubSeq(data, Marked(f), p)
    <2>1. Text(f)' = Text(f)
      BY <1>1 DEF Text
    <2>2. p' - 1 = p
      BY <1>0
    <2> QED
      BY <1>3, <2>1, <2>2 DEF Whole
  <1>5. parser.state # "s_message_done" /\ parser'.state # "s_message_done"
    <2>1. "s_message_done" \in Reading["body"] /\ "body" \in Field
      BY DEF Reading, Field
    <2> QED
      BY <2>1, MarksOf, FieldsApart DEF RequestInv
  <1>6. Unread = SubSeq(data, p, Len(data)) \o stream
    BY <1>5 DEF Unread
  <1>7. Unread' = SubSeq(data, p + 1, Len(data)) \o stream
    BY <1>5 DEF Unread
  <1>8. Whole(f)' \o Unread' = Whole(f) \o Unread
    <2>1. Text(f) \in Seq(STRING)
      BY <1>0, TextType
    <2>2. p + 1 \in Nat /\ p \in Nat /\ p <= Len(data) + 1 /\ p + 1 <= Len(data) + 1
          /\ Marked(f) <= p + 1 /\ (p + 1) - 1 = p
      BY <1>0, <1>3
    <2>3. SameBytes(Text(f), data, Marked(f), p, p + 1, stream)
      BY <1>0, <1>3, <2>1, <2>2, CutEither, Zenon
    <2>4. Whole(f) \o Unread = Joined(Text(f), data, Marked(f), p, stream)
      BY <1>3, <1>6, Zenon DEF Joined
    <2>5. Whole(f)' \o Unread' = Joined(Text(f), data, Marked(f), p + 1, stream)
      BY <1>4, <1>7, <2>2, Zenon DEF Joined
    <2> QED
      BY <2>3, <2>4, <2>5, Zenon DEF SameBytes
  <1>9. FieldStep(f)
    BY <1>8 DEF FieldStep
  <1>10. \A g \in Field \ {f} : FieldStep(g)
    <2>1. \A g \in Field \ {f} : parser.state \notin Reading[g] /\ parser'.state \notin Reading[g]
      BY MarksOf, FieldsApart DEF RequestInv
    <2>2. \A g \in Field : Left(g)
      BY <1>1 DEF Left, Text
    <2> QED
      BY <1>0, <1>1, <1>2, <2>1, <2>2, NotRead
  <1>11. Conserved
    <2>1. parser.state \notin {"s_body_identity", "s_chunk_data"}
      <3>1. {"s_body_identity", "s_chunk_data"} \subseteq Reading["body"] /\ "body" \in Field
        BY DEF Reading, Field
      <3> QED
        BY <3>1, MarksOf, FieldsApart DEF RequestInv
    <2> QED
      BY <1>9, <1>10, <2>1 DEF Conserved
  <1>12. PlaceOK'
    <2>1. \A g \in Field \ {"body"} : parser'.state \in Reading[g] => g = f
      BY MarksOf, FieldsApart
    <2>2. \A g \in Field : mark'[g] <= p'
      <3> TAKE g \in Field
      <3>1. CASE g = f
        BY <1>0, <1>3, <3>1
      <3>2. CASE g # f
        BY <1>0, <1>2, <3>2
      <3> QED
        BY <3>1, <3>2
    <2>3. fed' /\ ~over' => parser'.http_errno = "OK"
      BY DEF Inv, ErrorEnds
    <2> QED
      BY <1>0, <1>3, <1>5, <2>1, <2>2, <2>3 DEF PlaceOK
  <1> QED
    BY <1>1, <1>11, <1>12

\* The callback of a field appends to it and leaves the others alone.
LEMMA Delivered ==
  ASSUME SelfOK, NEW f \in Field, event'.on = f, event'.text \in Seq(STRING), Callback(event')
  PROVE  /\ SelfOK' /\ Text(f)' = Text(f) \o event'.text
         /\ \A g \in Field \ {f} : Left(g)
  <1>1. CASE f = "url"
    BY <1>1, CalledUrl
  <1>2. CASE f = "header_field"
    BY <1>2, CalledField
  <1>3. CASE f = "header_value"
    BY <1>3, CalledValue
  <1>4. CASE f = "body"
    BY <1>4, CalledBody
  <1> QED
    BY <1>1, <1>2, <1>3, <1>4 DEF Field

\* No callback, or the one of the field with the bytes from its mark up to n.
Delivers(f, n) ==
  \/ mark[f] = 0 /\ event'.on = "nothing"
  \/ mark[f] # 0 /\ event'.on = f /\ event'.text = SubSeq(data, mark[f], n)

\* Delivered up to the byte before the current one, a field is as it was.
LEMMA DeliversWhole ==
  ASSUME RequestInv, NEW f \in Field, Delivers(f, p - 1), Callback(event')
  PROVE  /\ SelfOK' /\ Text(f)' = Whole(f)
         /\ \A g \in Field \ {f} : Left(g)
  <1>1. CASE mark[f] = 0
    <2>1. SelfOK' /\ self' = self
      BY <1>1, CalledNothing DEF Delivers, RequestInv
    <2>2. Whole(f) = Text(f)
      BY <1>1, WholeUnmarked DEF RequestInv
    <2> QED
      BY <2>1, <2>2 DEF Left, Text
  <1>2. CASE mark[f] # 0
    <2>1. /\ mark[f] \in Nat \ {0} /\ p - 1 \in Nat /\ p - 1 <= Len(data)
          /\ data \in Seq(STRING)
      BY <1>2 DEF RequestInv, PlaceOK, Inv, CallOK
    <2>2. event'.on = f /\ event'.text = SubSeq(data, mark[f], p - 1)
      BY <1>2 DEF Delivers
    <2>3. event'.text \in Seq(STRING)
      BY <2>1, <2>2, Parts
    <2>4. Whole(f) = Text(f) \o event'.text
      BY <1>2, <2>2 DEF Whole
    <2> QED
      BY <2>2, <2>3, <2>4, Delivered DEF RequestInv
  <1> QED
    BY <1>1, <1>2

\* The end of a field: what is marked is delivered.
LEMMA EndStep ==
  ASSUME RequestInv, Inv', Callback(event'), stream' = stream, over' = over,
         NEW f \in Field, parser.state \in Reading[f], parser'.state \notin InField,
         parser.state \notin {"s_body_identity", "s_chunk_data"},
         Delivers(f, p - 1),
         data' = data, data # <<>>, p' <= Len(data) + 1, fed' = fed
  PROVE  SelfOK' /\ PlaceOK' /\ Conserved
  <1>1. SelfOK' /\ Text(f)' = Whole(f) /\ \A g \in Field \ {f} : Left(g)
    BY DeliversWhole
  <1>2. \A g \in Field : mark'[g] = 0 /\ (g # f => mark[g] = 0)
    BY MarksOf, OneMark DEF RequestInv
  <1>3. FieldStep(f)
    <2>1. Whole(f)' = Whole(f)
      BY <1>1, <1>2, WholeUnmarked
    <2>2. parser'.state \notin Reading[f]
      BY FieldsApart
    <2> QED
      BY <2>1, <2>2 DEF FieldStep
  <1>4. \A g \in Field \ {f} : FieldStep(g)
    <2>1. \A g \in Field \ {f} : parser.state \notin Reading[g] /\ parser'.state \notin Reading[g]
      BY MarksOf, FieldsApart DEF RequestInv
    <2> QED
      BY <1>1, <1>2, <2>1, NotRead DEF RequestInv
  <1>5. Conserved
    BY <1>3, <1>4 DEF Conserved
  <1>6. PlaceOK'
    <2>1. p' \in Nat /\ stream' \in Seq(STRING)
      BY DEF Inv, CallOK, RequestInv, PlaceOK
    <2>2. parser'.state # "s_message_done" /\ \A g \in Field : parser'.state \notin Reading[g]
      BY FieldsApart
    <2>3. fed' /\ ~over' => parser'.http_errno = "OK"
      BY DEF Inv, ErrorEnds
    <2> QED
      BY <1>2, <2>1, <2>2, <2>3 DEF PlaceOK
  <1> QED
    BY <1>1, <1>5, <1>6

\* The end of a body: on_message_complete.
LEMMA DoneStep ==
  ASSUME RequestInv, Inv', Callback(event'), stream' = stream, over' = over,
         parser.state = "s_message_done", parser'.state \notin InField,
         event'.on = "message_complete",
         data' = data, data # <<>>, p' <= Len(data) + 1, fed' = fed
  PROVE  SelfOK' /\ PlaceOK' /\ Conserved
  <1>1. SelfOK' /\ \A g \in Field : Text(g)' = Text(g)
    BY CalledMessageComplete DEF RequestInv
  <1>2. \A g \in Field : mark'[g] = 0 /\ mark[g] = 0
    BY MarksOf, OneMark DEF RequestInv
  <1>3. Conserved
    <2>1. \A g \in Field : Whole(g)' = Whole(g)
      BY <1>1, <1>2, WholeUnmarked DEF RequestInv
    <2>2. \A g \in Field : parser'.state \notin Reading[g]
      BY FieldsApart
    <2> QED
      BY <2>1, <2>2 DEF Conserved, FieldStep
  <1>4. PlaceOK'
    <2>1. p' \in Nat /\ stream' \in Seq(STRING)
      BY DEF Inv, CallOK, RequestInv, PlaceOK
    <2>2. parser'.state # "s_message_done" /\ \A g \in Field : parser'.state \notin Reading[g]
      BY FieldsApart
    <2>3. fed' /\ ~over' => parser'.http_errno = "OK"
      BY DEF Inv, ErrorEnds
    <2> QED
      BY <1>2, <2>1, <2>2, <2>3 DEF PlaceOK
  <1> QED
    BY <1>1, <1>3, <1>4

\* An error: nothing is delivered any more.
LEMMA FailStep ==
  ASSUME RequestInv, Inv', Callback(event'), stream' = stream,
         event'.on = "nothing", parser'.http_errno # "OK",
         data' = <<>>, p' = 1, \A f \in Field : mark'[f] = 0, fed' = FALSE
  PROVE  SelfOK' /\ PlaceOK'
  <1>1. SelfOK'
    BY CalledNothing DEF RequestInv
  <1>2. stream' \in Seq(STRING)
    BY DEF RequestInv, PlaceOK
  <1>3. Len(data') = 0
    OBVIOUS
  <1> QED
    BY <1>1, <1>2, <1>3 DEF PlaceOK

\* n more bytes of the body: they are put behind those that were read, and
\* content_length goes down by as much.
LEMMA BodyBytes ==
  ASSUME RequestInv, stream' = stream, NEW n \in Nat \ {0}, p + n <= Len(data) + 1,
         parser.state \in {"s_body_identity", "s_chunk_data"},
         parser'.state \in Reading["body"],
         parser.content_length \in Nat, parser'.content_length = parser.content_length - n,
         Whole("body")' = Text("body") \o SubSeq(data, Marked("body"), p + n - 1),
         Unread' = SubSeq(data, p + n, Len(data)) \o stream
  PROVE  /\ FieldStep("body")
         /\ parser'.content_length + Len(Whole("body")') =
              parser.content_length + Len(Whole("body"))
  <1>0. /\ data \in Seq(STRING) /\ Len(data) \in Nat /\ stream \in Seq(STRING)
        /\ p \in Nat \ {0} /\ Text("body") \in Seq(STRING) /\ "body" \in Field
    BY TextType DEF RequestInv, Inv, CallOK, PlaceOK, Field
  <1>1. PICK m \in Nat \ {0} : m = Marked("body") /\ m <= p
                               /\ Whole("body") = Text("body") \o SubSeq(data, m, p - 1)
    BY <1>0, WholeMarked
  <1>2. PICK t \in Seq(STRING) : t = Text("body")
    BY <1>0
  <1>3. p + n \in Nat /\ p \in Nat /\ p <= Len(data) + 1 /\ m <= p + n
    <2>1. \A j, k, l \in Nat, h \in Nat \ {0} :
            j + h <= l + 1 /\ k <= j => j + h \in Nat /\ j <= l + 1 /\ k <= j + h
      OBVIOUS
    <2>2. p \in Nat /\ m \in Nat
      BY <1>0, <1>1
    <2> QED
      BY <1>0, <1>1, <2>1, <2>2, Zenon
  <1>4. Whole("body")' \o Unread' = Whole("body") \o Unread
    <2>1. SameBytes(t, data, m, p, p + n, stream)
      BY <1>0, <1>1, <1>3, CutEither, Zenon
    <2>2. Unread = SubSeq(data, p, Len(data)) \o stream
      BY DEF Unread
    <2>3. Whole("body") \o Unread = Joined(t, data, m, p, stream)
      BY <1>1, <1>2, <2>2, Zenon DEF Joined
    <2>4. Whole("body")' = t \o SubSeq(data, m, (p + n) - 1)
      <3>1. \A j, k \in Nat : j + k - 1 = (j + k) - 1
        OBVIOUS
      <3>2. p + n - 1 = (p + n) - 1
        BY <1>3, <3>1
      <3> QED
        BY <1>1, <1>2, <3>2, Zenon
    <2>5. Joined(t, data, m, p + n, stream) =
            (t \o SubSeq(data, m, (p + n) - 1)) \o (SubSeq(data, p + n, Len(data)) \o stream)
      BY Zenon DEF Joined
    <2>6. Whole("body")' \o Unread' = Joined(t, data, m, p + n, stream)
      BY <2>4, <2>5, Zenon
    <2> QED
      BY <2>1, <2>3, <2>6, Zenon DEF SameBytes
  <1>5. parser.state \in Reading["body"]
    BY DEF Reading
  <1>6. FieldStep("body")
    BY <1>4, <1>5 DEF FieldStep
  <1>7. \A b \in Nat : m <= b + 1 /\ b <= Len(data) =>
          Len(t \o SubSeq(data, m, b)) = Len(t) + (b + 1 - m)
    <2> SUFFICES ASSUME NEW b \in Nat, m <= b + 1, b <= Len(data)
                 PROVE  Len(t \o SubSeq(data, m, b)) = Len(t) + (b + 1 - m)
      OBVIOUS
    <2>1. PICK u \in Seq(STRING) : u = SubSeq(data, m, b)
      BY <1>0, Parts
    <2>2. Len(SubSeq(data, m, b)) = b + 1 - m
      <3>1. CASE m <= b
        <4>1. \A i \in m .. b : i \in 1 .. Len(data)
          BY <1>0
        <4>2. \A i \in m .. b : data[i] \in STRING
          BY <1>0, <4>1, ElementOfSeq
        <4> QED
          BY <3>1, <4>2, SubSeqProperties
      <3>2. CASE m = b + 1
        BY <1>0, <3>2, SubSeqEmpty
      <3> QED
        BY <3>1, <3>2
    <2>3. Len(t \o u) = Len(t) + Len(u)
      BY <1>2, <2>1, ConcatProperties
    <2> QED
      BY <2>1, <2>2, <2>3
  <1>8. /\ Len(Whole("body")) = Len(t) + (p - m)
        /\ Len(Whole("body")') = Len(t) + (p + n - m)
    <2>1. p - 1 \in Nat /\ m <= (p - 1) + 1 /\ p - 1 <= Len(data) /\ (p - 1) + 1 - m = p - m
      BY <1>0, <1>1, <1>3
    <2>2. p + n - 1 \in Nat /\ m <= (p + n - 1) + 1 /\ p + n - 1 <= Len(data)
          /\ (p + n - 1) + 1 - m = p + n - m
      BY <1>0, <1>1, <1>3
    <2>3. Len(t \o SubSeq(data, m, p - 1)) = Len(t) + (p - m)
      BY <1>7, <2>1
    <2>4. Len(t \o SubSeq(data, m, p + n - 1)) = Len(t) + (p + n - m)
      BY <1>7, <2>2
    <2> QED
      BY <1>1, <1>2, <2>3, <2>4, Zenon
  <1>9. parser'.content_length + Len(Whole("body")') =
          parser.content_length + Len(Whole("body"))
    <2>1. Len(t) \in Nat
      BY <1>2
    <2>2. \A c, k, q \in Nat : (c - n) + (k + (q + n - m)) = c + (k + (q - m))
      OBVIOUS
    <2>3. (parser.content_length - n) + (Len(t) + (p + n - m)) =
            parser.content_length + (Len(t) + (p - m))
      BY <1>3, <2>1, <2>2, Zenon
    <2> QED
      BY <1>8, <2>3, Zenon
  <1> QED
    BY <1>6, <1>9

\* The other fields while the body is read.
LEMMA OthersStay ==
  ASSUME RequestInv, Inv', SelfOK', parser.state \in Reading["body"],
         parser'.state \in Reading["body"], \A g \in Field \ {"body"} : Left(g)
  PROVE  \A g \in Field \ {"body"} : FieldStep(g) /\ mark[g] = 0 /\ mark'[g] = 0
                                     /\ parser'.state \notin Reading[g]
  <1>1. "body" \in Field
    BY DEF Field
  <1>2. \A g \in Field \ {"body"} : parser.state \notin Reading[g] /\ parser'.state \notin Reading[g]
    BY <1>1, MarksOf, FieldsApart DEF RequestInv
  <1>3. \A g \in Field \ {"body"} : mark[g] = 0 /\ mark'[g] = 0
    BY <1>1, MarksOf, OneMark DEF RequestInv
  <1> QED
    BY <1>2, <1>3, NotRead DEF RequestInv

\* Part of a body, or of a chunk, or the whole of a chunk.
LEMMA BodyStep ==
  ASSUME RequestInv, Inv', Callback(event'), stream' = stream, over' = over,
         NEW n \in Nat \ {0}, p + n <= Len(data) + 1,
         parser.state \in {"s_body_identity", "s_chunk_data"},
         parser'.state \in {"s_body_identity", "s_chunk_data", "s_chunk_data_almost_done"},
         parser.content_length \in Nat, parser'.content_length = parser.content_length - n,
         event'.on = "nothing", data' = data, p' = p + n, mark'["body"] = Marked("body"),
         fed' = fed, data # <<>>
  PROVE  SelfOK' /\ PlaceOK' /\ Conserved
  <1>0. /\ data \in Seq(STRING) /\ Len(data) \in Nat /\ stream \in Seq(STRING)
        /\ p \in Nat \ {0} /\ SelfOK /\ "body" \in Field
    BY DEF RequestInv, Inv, CallOK, PlaceOK, Field
  <1>1. SelfOK' /\ self' = self
    BY <1>0, CalledNothing
  <1>2. parser.state \in Reading["body"] /\ parser'.state \in Reading["body"]
        /\ parser'.state # "s_message_done"
    BY DEF Reading
  <1>3. \A g \in Field : Left(g)
    BY <1>1 DEF Left, Text
  <1>4. \A g \in Field \ {"body"} : FieldStep(g) /\ mark[g] = 0 /\ mark'[g] = 0
                                    /\ parser'.state \notin Reading[g]
    BY <1>1, <1>2, <1>3, OthersStay
  <1>5. Marked("body") \in Nat \ {0} /\ Marked("body") <= p
    BY <1>0, WholeMarked
  <1>6. Whole("body")' = Text("body") \o SubSeq(data, Marked("body"), p + n - 1)
    <2>1. Text("body")' = Text("body")
      BY <1>1 DEF Text
    <2>2. mark'["body"] # 0 /\ p' - 1 = p + n - 1
      BY <1>0, <1>5
    <2> QED
      BY <2>1, <2>2, Zenon DEF Whole
  <1>7. Unread' = SubSeq(data, p + n, Len(data)) \o stream
    BY <1>2 DEF Unread
  <1>8. Conserved
    <2>1. /\ FieldStep("body")
          /\ parser'.content_length + Len(Whole("body")') =
               parser.content_length + Len(Whole("body"))
      BY <1>2, <1>6, <1>7, BodyBytes
    <2> QED
      BY <1>4, <2>1 DEF Conserved
  <1>9. PlaceOK'
    <2>1. \A g \in Field : mark'[g] <= p'
      <3> TAKE g \in Field
      <3>1. CASE g = "body"
        BY <1>0, <1>5, <3>1
      <3>2. CASE g # "body"
        BY <1>0, <1>4, <3>2
      <3> QED
        BY <3>1, <3>2
    <2>2. fed' /\ ~over' => parser'.http_errno = "OK"
      BY DEF Inv, ErrorEnds
    <2> QED
      BY <1>0, <1>2, <1>4, <2>1, <2>2 DEF PlaceOK
  <1> QED
    BY <1>1, <1>8, <1>9

\* The last bytes of a body: they are delivered, and the byte is seen again.
LEMMA LastStep ==
  ASSUME RequestInv, Inv', Callback(event'), stream' = stream, over' = over,
         NEW n \in Nat \ {0}, p + n <= Len(data) + 1,
         parser.state = "s_body_identity", parser'.state = "s_message_done",
         parser.content_length \in Nat, parser'.content_length = parser.content_length - n,
         event'.on = "body", event'.text = SubSeq(data, Marked("body"), p + n - 1),
         data' = data, p' = p + n - 1, fed' = fed, data # <<>>
  PROVE  SelfOK' /\ PlaceOK' /\ Conserved
  <1>0. /\ data \in Seq(STRING) /\ Len(data) \in Nat /\ stream \in Seq(STRING)
        /\ p \in Nat \ {0} /\ SelfOK /\ "body" \in Field
    BY DEF RequestInv, Inv, CallOK, PlaceOK, Field
  <1>1. Marked("body") \in Nat \ {0}
    BY <1>0, WholeMarked
  <1>2. event'.text \in Seq(STRING)
    <2>1. p + n - 1 \in Nat /\ p + n - 1 <= Len(data)
      BY <1>0
    <2> QED
      BY <1>0, <1>1, <2>1, Parts
  <1>3. SelfOK' /\ Text("body")' = Text("body") \o event'.text
        /\ \A g \in Field \ {"body"} : Left(g)
    BY <1>0, <1>2, Delivered
  <1>4. parser.state \in Reading["body"] /\ parser'.state \in Reading["body"]
    BY DEF Reading
  <1>5. \A g \in Field \ {"body"} : FieldStep(g) /\ parser'.state \notin Reading[g]
    BY <1>3, <1>4, OthersStay
  <1>6. \A g \in Field : mark'[g] = 0
    BY MarksOf, OneMark
  <1>7. Whole("body")' = Text("body") \o SubSeq(data, Marked("body"), p + n - 1)
    BY <1>0, <1>3, <1>6, WholeUnmarked
  <1>8. Unread' = SubSeq(data, p + n, Len(data)) \o stream
    <2>1. p' + 1 = p + n
      BY <1>0
    <2> QED
      BY <2>1 DEF Unread
  <1>9. Conserved
    <2>1. /\ FieldStep("body")
          /\ parser'.content_length + Len(Whole("body")') =
               parser.content_length + Len(Whole("body"))
      BY <1>4, <1>7, <1>8, BodyBytes
    <2> QED
      BY <1>5, <2>1 DEF Conserved
  <1>10. PlaceOK'
    <2>1. fed' /\ ~over' => parser'.http_errno = "OK"
      BY DEF Inv, ErrorEnds
    <2>2. p' <= Len(data') /\ p' \in Nat
      BY <1>0
    <2> QED
      BY <1>0, <1>5, <1>6, <2>1, <2>2 DEF PlaceOK
  <1> QED
    BY <1>3, <1>9, <1>10

\* A step that reads no byte and delivers what is marked moves no byte.
LEMMA SameStep ==
  ASSUME parser' = parser, \A f \in Field : Whole(f)' = Whole(f), Unread' = Unread
  PROVE  Conserved
  <1>1. "body" \in Field
    BY DEF Field
  <1> QED
    BY <1>1, Zenon DEF Conserved, FieldStep

\* Behind the last byte of a piece nothing is left of it.
LEMMA NoneLeft ==
  ASSUME NEW d \in Seq(STRING), NEW s \in Seq(STRING), NEW a \in Nat, a > Len(d)
  PROVE  SubSeq(d, a, Len(d)) \o s = s
  <1>1. SubSeq(d, a, Len(d)) = <<>>
    <2>1. Len(d) \in Int /\ a \in Int /\ Len(d) < a
      OBVIOUS
    <2> QED
      BY <2>1, SubSeqEmpty
  <1>2. <<>> \o s = s
    BY ConcatEmptySeq
  <1> QED
    BY <1>1, <1>2

\* The end of a piece: what is marked is delivered, the field goes on.
LEMMA LeftStep ==
  ASSUME RequestInv, Inv', Callback(event'), stream' = stream, over' = over, leftover
  PROVE  SelfOK' /\ PlaceOK' /\ Conserved
  <1>0. /\ data \in Seq(STRING) /\ Len(data) \in Nat /\ stream \in Seq(STRING)
        /\ p \in Nat \ {0} /\ SelfOK /\ p = Len(data) + 1 /\ p - 1 = Len(data)
        /\ parser.http_errno = "OK" /\ parser.state # "s_message_done"
    BY DEF RequestInv, Inv, CallOK, ErrorEnds, PlaceOK, leftover
  <1>1. /\ parser' = parser /\ data' = <<>> /\ p' = 1 /\ fed' = TRUE
        /\ \A f \in Field : mark'[f] = 0
    BY DEF leftover, Return, Unmarked
  <1>2. Len(data') = 0 /\ data' \in Seq(STRING)
    BY <1>1
  <1>3. \/ event'.on = "nothing" /\ \A f \in Field : mark[f] = 0
        \/ \E f \in Field : mark[f] # 0 /\ event'.on = f
                            /\ event'.text = SubSeq(data, mark[f], Len(data))
    BY DEF leftover, None
  <1>4. CASE parser.state \notin InField
    <2>1. \A f \in Field : mark[f] = 0
      BY <1>4, MarksOf, OneMark DEF RequestInv
    <2>2. event'.on = "nothing"
      BY <1>3, <2>1
    <2> QED
      BY <1>0, <1>1, <1>2, <1>4, <2>2, BetweenStep
  <1>5. ASSUME NEW f \in Field, parser.state \in Reading[f]
        PROVE  SelfOK' /\ PlaceOK' /\ Conserved
    <2>1. \A g \in Field : g # f => mark[g] = 0
      BY <1>5, MarksOf, OneMark DEF RequestInv
    <2>2. Delivers(f, p - 1)
      BY <1>0, <1>3, <2>1 DEF Delivers
    <2>3. SelfOK' /\ Text(f)' = Whole(f) /\ \A g \in Field \ {f} : Left(g)
      BY <2>2, DeliversWhole
    <2>4. \A g \in Field \ {f} : parser.state \notin Reading[g]
      BY <1>5, MarksOf, FieldsApart DEF RequestInv
    <2>5. \A g \in Field \ {f} : FieldStep(g)
      BY <1>0, <1>1, <2>1, <2>3, <2>4, NotRead
    <2>6. Whole(f)' = Whole(f)
      BY <1>1, <2>3, WholeUnmarked
    <2>7. Unread = stream /\ Unread' = stream
      <3>1. SubSeq(data, p, Len(data)) \o stream = stream
        BY <1>0, NoneLeft
      <3>2. SubSeq(data', 1, Len(data')) \o stream = stream
        BY <1>0, <1>2, NoneLeft
      <3> QED
        BY <1>0, <1>1, <3>1, <3>2 DEF Unread
    <2>8. FieldStep(f)
      BY <1>1, <1>5, <2>6, <2>7, Zenon DEF FieldStep
    <2>9. Conserved
      <3>1. parser.state \in {"s_body_identity", "s_chunk_data"} => f = "body"
        <4>1. {"s_body_identity", "s_chunk_data"} \subseteq Reading["body"] /\ "body" \in Field
          BY DEF Reading, Field
        <4> QED
          BY <1>5, <4>1, MarksOf, FieldsApart DEF RequestInv
      <3>2. \A g \in Field : FieldStep(g)
        BY <2>5, <2>8
      <3> QED
        BY <1>1, <2>6, <3>1, <3>2, Zenon DEF Conserved
    <2>10. PlaceOK'
      BY <1>0, <1>1, <1>2 DEF PlaceOK
    <2> QED
      BY <2>3, <2>9, <2>10
  <1> QED
    BY <1>4, <1>5 DEF InField

\* Between two calls no field is marked and nothing is left of a piece.
LEMMA BetweenCalls ==
  ASSUME RequestInv, data = <<>>
  PROVE  /\ \A f \in Field : mark[f] = 0 /\ Whole(f) = Text(f)
         /\ Unread = stream
  <1>1. \A f \in Field : mark[f] = 0 /\ Whole(f) = Text(f)
    BY WholeUnmarked DEF RequestInv, PlaceOK
  <1>2. p \in Nat \ {0} /\ stream \in Seq(STRING) /\ data \in Seq(STRING) /\ Len(data) = 0
    BY DEF RequestInv, Inv, CallOK, PlaceOK
  <1>3. SubSeq(data, p, Len(data)) \o stream = stream
        /\ SubSeq(data, p + 1, Len(data)) \o stream = stream
    BY <1>2, NoneLeft
  <1> QED
    BY <1>1, <1>3 DEF Unread

\* feed(): the piece is taken from the stream, and the field goes on.
LEMMA FeedStep ==
  ASSUME RequestInv, NEW n \in PieceLengths, feed(n)
  PROVE  RequestInv' /\ Conserved
  <1>0. /\ fed /\ ~over /\ stream \in Seq(STRING) /\ stream # <<>> /\ data = <<>>
        /\ parser.http_errno = "OK" /\ Len(stream) \in Nat \ {0}
    BY DEF feed, http_parser_execute, RequestInv, PlaceOK
  <1>1. PICK k \in 1 .. Len(stream) : http_parser_execute(SubSeq(stream, 1, k))
                                      /\ stream' = SubSeq(stream, k + 1, Len(stream))
    <2>1. n \in Nat \ {0}
      BY BytesAssumption
    <2>2. Min({n, Len(stream)}) \in 1 .. Len(stream)
      <3>1. \E k \in {n, Len(stream)} : \A y \in {n, Len(stream)} : k <= y
        BY <1>0, <2>1
      <3>2. /\ Min({n, Len(stream)}) \in {n, Len(stream)}
            /\ \A y \in {n, Len(stream)} : Min({n, Len(stream)}) <= y
        BY <3>1, Zenon DEF Min
      <3> QED
        BY <1>0, <2>1, <3>2
    <2> QED
      BY <2>2, Zenon DEF feed
  <1>2. PICK piece \in Seq(STRING) : piece = SubSeq(stream, 1, k)
    <2>1. 1 \in Nat \ {0} /\ k \in Nat /\ k <= Len(stream)
      BY <1>0
    <2> QED
      BY <1>0, <2>1, Parts, Zenon
  <1>3. /\ parser' = parser /\ data' = piece /\ mark' = Continued /\ p' = 1
        /\ self' = self /\ over' = over /\ fed' = FALSE /\ data' # <<>>
    BY <1>0, <1>1, <1>2 DEF feed, http_parser_execute
  <1>4. Inv'
    BY <1>1, <1>2, http_parser_executeKeeps DEF RequestInv
  <1>5. stream' \in Seq(STRING) /\ piece \o stream' = stream
    <2>1. k + 1 \in Nat \ {0} /\ Len(stream) \in Nat /\ Len(stream) <= Len(stream)
          /\ 1 \in 1 .. Len(stream) + 1 /\ k \in 1 - 1 .. Len(stream)
          /\ Len(stream) \in k .. Len(stream)
      BY <1>0
    <2>2. stream' \in Seq(STRING)
      BY <1>0, <1>1, <2>1, Parts
    <2>3. SubSeq(stream, 1, k) \o SubSeq(stream, k + 1, Len(stream)) =
            SubSeq(stream, 1, Len(stream))
      BY <1>0, <2>1, ConcatAdjacentSubSeq
    <2>4. SubSeq(stream, 1, Len(stream)) = stream
      BY <1>0, SubSeqFull
    <2> QED
      BY <1>1, <1>2, <2>2, <2>3, <2>4, Zenon
  <1>6. SelfOK' /\ \A f \in Field : Text(f)' = Text(f)
    BY <1>3 DEF RequestInv, SelfOK, Text
  <1>7. parser.state # "s_message_done" /\ Len(data) = 0 /\ Len(data') \in Nat \ {0}
    BY <1>0, <1>2, <1>3 DEF RequestInv, Inv, CallOK, PlaceOK
  <1>8. PlaceOK'
    <2>1. \A f \in Field \ {"body"} : parser'.state \in Reading[f] => mark'[f] # 0
      BY <1>3 DEF Continued, Reading, Field
    <2>2. \A f \in Field : mark'[f] <= 1
      BY <1>3 DEF Continued
    <2> QED
      BY <1>3, <1>5, <1>7, <2>1, <2>2 DEF PlaceOK
  <1>9. \A f \in Field : Whole(f)' = Text(f)
    <2> TAKE f \in Field
    <2>1. mark'[f] \in {0, 1}
      BY <1>3 DEF Continued
    <2>2. CASE mark'[f] = 0
      BY <1>6, <2>2, WholeUnmarked
    <2>3. CASE mark'[f] = 1
      <3>1. SubSeq(data', 1, 0) = <<>>
        BY SubSeqEmpty
      <3>2. Whole(f)' = Text(f) \o SubSeq(data', 1, 0)
        BY <1>3, <1>6, <2>3 DEF Whole
      <3>3. Text(f) \in Seq(STRING)
        BY TextType DEF RequestInv
      <3> QED
        BY <3>1, <3>2, <3>3, ConcatEmptySeq
    <2> QED
      BY <2>1, <2>2, <2>3
  <1>10. Unread' = stream
    <2>1. Unread' = SubSeq(piece, 1, Len(piece)) \o stream'
      BY <1>3, <1>7 DEF Unread
    <2>2. SubSeq(piece, 1, Len(piece)) = piece
      BY SubSeqFull
    <2> QED
      BY <1>5, <2>1, <2>2, Zenon
  <1>11. Conserved
    <2>1. \A f \in Field : Whole(f)' = Whole(f)
      BY <1>0, <1>9, BetweenCalls
    <2>2. Unread' = Unread
      BY <1>0, <1>10, BetweenCalls
    <2> QED
      BY <1>3, <2>1, <2>2, SameStep
  <1> QED
    BY <1>4, <1>6, <1>8, <1>11 DEF RequestInv

\* A step that leaves the call, the request and the stream alone.
LEMMA IdleStep ==
  ASSUME RequestInv, parser' = parser,
         UNCHANGED <<data, p, again, mark, self, stream>>,
         (fed' /\ ~over') => (fed /\ ~over)
  PROVE  RequestInv' /\ Conserved
  <1>1. Inv'
    BY DEF RequestInv, Inv, ParserOK, CallOK, ErrorEnds, ChunkFlag, SizeCounts, Lengths,
       HeaderStatesFit, MarksFit
  <1>2. SelfOK' /\ PlaceOK'
    BY DEF RequestInv, SelfOK, PlaceOK
  <1>3. (\A f \in Field : Whole(f)' = Whole(f)) /\ Unread' = Unread
    BY DEF Whole, Text, Unread
  <1> QED
    BY <1>1, <1>2, <1>3, SameStep DEF RequestInv

\* done(): only an error may be new.
LEMMA FinishStep ==
  ASSUME RequestInv, finish
  PROVE  RequestInv' /\ (parser'.http_errno = "OK" => Conserved)
  <1>1. /\ over' = TRUE /\ data = <<>> /\ done
        /\ UNCHANGED <<data, p, again, mark, self, stream>>
    BY DEF finish, done
  <1>2. CASE parser' = parser
    BY <1>1, <1>2, IdleStep
  <1>3. CASE parser' # parser
    <2>1. parser' = [parser EXCEPT !.http_errno = "INVALID_EOF_STATE"]
      BY <1>1, <1>3 DEF done
    <2>2. parser'.http_errno # "OK" /\ parser'.state = parser.state
      BY <2>1 DEF RequestInv, Inv, ParserOK, Parsers
    <2>3. Inv'
      BY <1>1, doneKeeps DEF RequestInv
    <2>4. SelfOK' /\ PlaceOK'
      BY <1>1, <2>2 DEF RequestInv, SelfOK, PlaceOK
    <2> QED
      BY <2>2, <2>3, <2>4 DEF RequestInv
  <1> QED
    BY <1>2, <1>3

\* A byte that the peer gets wrong is one of the stream.
LEMMA MistakeStep ==
  ASSUME RequestInv, NEW b \in WrongBytes, mistake(b)
  PROVE  RequestInv' /\ wrong' # wrong
  <1>1. wrong' # wrong /\ UNCHANGED <<vars, self, over>>
    BY DEF mistake
  <1>2. Inv'
    BY <1>1, NextKeeps DEF RequestInv
  <1>3. stream' \in Seq(STRING)
    <2>1. b \in STRING /\ stream \in Seq(STRING) /\ stream # <<>>
          /\ stream' = [stream EXCEPT ![1] = b]
      BY BytesAssumption DEF mistake, RequestInv, PlaceOK
    <2>2. 1 \in 1 .. Len(stream)
      BY <2>1
    <2> QED
      BY <2>1, <2>2, ExceptSeq
  <1>4. SelfOK' /\ PlaceOK'
    BY <1>1, <1>3 DEF RequestInv, SelfOK, PlaceOK, vars
  <1> QED
    BY <1>1, <1>2, <1>4 DEF RequestInv

\* A step of the switch and the callback it makes.
Parsing == RequestInv /\ Inv' /\ Callback(event') /\ stream' = stream /\ over' = over

\* What such a step comes to.
Parsed == SelfOK' /\ PlaceOK' /\ (parser'.http_errno = "OK" => Conserved)

\* The states outside the fields, and the first ones of a body.
Outside == State \ (InField \ {"s_body_identity", "s_chunk_data"})

\* What a case of the switch may rely on.
LEMMA ParsingIn ==
  ASSUME Parsing, NEW S, In(S)
  PROVE  /\ RequestInv /\ Inv /\ Inv' /\ parser \in Parsers /\ parser.state \in S
         /\ data \in Seq(STRING) /\ data # <<>> /\ Len(data) \in Nat
         /\ p \in Nat \ {0} /\ p <= Len(data) /\ p <= Len(data) + 1 /\ p + 1 <= Len(data) + 1
  <1>1. RequestInv /\ Inv /\ Inv'
    BY DEF Parsing, RequestInv
  <1>2. parser \in Parsers /\ parser.state \in S /\ data \in Seq(STRING) /\ p \in 1 .. Len(data)
    BY <1>1, InMeans
  <1>3. Len(data) \in Nat
    BY <1>2
  <1>4. data # <<>>
    BY <1>2
  <1> QED
    BY <1>1, <1>2, <1>3, <1>4

\* CROW_SET_ERRNO and the return.
LEMMA ErrorParsed ==
  ASSUME Parsing, NEW e \in Errno \ {"OK"}, Error(e)
  PROVE  Parsed
  <1>1. Counted \in Parsers
    BY CountedType DEF Parsing, RequestInv, Inv
  <1>2. parser'.http_errno # "OK"
    BY <1>1 DEF Error, Return, Parsers
  <1>3. /\ data' = <<>> /\ p' = 1 /\ (\A f \in Field : mark'[f] = 0) /\ fed' = FALSE
        /\ event'.on = "nothing"
    BY DEF Error, Return, Unmarked, None
  <1> QED
    BY <1>2, <1>3, FailStep DEF Parsing, Parsed

\* A byte between the fields.
LEMMA QuietParsed ==
  ASSUME Parsing, NEW S \in SUBSET (State \ InField), In(S), NEW q,
         Break(q) \/ Again(q), q.state \in Outside, UNCHANGED mark,
         event'.on \in {"nothing", "message_begin", "headers_complete", "message_complete"}
  PROVE  Parsed
  <1>1. /\ RequestInv /\ Inv' /\ parser.state \notin InField /\ data # <<>>
        /\ p <= Len(data) + 1 /\ p + 1 <= Len(data) + 1
    BY ParsingIn
  <1>2. parser' = q /\ data' = data /\ p' <= Len(data') + 1 /\ fed' = fed
    BY <1>1 DEF Break, Again
  <1>3. \A f \in Field : mark'[f] = 0
    BY <1>1, MarksOf, OneMark DEF RequestInv
  <1>4. fed' => parser'.http_errno = "OK"
    BY <1>1, <1>2 DEF Inv, ErrorEnds
  <1>5. parser'.state \notin InField \ {"s_body_identity", "s_chunk_data"}
    BY <1>2 DEF Outside
  <1> QED
    BY <1>1, <1>2, <1>3, <1>4, <1>5, BetweenStep DEF Parsing, Parsed

\* A byte of the url, of a name or of a value.
LEMMA ReadParsed ==
  ASSUME Parsing, NEW f \in Field \ {"body"}, NEW S \in SUBSET State, In(S),
         S \subseteq Reading[f] \/ S \subseteq State \ InField,
         NEW q, Break(q), q.state \in Reading[f],
         Mark(f) \/ (Quiet /\ S \subseteq Reading[f])
  PROVE  Parsed
  <1>1. /\ RequestInv /\ Inv' /\ parser.state \in S /\ data # <<>> /\ p <= Len(data)
    BY ParsingIn
  <1>2. parser' = q /\ data' = data /\ p' = p + 1 /\ fed' = fed
    BY DEF Break
  <1>3. event'.on = "nothing"
    BY DEF Mark, Quiet, None
  <1>4. mark'[f] = Marked(f)
    <2>1. CASE Mark(f)
      BY <2>1 DEF Mark, Parsing, RequestInv, Inv, CallOK
    <2>2. CASE Quiet /\ S \subseteq Reading[f]
      <3>1. mark[f] # 0 /\ mark' = mark
        BY <1>1, <2>2 DEF Quiet, RequestInv, PlaceOK
      <3> QED
        BY <3>1 DEF Marked
    <2> QED
      BY <2>1, <2>2
  <1>5. parser.state \in Reading[f] \/ parser.state \notin InField
    BY <1>1
  <1> QED
    BY <1>1, <1>2, <1>3, <1>4, <1>5, ReadStep DEF Parsing, Parsed

\* The byte that ends a field.
LEMMA EndParsed ==
  ASSUME Parsing, NEW f \in Field, NEW S \in SUBSET Reading[f], In(S),
         "s_body_identity" \notin S, "s_chunk_data" \notin S,
         NEW q, Break(q) \/ Again(q), q.state \in State \ InField,
         Deliver(f, mark[f], p)
  PROVE  Parsed
  <1>1. /\ RequestInv /\ Inv' /\ parser.state \in S /\ data # <<>>
        /\ p <= Len(data) + 1 /\ p + 1 <= Len(data) + 1
    BY ParsingIn
  <1>2. parser' = q /\ data' = data /\ p' <= Len(data) + 1 /\ fed' = fed
    BY <1>1 DEF Break, Again
  <1>3. Delivers(f, p - 1)
    BY DEF Deliver, Delivers, None
  <1> QED
    BY <1>1, <1>2, <1>3, EndStep DEF Parsing, Parsed

\* The states between the fields.
LEMMA OutsideStates ==
  /\ Plain \ {"s_message_done"} \subseteq State \ InField
  /\ {"s_chunk_size_start", "s_chunk_size", "s_chunk_parameters",
      "s_chunk_size_almost_done", "s_chunk_data_done"} \subseteq State \ InField
  /\ State \ InField \subseteq Outside
  /\ {"s_body_identity", "s_chunk_data"} \subseteq Outside
  /\ Outside \subseteq State
  <1>1. Plain \ {"s_message_done"} \subseteq State \ InField
    BY FieldsApart DEF Plain, Marking, ChunkStates
  <1>2. {"s_chunk_size_start", "s_chunk_size", "s_chunk_parameters",
         "s_chunk_size_almost_done", "s_chunk_data_done"} \subseteq State \ InField
    BY FieldsApart, BodyStatesIn DEF ChunkStates, URL_States, URL_Space, URL_NoSpace
  <1>3. {"s_body_identity", "s_chunk_data"} \subseteq State
    BY BodyStatesIn DEF ChunkStates
  <1> QED
    BY <1>1, <1>2, <1>3 DEF Outside

\* A byte between the fields that leads to a state.
LEMMA ToParsed ==
  ASSUME Parsing, NEW S \in SUBSET (State \ InField), In(S), NEW s \in Outside,
         Break(To(s)) \/ Again(To(s)), UNCHANGED mark,
         event'.on \in {"nothing", "message_begin", "headers_complete", "message_complete"}
  PROVE  Parsed
  <1>1. To(s).state = s
    BY ParsingIn, ToIn, OutsideStates
  <1> QED
    BY <1>1, QuietParsed

\* One that is skipped.
LEMMA StayParsed ==
  ASSUME Parsing, NEW S \in SUBSET (State \ InField), In(S), Break(Counted), Quiet
  PROVE  Parsed
  <1>1. Counted.state \in Outside
    BY ParsingIn, CountedType, OutsideStates DEF ParserOK
  <1>2. UNCHANGED mark /\ event'.on = "nothing"
    BY DEF Quiet, None
  <1> QED
    BY <1>1, <1>2, QuietParsed

\* CROW_STRICT_CHECK in front of a byte that leads to a state.
LEMMA StrictParsed ==
  ASSUME Parsing, NEW c, NEW S \in SUBSET (State \ InField), In(S), NEW s \in Outside,
         Strict(c, s)
  PROVE  Parsed
  BY ToParsed, ErrorParsed DEF Strict, Quiet, None, Errno

\* s_dead, s_req_http_start and the states that expect one given byte.
LEMMA ConstantsParsed ==
  ASSUME Parsing,
         \/ s_dead \/ s_req_http_start \/ s_req_http_H \/ s_req_http_HT \/ s_req_http_HTT
         \/ s_req_http_HTTP \/ s_req_line_almost_done \/ s_header_almost_done
         \/ s_header_value_discard_ws_almost_done
  PROVE  Parsed
  <1>0. /\ {"s_dead", "s_req_http_start", "s_req_http_H", "s_req_http_HT", "s_req_http_HTT",
            "s_req_http_HTTP", "s_req_line_almost_done", "s_header_almost_done",
            "s_header_value_discard_ws_almost_done", "s_req_first_http_major",
            "s_header_field_start", "s_header_value_lws",
            "s_header_value_discard_lws"} \subseteq State \ InField
        /\ State \ InField \subseteq Outside
    BY PlainStates, OutsideStates
  <1>1. CASE s_dead
    <2>1. In({"s_dead"}) /\ {"s_dead"} \in SUBSET (State \ InField)
          /\ ((Break(Counted) /\ Quiet) \/ Error("CLOSED_CONNECTION"))
      BY <1>0, <1>1 DEF s_dead
    <2> QED
      BY <2>1, StayParsed, ErrorParsed DEF Errno
  <1>2. CASE s_req_http_start
    <2>1. In({"s_req_http_start"}) /\ {"s_req_http_start"} \in SUBSET (State \ InField)
          /\ "s_req_http_H" \in Outside
      BY <1>0, <1>2 DEF s_req_http_start
    <2>2. CASE Break(Counted) /\ Quiet
      BY <2>1, <2>2, StayParsed
    <2>3. CASE Break(To("s_req_http_H")) /\ Quiet
      BY <2>1, <2>3, ToParsed DEF Quiet, None
    <2>4. CASE Error("INVALID_CONSTANT")
      BY <2>4, ErrorParsed DEF Errno
    <2> QED
      BY <1>2, <2>2, <2>3, <2>4, Zenon DEF s_req_http_start
  <1>3. CASE s_req_http_H \/ s_req_http_HT \/ s_req_http_HTT
    BY <1>0, <1>3, StrictParsed DEF s_req_http_H, s_req_http_HT, s_req_http_HTT
  <1>4. CASE s_req_http_HTTP \/ s_header_almost_done
    BY <1>0, <1>4, StrictParsed DEF s_req_http_HTTP, s_header_almost_done
  <1>5. CASE s_header_value_discard_ws_almost_done
    BY <1>0, <1>5, StrictParsed DEF s_header_value_discard_ws_almost_done
  <1>6. CASE s_req_line_almost_done
    BY <1>0, <1>6, ToParsed, ErrorParsed DEF s_req_line_almost_done, Quiet, None, Errno
  <1> QED
    BY <1>1, <1>2, <1>3, <1>4, <1>5, <1>6

\* s_start_req: a message begins.
LEMMA s_start_reqParsed == ASSUME Parsing, s_start_req PROVE Parsed
  <1>0. In({"s_start_req"}) /\ {"s_start_req"} \in SUBSET (State \ InField)
        /\ "s_req_method" \in Outside /\ "s_req_method" \in State
    BY PlainStates, OutsideStates DEF s_start_req
  <1>1. \/ Break(Counted) /\ Quiet
        \/ \E q, x, y, z, w :
             /\ q = [To("s_req_method") EXCEPT !.flags = x, !.content_length = y, !.index = z,
                       !.method = w]
             /\ Break(q) /\ Notify("message_begin")
        \/ Error("INVALID_METHOD")
    BY Zenon DEF s_start_req
  <1>2. CASE Break(Counted) /\ Quiet
    BY <1>0, <1>2, StayParsed
  <1>3. ASSUME NEW q, NEW x, NEW y, NEW z, NEW w, Break(q), Notify("message_begin"),
               q = [To("s_req_method") EXCEPT !.flags = x, !.content_length = y, !.index = z,
                      !.method = w]
        PROVE  Parsed
    <2>1. To("s_req_method") \in Parsers /\ To("s_req_method").state = "s_req_method"
      BY <1>0, ParsingIn, ToIn
    <2>2. q.state \in Outside
      BY <1>0, <1>3, <2>1 DEF Parsers
    <2>3. UNCHANGED mark /\ event'.on = "message_begin"
      BY <1>3 DEF Notify
    <2> QED
      BY <1>0, <1>3, <2>2, <2>3, QuietParsed
  <1> QED
    BY <1>1, <1>2, <1>3, ErrorParsed DEF Errno

\* s_req_method: one more letter of the method.
LEMMA s_req_methodParsed == ASSUME Parsing, s_req_method PROVE Parsed
  <1>0. In({"s_req_method"}) /\ {"s_req_method"} \in SUBSET (State \ InField)
        /\ {"s_req_method", "s_req_spaces_before_url"} \subseteq Outside
    BY PlainStates, OutsideStates DEF s_req_method
  <1>1. \/ \E s \in {"s_req_spaces_before_url", "s_req_method"} : \E q, x, y :
             q = [To(s) EXCEPT !.method = x, !.index = y] /\ Break(q) /\ Quiet
        \/ Error("INVALID_METHOD")
    BY Zenon DEF s_req_method
  <1>2. ASSUME NEW s \in {"s_req_spaces_before_url", "s_req_method"}, NEW q, NEW x, NEW y,
               q = [To(s) EXCEPT !.method = x, !.index = y], Break(q), Quiet
        PROVE  Parsed
    <2>1. To(s) \in Parsers /\ To(s).state = s /\ s \in Outside
      BY <1>0, ParsingIn, ToIn, OutsideStates
    <2>2. q.state \in Outside
      BY <1>2, <2>1 DEF Parsers
    <2>3. UNCHANGED mark /\ event'.on = "nothing"
      BY <1>2 DEF Quiet, None
    <2> QED
      BY <1>0, <1>2, <2>2, <2>3, QuietParsed
  <1> QED
    BY <1>1, <1>2, ErrorParsed DEF Errno

\* A byte of the URL.
LEMMA UrlParsed ==
  ASSUME Parsing, NEW S, In(S), S \subseteq URL_States \/ S = {"s_req_spaces_before_url"},
         NEW s \in URL_States \cup {"s_req_spaces_before_url"}, Url(s)
  PROVE  Parsed
  <1> DEFINE t == parse_url_char(s, ch)
  <1>1. CASE t = "s_dead"
    BY <1>1, ErrorParsed DEF Url, Errno
  <1>2. CASE t # "s_dead"
    <2>1. t \in URL_States /\ URL_States \subseteq State /\ URL_States = Reading["url"]
          /\ "url" \in Field \ {"body"} /\ {"s_req_spaces_before_url"} \subseteq State \ InField
      BY <1>2, UrlStates, PlainStates, OutsideStates
         DEF State, HeaderStates, Reading, Field
    <2>2. Break(To(t)) /\ Mark("url")
      BY <1>2 DEF Url
    <2> HIDE DEF t
    <2>3. To(t).state = t
      BY <2>1, ParsingIn, ToIn
    <2>4. S \in SUBSET State /\ (S \subseteq Reading["url"] \/ S \subseteq State \ InField)
      BY <2>1
    <2> QED
      BY <2>1, <2>2, <2>3, <2>4, ReadParsed
  <1> QED
    BY <1>1, <1>2

\* The states in front of and in the URL.
LEMMA UrlsParsed ==
  ASSUME Parsing, s_req_spaces_before_url \/ s_req_schema \/ s_req_server
  PROVE  Parsed
  <1>0. /\ URL_Space \subseteq URL_States /\ URL_NoSpace \subseteq URL_States
        /\ URL_States \in SUBSET Reading["url"] /\ "url" \in Field
        /\ "s_body_identity" \notin URL_States /\ "s_chunk_data" \notin URL_States
        /\ {"s_req_http_start", "s_req_line_almost_done", "s_header_field_start",
            "s_req_spaces_before_url"} \subseteq State \ InField
    BY PlainStates, OutsideStates DEF URL_States, URL_Space, URL_NoSpace, Reading, Field
  <1>1. CASE s_req_spaces_before_url
    <2>1. CASE ch = " "
      BY <1>0, <1>1, <2>1, StayParsed DEF s_req_spaces_before_url
    <2>2. CASE ch # " "
      <3>1. In({"s_req_spaces_before_url"})
            /\ \E s \in URL_States \cup {"s_req_spaces_before_url"} : Url(s)
        BY <1>1, <2>2, ParsingIn DEF s_req_spaces_before_url, URL_States, URL_NoSpace
      <3> QED
        BY <3>1, UrlParsed
    <2> QED
      BY <2>1, <2>2
  <1>2. CASE s_req_schema
    BY <1>0, <1>2, UrlParsed, ParsingIn DEF s_req_schema
  <1>3. CASE s_req_server /\ ch \notin {" ", CR, LF}
    BY <1>0, <1>3, UrlParsed, ParsingIn DEF s_req_server
  <1>4. CASE s_req_server /\ ch \in {" ", CR, LF}
    <2>1. PICK s \in {"s_req_http_start", "s_req_line_almost_done", "s_header_field_start"} : \E q, x, y :
            /\ q = To(s) \/ q = [To(s) EXCEPT !.http_major = x, !.http_minor = y]
            /\ Break(q) /\ Deliver("url", mark["url"], p)
      <3>1. CASE ch = " "
        BY <1>4, <3>1, Zenon DEF s_req_server
      <3>2. CASE ch # " " /\ ch \in {CR, LF}
        BY <1>4, <3>2, Zenon DEF s_req_server
      <3> QED
        BY <1>4, <3>1, <3>2, Zenon
    <2>2. In(URL_Space)
      BY <1>4 DEF s_req_server
    <2>3. To(s) \in Parsers /\ To(s).state = s /\ s \in State \ InField
      BY <1>0, <2>1, <2>2, ParsingIn, ToIn
    <2>4. PICK q : /\ Break(q) /\ Deliver("url", mark["url"], p)
                   /\ q.state \in State \ InField
      <3>1. PICK q, x, y : /\ q = To(s) \/ q = [To(s) EXCEPT !.http_major = x, !.http_minor = y]
                           /\ Break(q) /\ Deliver("url", mark["url"], p)
        BY <2>1, Zenon
      <3>2. q.state \in State \ InField
        BY <2>3, <3>1 DEF Parsers
      <3> QED
        BY <3>1, <3>2, Zenon
    <2>5. URL_Space \in SUBSET Reading["url"] /\ "s_body_identity" \notin URL_Space
          /\ "s_chunk_data" \notin URL_Space
      BY <1>0
    <2> QED
      BY <1>0, <2>2, <2>4, <2>5, EndParsed
  <1> QED
    BY <1>1, <1>2, <1>3, <1>4

\* The four states of the version.
LEMMA VersionParsed ==
  ASSUME Parsing, s_req_first_http_major \/ s_req_http_major \/ s_req_first_http_minor
         \/ s_req_http_minor
  PROVE  Parsed
  <1> DEFINE S == {"s_req_first_http_major", "s_req_http_major",
                   "s_req_first_http_minor", "s_req_http_minor"}
             T == S \cup {"s_req_line_almost_done", "s_header_field_start"}
  <1>0. S \in SUBSET (State \ InField) /\ T \in SUBSET Outside
    BY PlainStates, OutsideStates
  <1>1. In(S)
    BY DEF s_req_first_http_major, s_req_http_major, s_req_first_http_minor,
       s_req_http_minor, In
  <1>2. Counted \in Parsers /\ Counted.state \in T
    BY <1>1, ParsingIn, CountedType DEF ParserOK
  <1>3. ASSUME NEW s \in T PROVE To(s) \in Parsers /\ To(s).state \in T
    BY <1>0, <1>1, ParsingIn, ToIn, OutsideStates
  <1> HIDE DEF S, T
  <1>4. \/ \E r, q, x :
             /\ r = Counted \/ \E s \in T : r = To(s)
             /\ q = r \/ q = [r EXCEPT !.http_major = x] \/ q = [r EXCEPT !.http_minor = x]
             /\ Break(q) /\ Quiet
        \/ Error("INVALID_VERSION")
    <2>0. "s_req_http_major" \in T /\ "s_req_first_http_minor" \in T /\ "s_req_http_minor" \in T
          /\ "s_req_line_almost_done" \in T /\ "s_header_field_start" \in T
      BY DEF S, T
    <2>1. CASE s_req_first_http_major
      BY <2>0, <2>1, Zenon DEF s_req_first_http_major
    <2>2. CASE s_req_http_major
      BY <2>0, <2>2, Zenon DEF s_req_http_major
    <2>3. CASE s_req_first_http_minor
      BY <2>0, <2>3, Zenon DEF s_req_first_http_minor
    <2>4. CASE s_req_http_minor
      BY <2>0, <2>4, Zenon DEF s_req_http_minor
    <2> QED
      BY <2>1, <2>2, <2>3, <2>4, Zenon
  <1>5. ASSUME NEW r, NEW q, NEW x, r = Counted \/ \E s \in T : r = To(s),
               q = r \/ q = [r EXCEPT !.http_major = x] \/ q = [r EXCEPT !.http_minor = x],
               Break(q), Quiet
        PROVE  Parsed
    <2>1. r \in Parsers /\ r.state \in T
      BY <1>2, <1>3, <1>5
    <2>2. q.state \in Outside
      BY <1>0, <1>5, <2>1 DEF Parsers
    <2>3. UNCHANGED mark /\ event'.on = "nothing"
      BY <1>5 DEF Quiet, None
    <2> QED
      BY <1>0, <1>1, <1>5, <2>2, <2>3, QuietParsed
  <1> QED
    BY <1>4, <1>5, ErrorParsed DEF Errno

\* The request line.
LEMMA RequestLineParsed == ASSUME Parsing, request_line PROVE Parsed
  BY ConstantsParsed, s_start_reqParsed, s_req_methodParsed, UrlsParsed, VersionParsed
     DEF request_line

\* The states of the header lines that are between the fields.
LEMMA HeaderOutside ==
  /\ {"s_header_field_start", "s_header_value_discard_ws",
      "s_header_value_discard_ws_almost_done", "s_header_value_discard_lws",
      "s_header_value_start", "s_header_value_lws", "s_header_almost_done",
      "s_headers_almost_done", "s_headers_done", "s_start_req", "s_dead"}
       \subseteq (State \ InField) \cap Outside
  /\ Reading["header_field"] = {"s_header_field"}
  /\ Reading["header_value"] = {"s_header_value"}
  /\ {"header_field", "header_value"} \subseteq Field \ {"body"}
  BY PlainStates, OutsideStates DEF Reading, Field

\* s_header_field_start: the first byte of a name, or the end of the headers.
LEMMA s_header_field_startParsed == ASSUME Parsing, s_header_field_start PROVE Parsed
  <1>0. In({"s_header_field_start"})
        /\ {"s_header_field_start"} \in SUBSET (State \ InField)
        /\ "s_headers_almost_done" \in Outside
    BY HeaderOutside DEF s_header_field_start
  <1>1. \/ (Break(To("s_headers_almost_done")) \/ Again(To("s_headers_almost_done"))) /\ Quiet
        \/ Error("INVALID_HEADER_TOKEN")
        \/ \E q, x, y : q = [To("s_header_field") EXCEPT !.index = x, !.header_state = y]
                        /\ Break(q) /\ Mark("header_field")
    BY Zenon DEF s_header_field_start
  <1>2. CASE (Break(To("s_headers_almost_done")) \/ Again(To("s_headers_almost_done"))) /\ Quiet
    BY <1>0, <1>2, ToParsed DEF Quiet, None
  <1>3. ASSUME NEW q, NEW x, NEW y, Break(q), Mark("header_field"),
               q = [To("s_header_field") EXCEPT !.index = x, !.header_state = y]
        PROVE  Parsed
    <2>1. To("s_header_field") \in Parsers /\ To("s_header_field").state = "s_header_field"
      BY <1>0, ParsingIn, ToIn, FieldStates
    <2>2. q.state \in Reading["header_field"]
      BY <1>3, <2>1, HeaderOutside DEF Parsers
    <2> QED
      BY <1>0, <1>3, <2>2, ReadParsed, HeaderOutside
  <1> QED
    BY <1>1, <1>2, <1>3, ErrorParsed DEF Errno

\* s_header_field: a letter of the name, or its end.
LEMMA s_header_fieldParsed == ASSUME Parsing, s_header_field PROVE Parsed
  <1>0. In({"s_header_field"}) /\ {"s_header_field"} \in SUBSET State
        /\ {"s_header_field"} \in SUBSET Reading["header_field"]
    BY HeaderOutside, FieldStates DEF s_header_field
  <1>1. parser.state = "s_header_field" /\ Inv
        /\ parser.header_state \notin ValueMatching \cup ValueMatched
    BY <1>0, ParsingIn DEF Inv, HeaderStatesFit
  <1>2. \/ \E q : q = FieldLetter(Counted, LOWER(ch)) /\ Break(q) /\ Quiet
        \/ \E s \in {"s_header_value_discard_ws", "s_header_almost_done",
                     "s_header_field_start"} :
             Break(To(s)) /\ Deliver("header_field", mark["header_field"], p)
        \/ Error("INVALID_HEADER_TOKEN")
    BY DEF s_header_field
  <1>3. ASSUME NEW q, q = FieldLetter(Counted, LOWER(ch)), Break(q), Quiet
        PROVE  Parsed
    <2>1. Counted \in Parsers /\ Counted.state = "s_header_field"
          /\ Counted.http_errno = "OK"
          /\ Counted.header_state \notin ValueMatching \cup ValueMatched
      BY <1>0, <1>1, ToIn, FieldStates DEF Same
    <2>2. q.state = "s_header_field"
      BY <1>3, <2>1, FieldLetterKeeps
    <2> QED
      BY <1>0, <1>3, <2>2, ReadParsed, HeaderOutside
  <1>4. ASSUME NEW s \in {"s_header_value_discard_ws", "s_header_almost_done",
                          "s_header_field_start"},
               Break(To(s)), Deliver("header_field", mark["header_field"], p)
        PROVE  Parsed
    <2>1. To(s).state \in State \ InField
      BY <1>0, <1>1, ToIn, HeaderOutside
    <2> QED
      BY <1>0, <1>4, <2>1, EndParsed, HeaderOutside
  <1> QED
    BY <1>2, <1>3, <1>4, ErrorParsed DEF Errno

\* The first byte of a value.
LEMMA FirstOfValueParsed ==
  ASSUME Parsing, NEW S \in SUBSET (State \ InField), In(S), FirstOfValue
  PROVE  Parsed
  <1>1. PICK r, i : r = [To("s_header_value") EXCEPT !.index = i] /\ i = 0
    OBVIOUS
  <1>2. r \in Parsers /\ r.state = "s_header_value"
    <2>1. To("s_header_value") \in Parsers /\ To("s_header_value").state = "s_header_value"
      BY ParsingIn, ToIn, FieldStates
    <2> QED
      BY <1>1, <2>1 DEF Parsers
  <1>3. \/ \E q, x, y : /\ \/ q = [r EXCEPT !.flags = x, !.header_state = y]
                           \/ q = [r EXCEPT !.content_length = x]
                           \/ q = [r EXCEPT !.header_state = x]
                        /\ Break(q) /\ Mark("header_value")
        \/ Error("INVALID_CONTENT_LENGTH")
    BY <1>1, Zenon DEF FirstOfValue
  <1>4. ASSUME NEW q, NEW x, NEW y, Break(q), Mark("header_value"),
               \/ q = [r EXCEPT !.flags = x, !.header_state = y]
               \/ q = [r EXCEPT !.content_length = x]
               \/ q = [r EXCEPT !.header_state = x]
        PROVE  Parsed
    <2>1. q.state \in Reading["header_value"]
      BY <1>2, <1>4, HeaderOutside DEF Parsers
    <2> QED
      BY <1>4, <2>1, ReadParsed, HeaderOutside
  <1> QED
    BY <1>3, <1>4, ErrorParsed DEF Errno

\* s_header_value: a byte of the value, or its end.
LEMMA s_header_valueParsed == ASSUME Parsing, s_header_value PROVE Parsed
  <1>0. In({"s_header_value"}) /\ {"s_header_value"} \in SUBSET State
        /\ {"s_header_value"} \in SUBSET Reading["header_value"]
        /\ {"s_header_value"} \subseteq Reading["header_value"]
        /\ "s_header_almost_done" \in State \ InField
    BY HeaderOutside, FieldStates DEF s_header_value
  <1>1. parser.state = "s_header_value" /\ Inv
    BY <1>0, ParsingIn
  <1>2. Counted \in Parsers /\ Counted.state = "s_header_value"
        /\ Counted.header_state = parser.header_state /\ Counted.http_errno = "OK"
    BY <1>0, <1>1, ToIn, FieldStates DEF Same
  <1>3. \/ (Break(To("s_header_almost_done")) \/ Again(To("s_header_almost_done")))
             /\ Deliver("header_value", mark["header_value"], p)
        \/ \E q, x : /\ \/ q = Counted
                        \/ q = [Counted EXCEPT !.content_length = x]
                        \/ q = Matched(Counted, LOWER(ch)) /\ parser.header_state \in ValueMatching
                        \/ q = [Counted EXCEPT !.header_state = x]
                     /\ Break(q) /\ Quiet
        \/ Error("INVALID_CONTENT_LENGTH")
    BY Zenon DEF s_header_value
  <1>4. CASE (Break(To("s_header_almost_done")) \/ Again(To("s_header_almost_done")))
               /\ Deliver("header_value", mark["header_value"], p)
    <2>1. To("s_header_almost_done").state \in State \ InField
      BY <1>0, <1>1, ToIn
    <2> QED
      BY <1>0, <1>4, <2>1, EndParsed, HeaderOutside
  <1>5. ASSUME NEW q, NEW x, Break(q), Quiet,
               \/ q = Counted
               \/ q = [Counted EXCEPT !.content_length = x]
               \/ q = Matched(Counted, LOWER(ch)) /\ parser.header_state \in ValueMatching
               \/ q = [Counted EXCEPT !.header_state = x]
        PROVE  Parsed
    <2>1. q.state = "s_header_value"
      <3>1. CASE q = Matched(Counted, LOWER(ch)) /\ parser.header_state \in ValueMatching
        BY <1>2, <3>1, MatchedKeeps
      <3> QED
        BY <1>2, <1>5, <3>1 DEF Parsers
    <2> QED
      BY <1>0, <1>5, <2>1, ReadParsed, HeaderOutside
  <1> QED
    BY <1>3, <1>4, <1>5, ErrorParsed DEF Errno

\* The lines around a value.
LEMMA AroundValueParsed ==
  ASSUME Parsing, s_header_value_discard_ws \/ s_header_value_start \/ s_header_value_lws
  PROVE  Parsed
  <1>1. CASE s_header_value_discard_ws
    <2>0. In({"s_header_value_discard_ws"})
          /\ {"s_header_value_discard_ws"} \in SUBSET (State \ InField)
          /\ "s_header_value_discard_ws_almost_done" \in Outside
          /\ "s_header_value_discard_lws" \in Outside
      BY <1>1, HeaderOutside DEF s_header_value_discard_ws
    <2>1. CASE Break(Counted) /\ Quiet
      BY <2>0, <2>1, StayParsed
    <2>2. CASE Break(To("s_header_value_discard_ws_almost_done")) /\ Quiet
      BY <2>0, <2>2, ToParsed DEF Quiet, None
    <2>3. CASE Break(To("s_header_value_discard_lws")) /\ Quiet
      BY <2>0, <2>3, ToParsed DEF Quiet, None
    <2>4. CASE FirstOfValue
      BY <2>0, <2>4, FirstOfValueParsed
    <2> QED
      BY <1>1, <2>1, <2>2, <2>3, <2>4, Zenon DEF s_header_value_discard_ws
  <1>2. CASE s_header_value_start
    BY <1>2, FirstOfValueParsed, HeaderOutside DEF s_header_value_start
  <1>3. CASE s_header_value_lws
    <2>0. In({"s_header_value_lws"}) /\ {"s_header_value_lws"} \in SUBSET (State \ InField)
          /\ "s_header_value_start" \in Outside /\ "s_header_field_start" \in Outside
          /\ "s_header_field_start" \in State
      BY <1>3, HeaderOutside DEF s_header_value_lws
    <2>1. \/ Again(To("s_header_value_start")) /\ Quiet
          \/ \E q, x : q = [To("s_header_field_start") EXCEPT !.flags = x] /\ Again(q) /\ Quiet
      BY <1>3, Zenon DEF s_header_value_lws
    <2>2. CASE Again(To("s_header_value_start")) /\ Quiet
      BY <2>0, <2>2, ToParsed DEF Quiet, None
    <2>3. ASSUME NEW q, NEW x, q = [To("s_header_field_start") EXCEPT !.flags = x],
                 Again(q), Quiet
          PROVE  Parsed
      <3>1. To("s_header_field_start") \in Parsers
            /\ To("s_header_field_start").state = "s_header_field_start"
        BY <2>0, ParsingIn, ToIn
      <3>2. q.state \in Outside
        BY <2>0, <2>3, <3>1 DEF Parsers
      <3>3. UNCHANGED mark /\ event'.on = "nothing"
        BY <2>3 DEF Quiet, None
      <3> QED
        BY <2>0, <2>3, <3>2, <3>3, QuietParsed
    <2> QED
      BY <2>1, <2>2, <2>3
  <1> QED
    BY <1>1, <1>2, <1>3

\* s_header_value_discard_lws: a header without a value gets an empty one.
LEMMA s_header_value_discard_lwsParsed ==
  ASSUME Parsing, s_header_value_discard_lws PROVE Parsed
  <1>0. In({"s_header_value_discard_lws"})
        /\ {"s_header_value_discard_lws"} \in SUBSET (State \ InField)
        /\ "s_header_value_discard_ws" \in Outside /\ "s_header_field_start" \in State \ InField
    BY HeaderOutside DEF s_header_value_discard_lws
  <1>1. CASE Break(To("s_header_value_discard_ws")) /\ Quiet
    BY <1>0, <1>1, ToParsed DEF Quiet, None
  <1>2. CASE Again(To("s_header_field_start")) /\ Deliver("header_value", p, p)
    <2>1. /\ RequestInv /\ Inv /\ Inv' /\ parser.state \notin InField /\ p \in Nat \ {0}
          /\ p <= Len(data) + 1 /\ data # <<>>
      BY <1>0, ParsingIn
    <2>2. parser' = To("s_header_field_start") /\ data' = data /\ p' = p /\ fed' = fed
      BY <1>2 DEF Again
    <2>3. parser'.state = "s_header_field_start"
      BY <1>0, <2>1, <2>2, ToIn
    <2>4. SubSeq(data, p, p - 1) = <<>>
      BY <2>1, SubSeqEmpty
    <2>5. event'.on = "header_value" /\ event'.text = <<>>
      BY <1>2, <2>1, <2>4 DEF Deliver
    <2>6. \A f \in Field : mark'[f] = 0
      BY <1>0, <2>1, <2>3, MarksOf, OneMark
    <2>7. fed' => parser'.http_errno = "OK"
      BY <2>1, <2>2 DEF Inv, ErrorEnds
    <2> QED
      BY <1>0, <2>1, <2>2, <2>3, <2>5, <2>6, <2>7, BetweenStep DEF Parsing, Parsed
  <1> QED
    BY <1>1, <1>2 DEF s_header_value_discard_lws

\* s_headers_almost_done: the end of the trailer, or of the headers.
LEMMA s_headers_almost_doneParsed == ASSUME Parsing, s_headers_almost_done PROVE Parsed
  <1>0. In({"s_headers_almost_done"}) /\ {"s_headers_almost_done"} \in SUBSET (State \ InField)
        /\ NEW_MESSAGE(parser) \in Outside /\ "s_headers_done" \in Outside
        /\ "s_headers_done" \in State
    BY HeaderOutside, NewMessage DEF s_headers_almost_done
  <1>1. \/ Error("STRICT")
        \/ Break(To(NEW_MESSAGE(parser))) /\ Notify("message_complete")
        \/ \E q, x : q = [To("s_headers_done") EXCEPT !.upgrade = x] /\ Again(q)
                     /\ Notify("headers_complete")
    BY Zenon DEF s_headers_almost_done
  <1>2. CASE Break(To(NEW_MESSAGE(parser))) /\ Notify("message_complete")
    BY <1>0, <1>2, ToParsed DEF Notify
  <1>3. ASSUME NEW q, NEW x, q = [To("s_headers_done") EXCEPT !.upgrade = x], Again(q),
               Notify("headers_complete")
        PROVE  Parsed
    <2>1. To("s_headers_done") \in Parsers /\ To("s_headers_done").state = "s_headers_done"
      BY <1>0, ParsingIn, ToIn
    <2>2. q.state \in Outside
      BY <1>0, <1>3, <2>1 DEF Parsers
    <2>3. UNCHANGED mark /\ event'.on = "headers_complete"
      BY <1>3 DEF Notify
    <2> QED
      BY <1>0, <1>3, <2>2, <2>3, QuietParsed
  <1> QED
    BY <1>1, <1>2, <1>3, ErrorParsed DEF Errno

\* s_headers_done: an upgrade, a body or the end of the message.
LEMMA s_headers_doneParsed == ASSUME Parsing, s_headers_done PROVE Parsed
  <1> DEFINE M == NEW_MESSAGE(parser)
  <1>0. In({"s_headers_done"}) /\ {"s_headers_done"} \in SUBSET (State \ InField)
        /\ M \in State \ InField
        /\ {M, "s_chunk_size_start", "s_body_identity"} \subseteq Outside
    BY HeaderOutside, OutsideStates, NewMessage DEF s_headers_done
  <1>1. ASSUME NEW s \in Outside, NEW q, q = [To(s) EXCEPT !.nread = 0]
        PROVE  q.state = s /\ q.http_errno = "OK"
    <2>1. To(s) \in Parsers /\ To(s).state = s /\ To(s).http_errno = "OK"
      BY <1>0, ParsingIn, ToIn, OutsideStates
    <2> QED
      BY <1>1, <2>1 DEF Parsers
  <1> HIDE DEF M
  <1>2. \/ \E q, w : q = [To(M) EXCEPT !.nread = 0] /\ Return(q, w) /\ mark' = Unmarked
                     /\ event'.on = "message_complete"
        \/ \E s \in {M, "s_chunk_size_start", "s_body_identity"} : \E q :
             q = [To(s) EXCEPT !.nread = 0] /\ Break(q)
             /\ (Quiet \/ Notify("message_complete"))
    BY DEF s_headers_done, M
  <1>3. ASSUME NEW q, NEW w, q = [To(M) EXCEPT !.nread = 0], Return(q, w), mark' = Unmarked,
               event'.on = "message_complete"
        PROVE  Parsed
    <2>1. q.state = M /\ q.http_errno = "OK"
      BY <1>0, <1>1, <1>3
    <2>2. parser' = q /\ data' = <<>> /\ p' = 1 /\ \A f \in Field : mark'[f] = 0
      BY <1>3 DEF Return, Unmarked
    <2>3. RequestInv /\ Inv' /\ parser.state \notin InField
      BY <1>0, ParsingIn
    <2>4. p' <= Len(data') + 1
      BY <2>2
    <2> QED
      BY <1>0, <1>3, <2>1, <2>2, <2>3, <2>4, BetweenStep DEF Parsing, Parsed
  <1>4. ASSUME NEW s \in {M, "s_chunk_size_start", "s_body_identity"}, NEW q,
               q = [To(s) EXCEPT !.nread = 0], Break(q), Quiet \/ Notify("message_complete")
        PROVE  Parsed
    <2>1. s \in Outside
      BY <1>0, <1>4, Zenon
    <2>3. q.state \in Outside
      BY <1>1, <1>4, <2>1, Zenon
    <2>2. UNCHANGED mark /\ event'.on \in {"nothing", "message_complete"}
      BY <1>4 DEF Quiet, None, Notify
    <2> QED
      BY <1>0, <1>4, <2>3, <2>2, QuietParsed
  <1> QED
    BY <1>2, <1>3, <1>4

\* The header lines.
LEMMA HeaderLinesParsed == ASSUME Parsing, header_lines PROVE Parsed
  BY s_header_field_startParsed, s_header_fieldParsed, AroundValueParsed, s_header_valueParsed,
     ConstantsParsed, s_header_value_discard_lwsParsed, s_headers_almost_doneParsed,
     s_headers_doneParsed
     DEF header_lines

\* The states of the head of a chunk and behind one are between the fields.
LEMMA ChunkOutside ==
  /\ {"s_chunk_size_start", "s_chunk_size", "s_chunk_parameters",
      "s_chunk_size_almost_done", "s_chunk_data_done", "s_header_field_start", "s_start_req",
      "s_dead"} \subseteq (State \ InField) \cap Outside
  /\ "s_chunk_data" \in Outside
  /\ {"s_body_identity", "s_chunk_data", "s_chunk_data_almost_done", "s_message_done"}
       \subseteq Reading["body"]
  /\ "body" \in Field
  BY PlainStates, OutsideStates DEF Reading, Field

\* The line in front of a chunk, and the end of one.
LEMMA ChunkHeadParsed ==
  ASSUME Parsing, \/ s_chunk_size_start \/ s_chunk_size \/ s_chunk_parameters
                  \/ s_chunk_size_almost_done \/ s_chunk_data_done
  PROVE  Parsed
  <1> DEFINE S == {"s_chunk_size_start", "s_chunk_size", "s_chunk_parameters",
                   "s_chunk_size_almost_done", "s_chunk_data_done"}
             T == S \cup {"s_chunk_data", "s_header_field_start"}
  <1>0. S \in SUBSET (State \ InField) /\ T \in SUBSET Outside
    BY ChunkOutside
  <1>1. In(S)
    BY DEF s_chunk_size_start, s_chunk_size, s_chunk_parameters, s_chunk_size_almost_done,
       s_chunk_data_done, In
  <1>2. Counted \in Parsers /\ Counted.state \in T
    BY <1>1, ParsingIn, CountedType DEF ParserOK
  <1>3. ASSUME NEW s \in T PROVE To(s) \in Parsers /\ To(s).state \in T
    BY <1>0, <1>1, ParsingIn, ToIn, OutsideStates
  <1> HIDE DEF S, T
  <1>4. \/ \E r, q, x, y :
             /\ r = Counted \/ \E s \in T : r = To(s)
             /\ \/ q = r
                \/ q = [r EXCEPT !.content_length = x]
                \/ q = [r EXCEPT !.nread = x]
                \/ q = [r EXCEPT !.nread = x, !.flags = y]
             /\ Break(q) /\ Quiet
        \/ \E e \in {"INVALID_CHUNK_SIZE", "INVALID_CONTENT_LENGTH", "STRICT"} : Error(e)
    <2>0. "s_chunk_size_start" \in T /\ "s_chunk_size" \in T /\ "s_chunk_parameters" \in T
          /\ "s_chunk_size_almost_done" \in T /\ "s_chunk_data" \in T
          /\ "s_header_field_start" \in T
      BY DEF S, T
    <2>1. CASE s_chunk_size_start
      BY <2>0, <2>1, Zenon DEF s_chunk_size_start
    <2>2. CASE s_chunk_size
      BY <2>0, <2>2, Zenon DEF s_chunk_size
    <2>3. CASE s_chunk_parameters
      BY <2>0, <2>3, Zenon DEF s_chunk_parameters
    <2>4. CASE s_chunk_size_almost_done
      BY <2>0, <2>4, Zenon DEF s_chunk_size_almost_done
    <2>5. CASE s_chunk_data_done
      BY <2>0, <2>5, Zenon DEF s_chunk_data_done
    <2> QED
      BY <2>1, <2>2, <2>3, <2>4, <2>5, Zenon
  <1>5. ASSUME NEW r, NEW q, NEW x, NEW y, r = Counted \/ \E s \in T : r = To(s),
               \/ q = r
               \/ q = [r EXCEPT !.content_length = x]
               \/ q = [r EXCEPT !.nread = x]
               \/ q = [r EXCEPT !.nread = x, !.flags = y],
               Break(q), Quiet
        PROVE  Parsed
    <2>1. r \in Parsers /\ r.state \in T
      BY <1>2, <1>3, <1>5
    <2>2. q.state \in Outside
      BY <1>0, <1>5, <2>1 DEF Parsers
    <2>3. UNCHANGED mark /\ event'.on = "nothing"
      BY <1>5 DEF Quiet, None
    <2> QED
      BY <1>0, <1>1, <1>5, <2>2, <2>3, QuietParsed
  <1> QED
    BY <1>4, <1>5, ErrorParsed DEF Errno

\* CROW_MIN(content_length, the rest of the piece) stays in the piece.
LEMMA ReadInPiece ==
  ASSUME Parsing, NEW S \in SUBSET {"s_body_identity", "s_chunk_data"}, In(S)
  PROVE  /\ to_read \in Nat \ {0} /\ p + to_read <= Len(data) + 1
         /\ parser.content_length \in Nat /\ to_read <= parser.content_length
  <1>1. parser.state \in S /\ Inv /\ Len(data) \in Nat /\ p \in Nat /\ parser \in Parsers
    BY ParsingIn
  <1>2. parser.content_length # 0 /\ parser.content_length \in Nat
    <2>1. parser.content_length \in 0 .. ULLONG_MAX
      BY <1>1 DEF Parsers
    <2>2. parser.content_length # 0
      BY <1>1 DEF Inv, Lengths
    <2> QED
      BY <2>1, <2>2, HttpParserAssumption
  <1>3. to_read \in 1 .. parser.content_length
    BY <1>1, <1>2, ToRead
  <1>4. p + to_read <= Len(data) + 1
    BY <1>1, <1>2 DEF to_read
  <1> QED
    BY <1>2, <1>3, <1>4

\* s_body_identity: part of the body, or the rest of it.
LEMMA s_body_identityParsed == ASSUME Parsing, s_body_identity PROVE Parsed
  <1>0. In({"s_body_identity"}) /\ {"s_body_identity"} \in SUBSET {"s_body_identity", "s_chunk_data"}
    BY DEF s_body_identity
  <1>1. /\ RequestInv /\ Inv' /\ parser.state = "s_body_identity" /\ data # <<>>
        /\ parser \in Parsers /\ mark \in [Field -> Nat] /\ "body" \in Field /\ p \in Nat
    BY <1>0, ParsingIn, ChunkOutside DEF Inv, CallOK
  <1>2. PICK n \in Nat \ {0} : n = to_read /\ p + n <= Len(data) + 1
                               /\ parser.content_length \in Nat
    BY <1>0, ReadInPiece
  <1>3. Marked("body") \in Nat \ {0}
    BY <1>1, WholeMarked
  <1>4. CASE parser.content_length - n = 0
    <2>1. /\ parser' = [parser EXCEPT !.content_length = 0, !.state = "s_message_done"]
          /\ p' = p + n - 1 /\ data' = data /\ fed' = fed
          /\ Deliver("body", Marked("body"), p + n - 1 + 1)
      BY <1>2, <1>4, Zenon DEF s_body_identity
    <2>2. parser'.state = "s_message_done" /\ parser'.content_length = 0
      BY <1>1, <2>1 DEF Parsers
    <2>3. parser'.content_length = parser.content_length - n
      BY <1>4, <2>2
    <2>4. (p + n - 1 + 1) - 1 = p + n - 1
      BY <1>1
    <2>5. event'.on = "body" /\ event'.text = SubSeq(data, Marked("body"), p + n - 1)
      BY <1>3, <2>1, <2>4 DEF Deliver
    <2> QED
      BY <1>1, <1>2, <2>1, <2>2, <2>3, <2>5, LastStep DEF Parsing, Parsed
  <1>5. CASE parser.content_length - n # 0
    <2>1. /\ \E left : left = parser.content_length - n
                       /\ parser' = [parser EXCEPT !.content_length = left]
          /\ p' = p + n - 1 + 1 /\ data' = data /\ fed' = fed /\ Mark("body")
      BY <1>2, <1>5, Zenon DEF s_body_identity
    <2>2. parser'.state = "s_body_identity"
          /\ parser'.content_length = parser.content_length - n
      BY <1>1, <2>1 DEF Parsers
    <2>3. p' = p + n
      BY <1>1, <2>1
    <2>4. event'.on = "nothing" /\ mark'["body"] = Marked("body")
      BY <1>1, <2>1 DEF Mark, None
    <2> QED
      BY <1>1, <1>2, <2>1, <2>2, <2>3, <2>4, BodyStep DEF Parsing, Parsed
  <1> QED
    BY <1>4, <1>5

\* s_chunk_data: part of a chunk, or the rest of it.
LEMMA s_chunk_dataParsed == ASSUME Parsing, s_chunk_data PROVE Parsed
  <1>0. In({"s_chunk_data"}) /\ {"s_chunk_data"} \in SUBSET {"s_body_identity", "s_chunk_data"}
    BY DEF s_chunk_data
  <1>1. /\ RequestInv /\ Inv' /\ parser.state = "s_chunk_data" /\ data # <<>>
        /\ parser \in Parsers /\ mark \in [Field -> Nat] /\ "body" \in Field /\ p \in Nat
    BY <1>0, ParsingIn, ChunkOutside DEF Inv, CallOK
  <1>2. PICK n \in Nat \ {0} : n = to_read /\ p + n <= Len(data) + 1
                               /\ parser.content_length \in Nat
    BY <1>0, ReadInPiece
  <1>3. /\ \E left, t : /\ left = parser.content_length - n
                        /\ t \in {"s_chunk_data", "s_chunk_data_almost_done"}
                        /\ parser' = [parser EXCEPT !.content_length = left, !.state = t]
        /\ p' = p + n /\ data' = data /\ fed' = fed /\ Mark("body")
    BY <1>1, <1>2, Zenon DEF s_chunk_data
  <1>4. parser'.state \in {"s_chunk_data", "s_chunk_data_almost_done"}
        /\ parser'.content_length = parser.content_length - n
    BY <1>1, <1>3 DEF Parsers
  <1>5. event'.on = "nothing" /\ mark'["body"] = Marked("body")
    BY <1>1, <1>3 DEF Mark, None
  <1> QED
    BY <1>1, <1>2, <1>3, <1>4, <1>5, BodyStep DEF Parsing, Parsed

\* s_chunk_data_almost_done: the chunk is delivered.
LEMMA s_chunk_data_almost_doneParsed ==
  ASSUME Parsing, s_chunk_data_almost_done PROVE Parsed
  <1>0. In({"s_chunk_data_almost_done"})
        /\ {"s_chunk_data_almost_done"} \in SUBSET Reading["body"]
        /\ "s_body_identity" \notin {"s_chunk_data_almost_done"}
        /\ "s_chunk_data" \notin {"s_chunk_data_almost_done"}
        /\ "s_chunk_data_done" \in State \ InField /\ "body" \in Field
    BY ChunkOutside DEF s_chunk_data_almost_done
  <1>1. CASE Break(To("s_chunk_data_done")) /\ Deliver("body", mark["body"], p)
    <2>1. To("s_chunk_data_done").state \in State \ InField
      BY <1>0, ParsingIn, ToIn
    <2> QED
      BY <1>0, <1>1, <2>1, EndParsed
  <1> QED
    BY <1>1, ErrorParsed DEF s_chunk_data_almost_done, Errno

\* s_message_done: the message is complete.
LEMMA s_message_doneParsed == ASSUME Parsing, s_message_done PROVE Parsed
  <1>0. In({"s_message_done"}) /\ NEW_MESSAGE(parser) \in State \ InField
    BY ChunkOutside, NewMessage DEF s_message_done
  <1>1. RequestInv /\ Inv' /\ parser.state = "s_message_done" /\ data # <<>>
        /\ p + 1 <= Len(data) + 1
    BY <1>0, ParsingIn
  <1>2. /\ parser' = To(NEW_MESSAGE(parser)) /\ data' = data /\ p' = p + 1 /\ fed' = fed
        /\ event'.on = "message_complete"
    BY DEF s_message_done, Break, Notify
  <1>3. parser'.state \notin InField
    BY <1>0, <1>2, ParsingIn, ToIn
  <1> QED
    BY <1>1, <1>2, <1>3, DoneStep DEF Parsing, Parsed

\* The body.
LEMMA MessageBodyParsed == ASSUME Parsing, message_body PROVE Parsed
  BY ChunkHeadParsed, s_body_identityParsed, s_chunk_dataParsed,
     s_chunk_data_almost_doneParsed, s_message_doneParsed DEF message_body

\* Every step of the loop, with its callback.
LEMMA ParseStep ==
  ASSUME RequestInv, parse
  PROVE  RequestInv' /\ (parser'.http_errno = "OK" => Conserved)
  <1>1. step
    BY DEF parse
  <1>2. Inv'
    BY <1>1, NextKeeps DEF RequestInv, Next
  <1>3. Parsing
    BY <1>2 DEF parse, Parsing
  <1>4. header_overflow => Parsed
    BY <1>3, ErrorParsed DEF header_overflow, Errno
  <1>5. leftover => Parsed
    BY <1>3, LeftStep DEF Parsing, Parsed
  <1>6. Parsed
    BY <1>1, <1>3, <1>4, <1>5, RequestLineParsed, HeaderLinesParsed, MessageBodyParsed DEF step
  <1> QED
    BY <1>2, <1>6 DEF Parsed, RequestInv

\* Every step of HTTPParser, of the socket and of the peer.
LEMMA RequestStep ==
  ASSUME RequestInv, [RequestNext]_requestVars
  PROVE  RequestInv' /\ (wrong' = wrong /\ parser'.http_errno = "OK" => Conserved)
  <1>1. CASE parse
    BY <1>1, ParseStep
  <1>2. CASE finish
    BY <1>2, FinishStep
  <1>3. ASSUME NEW n \in PieceLengths, feed(n)
        PROVE  RequestInv' /\ Conserved
    BY <1>3, FeedStep
  <1>4. ASSUME NEW b \in WrongBytes, mistake(b)
        PROVE  RequestInv' /\ wrong' # wrong
    BY <1>4, MistakeStep
  <1>5. CASE UNCHANGED requestVars
    <2>1. parser' = parser /\ UNCHANGED <<data, p, again, mark, self, stream, fed, over>>
      BY <1>5 DEF requestVars, vars
    <2> QED
      BY <2>1, IdleStep
  <1> QED
    BY <1>1, <1>2, <1>3, <1>4, <1>5 DEF RequestNext

\* HTTPParser as constructed, with nothing read.
LEMMA RequestInitInv == RequestInit => RequestInv
  <1> SUFFICES ASSUME RequestInit PROVE RequestInv
    OBVIOUS
  <1>1. Inv
    BY InitInv DEF RequestInit
  <1>2. SelfOK
    <2>1. <<>> \in Seq(STRING)
      OBVIOUS
    <2> QED
      BY <2>1, Zenon DEF RequestInit, clear, SelfOK
  <1>3. PlaceOK
    <2>1. stream \in Seq(STRING)
      BY BytesAssumption DEF RequestInit
    <2>2. /\ data = <<>> /\ p = 1 /\ parser.http_errno = "OK" /\ parser.state = "s_start_req"
          /\ \A f \in Field : mark[f] = 0
      BY DEF RequestInit, Init, http_parser_init, Unmarked
    <2>3. Len(data) = 0
      BY <2>2
    <2> QED
      BY <2>1, <2>2, <2>3 DEF PlaceOK
  <1> QED
    BY <1>1, <1>2, <1>3 DEF RequestInv

\* Wherever the socket's reads cut the bytes, and whatever the bytes are, the
\* marks, the position and the members of HTTPParser fit together.
THEOREM RequestInvariant == RequestSpec => []RequestInv
  BY RequestInitInv, RequestStep, PTL DEF RequestSpec

\* Wherever the reads cut the bytes, the callbacks of HTTPParser put the url,
\* the names, the values and the body together from the bytes of the stream,
\* in order, each once, and as many as content_length says: for every
\* conversation, every wrong byte and all lengths of the pieces.
THEOREM PiecesNeverMatter == RequestSpec => PiecesMakeNoDifference
  <1>1. RequestInv /\ [RequestNext]_requestVars =>
          [wrong' = wrong /\ parser'.http_errno = "OK" =>
             /\ \A f \in Field : FieldStep(f)
             /\ parser.state \in {"s_body_identity", "s_chunk_data"} =>
                  parser'.content_length + Len(Whole("body")') =
                    parser.content_length + Len(Whole("body"))]_requestVars
    BY RequestStep, Zenon DEF Conserved
  <1> QED
    BY <1>1, RequestInvariant, PTL DEF RequestSpec, PiecesMakeNoDifference

\* What drives the parser in crow::HTTPParser, the pieces of a stream, the
\* end of it and the steps of the loop, is what HttpParser allows.
LEMMA RequestNextIsNext ==
  ASSUME RequestInv, [RequestNext]_requestVars
  PROVE  [Next]_vars
  <1>1. CASE parse \/ finish
    BY <1>1 DEF parse, finish, Next
  <1>2. ASSUME NEW n \in PieceLengths, feed(n) PROVE Next
    <2>1. PICK k : http_parser_execute(SubSeq(stream, 1, k)) /\ k = Min({n, Len(stream)})
      BY <1>2, Zenon DEF feed
    <2>2. n \in Nat /\ stream \in Seq(STRING) /\ Len(stream) \in Nat
      BY BytesAssumption DEF RequestInv, PlaceOK
    <2>3. k \in Nat /\ k <= Len(stream)
      <3>1. \E m \in {n, Len(stream)} : \A y \in {n, Len(stream)} : m <= y
        BY <2>2
      <3>2. k \in {n, Len(stream)} /\ \A y \in {n, Len(stream)} : k <= y
        BY <2>1, <3>1, Zenon DEF Min
      <3> QED
        BY <2>2, <3>2
    <2>4. SubSeq(stream, 1, k) \in Seq(STRING)
      <3>1. 1 \in Nat \ {0}
        OBVIOUS
      <3> QED
        BY <2>2, <2>3, <3>1, Parts, Zenon
    <2> QED
      BY <2>1, <2>4, Zenon DEF Next
  <1>3. CASE (\E b \in WrongBytes : mistake(b)) \/ UNCHANGED requestVars
    BY <1>3 DEF mistake, requestVars
  <1> QED
    BY <1>1, <1>2, <1>3 DEF RequestNext

\* The request parser implements the parser of arbitrary bytes in arbitrary
\* pieces, so what holds of that one holds of it.
THEOREM RequestParserImplements == RequestSpec => Spec
  <1>1. RequestInit => Init
    BY DEF RequestInit
  <1> QED
    BY <1>1, RequestNextIsNext, RequestInvariant, PTL DEF RequestSpec, Spec

\* No assert() fails in the calls that HTTPParser::feed() and done() make.
THEOREM RequestAssertsNeverFail == RequestSpec => []AssertsHold
  BY RequestParserImplements, AssertsNeverFail, PTL
=============================================================================
