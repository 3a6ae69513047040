-------------------------- MODULE WebSocketProofs ---------------------------
(***************************************************************************)
(* Proofs about crow::websocket::Connection.  The member functions work on *)
(* a state x = [c, rd, wr, log]; a lemma for each of them says which parts *)
(* of x it may change.                                                     *)
(***************************************************************************)
EXTENDS WebSocket, SequenceTheorems, TLAPS

-----------------------------------------------------------------------------
(* What the connection holds. *)

\* A byte of a payload; "garbage" was unmasked at a wrong place.
Byte == STRING \cup {"garbage"}

\* A frame of the peer.
AFrame == [op : Ops, fin : BOOLEAN, enc : {"7", "16", "64"}, masked : BOOLEAN, body : Seq(Byte)]

\* The answer of start() has no header of a frame.
Answer == {"101 Switching Protocols"}

\* What build_header() makes, and the answer of start().
Header == [op : Ops \cup Answer, len : Int, ext : Int]

\* A buffer pair, whose header announces the size of its payload.
Sendable ==
  {f \in [header : Header, body : Seq(Byte)] :
     (f.header.op = "pong" => Len(f.body) < Size7) => Announced(f.header) = Len(f.body)}

\* fragment_, message_ with its kind, and the members of the class.
Fragments == Seq([byte : Byte, place : Int])

Message == [body : Seq(Byte), binary : BOOLEAN]

Conn == [obj : {"live", "deleted"}, open : BOOLEAN,
         state : {"MiniHeader", "Len16", "Len64", "Mask", "Payload"},
         frame : AFrame \cup {NoFrame}, remaining : Int, fragment : Fragments,
         message : Seq(Byte), is_binary : BOOLEAN, is_reading : BOOLEAN,
         close_connection : BOOLEAN, has_sent_close : BOOLEAN, has_recv_close : BOOLEAN,
         is_close_handler_called : BOOLEAN,
         write_buffers : Seq(Sendable), sending_buffers : Seq(Sendable)]

\* What was called, handed over, delivered and handled.
Log == [called : Seq(Sendable), handed : Seq(Sendable), got : Seq(Message),
        handled : Seq(AFrame \cup {NoFrame}), closes : Int, touched : BOOLEAN,
        split : BOOLEAN, ended : BOOLEAN]

Reads == {"none", "pending", "data", "error"}
Writes == {"none", "pending", "ok", "failed"}

State == [c : Conn, rd : Reads, wr : Writes, log : Log]

\* A read or a write is outstanding exactly as long as the flag or the buffers
\* say so; a deleted connection has neither; what was asked for is what was
\* handed to the socket and what still waits.
Ends(x) ==
  /\ x.wr = "none" <=> x.c.sending_buffers = <<>>
  /\ x.rd = "none" <=> x.c.is_reading = FALSE
  /\ x.c.obj = "deleted" => x.c.sending_buffers = <<>> /\ x.c.is_reading = FALSE
  /\ x.log.touched = TRUE => x.c.has_sent_close = TRUE /\ x.c.has_recv_close = TRUE
  /\ x.log.called = x.log.handed \o x.c.write_buffers

\* What only reading changes.
Reader(x) ==
  <<x.c.state, x.c.frame, x.c.remaining, x.c.fragment, x.c.message, x.c.is_reading, x.rd,
    x.log.got, x.log.handled, x.log.split>>

-----------------------------------------------------------------------------
(* The member functions that write. *)

\* do_write().
LEMMA DoWrite ==
  ASSUME NEW x \in State, x.c.write_buffers # <<>>,
         x.wr = "none" <=> x.c.sending_buffers = <<>>,
         x.rd = "none" <=> x.c.is_reading = FALSE, x.c.obj = "live",
         x.log.touched = TRUE => x.c.has_sent_close = TRUE /\ x.c.has_recv_close = TRUE,
         x.log.called = x.log.handed \o x.c.write_buffers
  PROVE  LET y == do_write(x)
         IN /\ y \in State /\ Ends(y) /\ Reader(y) = Reader(x)
            /\ y.c.obj = "live" /\ y.c.has_sent_close = x.c.has_sent_close
            /\ y.c.has_recv_close = x.c.has_recv_close
            /\ y.log.called = x.log.called
  <1>1. CASE x.c.sending_buffers # <<>>
    BY <1>1 DEF do_write, Ends
  <1>2. CASE x.c.sending_buffers = <<>>
    <2>1. PICK d, l : d = x.c /\ l = x.log
      OBVIOUS
    <2>2. d \in Conn /\ l \in Log /\ l.called \in Seq(Sendable) /\ l.handed \in Seq(Sendable)
          /\ d.write_buffers \in Seq(Sendable)
      BY <2>1 DEF State, Conn, Log
    <2> DEFINE dd == [d EXCEPT !.sending_buffers = d.write_buffers, !.write_buffers = <<>>]
               ll == [l EXCEPT !.handed = @ \o d.write_buffers]
               y == [x EXCEPT !.c = dd, !.wr = "pending", !.log = ll]
    <2>3. do_write(x) = y
      BY <1>2, <2>1 DEF do_write, State
    <2>4. dd \in Conn /\ ll \in Log
      <3>1. l.handed \o d.write_buffers \in Seq(Sendable) /\ <<>> \in Seq(Sendable)
        BY <2>2, ConcatProperties
      <3> QED
        BY <2>2, <3>1 DEF Conn, Log
    <2>5. /\ dd.write_buffers = <<>> /\ dd.sending_buffers = d.write_buffers
          /\ ll.handed = l.handed \o d.write_buffers /\ ll.called = l.called
          /\ dd.obj = d.obj /\ dd.has_sent_close = d.has_sent_close
          /\ dd.has_recv_close = d.has_recv_close /\ dd.is_reading = d.is_reading
          /\ ll.touched = l.touched
      BY <2>2 DEF Conn, Log
    <2>6. /\ dd.state = d.state /\ dd.frame = d.frame /\ dd.remaining = d.remaining
          /\ dd.fragment = d.fragment /\ dd.message = d.message
          /\ ll.got = l.got /\ ll.handled = l.handled /\ ll.split = l.split
      BY <2>2 DEF Conn, Log
    <2> HIDE DEF dd, ll
    <2>7. y \in State /\ y.c = dd /\ y.log = ll /\ y.rd = x.rd /\ y.wr = "pending"
      BY <2>4 DEF State, Writes
    <2> HIDE DEF y
    <2>8. ll.called = ll.handed \o dd.write_buffers
      BY <2>1, <2>2, <2>5, ConcatEmptySeq
    <2>9. Ends(y) /\ Reader(y) = Reader(x)
      BY <2>1, <2>5, <2>6, <2>7, <2>8 DEF Ends, Reader
    <2> QED
      BY <2>1, <2>3, <2>5, <2>7, <2>9
  <1> QED
    BY <1>1, <1>2

\* What a member function that writes may change.
Wrote(x, y) ==
  /\ y \in State /\ Ends(y) /\ Reader(y) = Reader(x)
  /\ y.c.obj = x.c.obj /\ y.c.has_recv_close = x.c.has_recv_close
  /\ x.c.has_sent_close = TRUE => y.c.has_sent_close = TRUE

\* A number below the modulus is its own remainder.
LEMMA SmallRemainder ==
  ASSUME NEW a \in Nat, NEW b \in Nat, a < b
  PROVE  a % b = a
  OBVIOUS

\* build_header() announces the size of the payload.
LEMMA HeaderFits ==
  ASSUME NEW op \in Ops, NEW body \in Seq(Byte)
  PROVE  [header |-> build_header(op, Len(body)), body |-> body] \in Sendable
  <1>1. PICK size : size = Len(body) /\ size \in Nat
    OBVIOUS
  <1>2. PICK h : h = build_header(op, size)
    OBVIOUS
  <1>3. h \in Header /\ Announced(h) = size
    <2>1. CASE size < Size7
      <3>1. h = [op |-> op, len |-> size, ext |-> 0]
        BY <1>1, <1>2, <2>1, WebSocketAssumption DEF build_header
      <3>2. Announced(h) = size
        BY <1>1, <2>1, <3>1 DEF Announced
      <3> QED
        BY <1>1, <3>1, <3>2 DEF Header
    <2>2. CASE size >= Size7 /\ size < Size16
      <3>1. size % Size16 = size
        BY <1>1, <2>2, SmallRemainder, WebSocketAssumption
      <3>2. h = [op |-> op, len |-> Size7, ext |-> size]
        BY <1>1, <1>2, <2>2, <3>1, WebSocketAssumption DEF build_header
      <3>3. Announced(h) = size
        BY <1>1, <3>2, WebSocketAssumption DEF Announced
      <3> QED
        BY <1>1, <3>2, <3>3, WebSocketAssumption DEF Header
    <2>3. CASE size >= Size16
      <3>1. h = [op |-> op, len |-> Size7 + 1, ext |-> size]
        BY <1>1, <1>2, <2>3, WebSocketAssumption DEF build_header
      <3>2. Announced(h) = size
        BY <1>1, <3>1, WebSocketAssumption DEF Announced
      <3> QED
        BY <1>1, <3>1, <3>2, WebSocketAssumption DEF Header
    <2> QED
      BY <1>1, <2>1, <2>2, <2>3, WebSocketAssumption
  <1> QED
    BY <1>1, <1>2, <1>3 DEF Sendable

\* send_pong()'s header announces the size of a payload that fits it.
LEMMA PongFits ==
  ASSUME NEW body \in Seq(Byte)
  PROVE  /\ [header |-> pong_header(Len(body)), body |-> body] \in Sendable
         /\ pong_header(Len(body)).op = "pong"
  <1>1. PICK size : size = Len(body) /\ size \in Nat
    OBVIOUS
  <1>2. PICK h : h = pong_header(size)
    OBVIOUS
  <1>3. PICK m : m = 2 * (Size7 + 2) /\ m \in Nat \ {0} /\ Size7 < m
    BY WebSocketAssumption
  <1>4. h = [op |-> "pong", len |-> size % m, ext |-> 0]
    BY <1>2, <1>3 DEF pong_header
  <1>5. size % m \in Int
    BY <1>1, <1>3
  <1>6. h \in Header /\ h.op = "pong"
    BY <1>4, <1>5 DEF Header, Ops
  <1>7. size < Size7 => Announced(h) = size
    <2> HAVE size < Size7
    <2>1. size % m = size
      BY <1>1, <1>3, SmallRemainder, WebSocketAssumption
    <2> QED
      BY <1>4, <2>1 DEF Announced
  <1> QED
    BY <1>1, <1>2, <1>6, <1>7 DEF Sendable

\* A buffer pair is queued, and handed to the socket if nothing is on its way.
LEMMA QueuedKeeps ==
  ASSUME NEW x \in State, Ends(x), x.c.obj = "live", NEW header, NEW body,
         [header |-> header, body |-> body] \in Sendable
  PROVE  /\ Wrote(x, Queued(x, header, body))
         /\ Queued(x, header, body).log.called
              = Append(x.log.called, [header |-> header, body |-> body])
         /\ Queued(x, header, body).c.has_sent_close = x.c.has_sent_close
  <1>1. PICK f \in Sendable : f = [header |-> header, body |-> body]
    OBVIOUS
  <1>2. PICK d, l : d = x.c /\ l = x.log
    OBVIOUS
  <1>3. /\ d \in Conn /\ l \in Log /\ l.called \in Seq(Sendable) /\ l.handed \in Seq(Sendable)
        /\ d.write_buffers \in Seq(Sendable)
    BY <1>2 DEF State, Conn, Log
  <1> DEFINE dd == [d EXCEPT !.write_buffers = Append(@, f)]
             ll == [l EXCEPT !.called = Append(@, f)]
             y == [x EXCEPT !.c = dd, !.log = ll]
  <1>4. Queued(x, header, body) = do_write(y)
    <2>1. [x EXCEPT !.c.write_buffers = Append(@, f), !.log.called = Append(@, f)] = y
      BY <1>2 DEF State
    <2> QED
      BY <1>1, <2>1, Zenon DEF Queued
  <1>5. dd \in Conn /\ ll \in Log
    <2>1. Append(d.write_buffers, f) \in Seq(Sendable) /\ Append(l.called, f) \in Seq(Sendable)
      BY <1>3, AppendProperties
    <2> QED
      BY <1>3, <2>1 DEF Conn, Log
  <1>6. /\ dd.write_buffers = Append(d.write_buffers, f)
        /\ dd.sending_buffers = d.sending_buffers
        /\ ll.called = Append(l.called, f) /\ ll.handed = l.handed
        /\ dd.obj = d.obj /\ dd.has_sent_close = d.has_sent_close
        /\ dd.has_recv_close = d.has_recv_close /\ dd.is_reading = d.is_reading
        /\ ll.touched = l.touched
    BY <1>3 DEF Conn, Log
  <1>7. /\ dd.state = d.state /\ dd.frame = d.frame /\ dd.remaining = d.remaining
        /\ dd.fragment = d.fragment /\ dd.message = d.message
        /\ ll.got = l.got /\ ll.handled = l.handled /\ ll.split = l.split
    BY <1>3 DEF Conn, Log
  <1> HIDE DEF dd, ll
  <1>8. y \in State /\ y.c = dd /\ y.log = ll /\ y.rd = x.rd /\ y.wr = x.wr
    BY <1>5 DEF State
  <1>9. ll.called = ll.handed \o dd.write_buffers /\ dd.write_buffers # <<>>
    <2>1. l.called = l.handed \o d.write_buffers
      BY <1>2 DEF Ends
    <2>2. Append(l.handed \o d.write_buffers, f) = l.handed \o Append(d.write_buffers, f)
      <3>1. PICK a, b, g : a = l.handed /\ b = d.write_buffers /\ g = <<f>>
        OBVIOUS
      <3>2. /\ a \in Seq(Sendable) /\ b \in Seq(Sendable) /\ g \in Seq(Sendable)
            /\ a \o b \in Seq(Sendable)
        BY <1>1, <1>3, <3>1, ConcatProperties
      <3>3. (a \o b) \o g = a \o (b \o g)
        BY <3>2, ConcatAssociative
      <3>4. Append(a \o b, f) = (a \o b) \o g /\ Append(b, f) = b \o g
        BY <3>1, <3>2, AppendIsConcat
      <3> QED
        BY <3>1, <3>3, <3>4, Zenon
    <2>3. Append(d.write_buffers, f) # <<>>
      BY <1>3, AppendProperties
    <2> QED
      BY <1>6, <2>1, <2>2, <2>3
  <1> HIDE DEF y
  <1>10. Reader(y) = Reader(x)
    BY <1>2, <1>6, <1>7, <1>8 DEF Reader
  <1>11. /\ y.wr = "none" <=> y.c.sending_buffers = <<>>
         /\ y.rd = "none" <=> y.c.is_reading = FALSE
         /\ y.c.obj = "live" /\ y.c.write_buffers # <<>>
         /\ y.log.touched = TRUE => y.c.has_sent_close = TRUE /\ y.c.has_recv_close = TRUE
         /\ y.log.called = y.log.handed \o y.c.write_buffers
    BY <1>2, <1>6, <1>8, <1>9 DEF Ends
  <1>12. LET z == do_write(y)
         IN /\ z \in State /\ Ends(z) /\ Reader(z) = Reader(y)
            /\ z.c.obj = "live" /\ z.c.has_sent_close = y.c.has_sent_close
            /\ z.c.has_recv_close = y.c.has_recv_close
            /\ z.log.called = y.log.called
    BY <1>8, <1>11, DoWrite
  <1> QED
    BY <1>1, <1>2, <1>4, <1>6, <1>8, <1>10, <1>12 DEF Wrote

\* send_pong().
LEMMA SendPongKeeps ==
  ASSUME NEW x \in State, Ends(x), x.c.obj = "live", NEW body \in Seq(Byte)
  PROVE  /\ Wrote(x, send_pong(x, body))
         /\ \E f \in Sendable : /\ send_pong(x, body).log.called = Append(x.log.called, f)
                                /\ f.header.op = "pong" /\ f.body = body
  <1>1. PICK h : h = pong_header(Len(body))
    OBVIOUS
  <1>2. PICK f : f = [header |-> h, body |-> body]
    OBVIOUS
  <1>3. f \in Sendable /\ f.header.op = "pong" /\ f.body = body
    BY <1>1, <1>2, PongFits
  <1>4. /\ Wrote(x, Queued(x, h, body))
        /\ Queued(x, h, body).log.called = Append(x.log.called, f)
    BY <1>2, <1>3, QueuedKeeps
  <1>5. send_pong(x, body) = Queued(x, h, body)
    BY <1>1, Zenon DEF send_pong
  <1> QED
    BY <1>3, <1>4, <1>5, Zenon

\* The application's close handler is called.
LEMMA CloseHandlerKeeps ==
  ASSUME NEW x \in State
  PROVE  LET y == close_handler(x)
         IN  /\ y \in State /\ y.c = x.c /\ y.rd = x.rd /\ y.wr = x.wr
             /\ Reader(y) = Reader(x) /\ (Ends(y) <=> Ends(x))
             /\ y.log.called = x.log.called /\ y.log.touched = x.log.touched
  <1>1. PICK n : n = IF x.log.closes < 2 THEN x.log.closes + 1 ELSE x.log.closes
    OBVIOUS
  <1>2. x.log \in Log /\ n \in Int
    BY <1>1 DEF State, Log
  <1> DEFINE ll == [x.log EXCEPT !.closes = n]
             y == [x EXCEPT !.log = ll]
  <1>3. close_handler(x) = y
    BY <1>1, Zenon DEF close_handler
  <1>4. /\ ll \in Log /\ ll.called = x.log.called /\ ll.handed = x.log.handed
        /\ ll.touched = x.log.touched /\ ll.got = x.log.got /\ ll.handled = x.log.handled
        /\ ll.split = x.log.split
    BY <1>2 DEF Log
  <1> HIDE DEF ll
  <1>5. y \in State /\ y.c = x.c /\ y.rd = x.rd /\ y.wr = x.wr /\ y.log = ll
    BY <1>4 DEF State
  <1> HIDE DEF y
  <1>6. Reader(y) = Reader(x)
    BY <1>4, <1>5 DEF Reader
  <1>7. Ends(y) <=> Ends(x)
    BY <1>4, <1>5 DEF Ends
  <1> QED
    BY <1>3, <1>4, <1>5, <1>6, <1>7

\* d is b but for the flags of a close.
FlagsOnly(b, d) ==
  /\ d \in Conn /\ d.obj = b.obj /\ d.is_reading = b.is_reading /\ d.state = b.state
  /\ d.frame = b.frame /\ d.remaining = b.remaining /\ d.fragment = b.fragment
  /\ d.message = b.message /\ d.sending_buffers = b.sending_buffers
  /\ d.write_buffers = b.write_buffers
  /\ b.has_sent_close = TRUE => d.has_sent_close = TRUE
  /\ b.has_recv_close = TRUE => d.has_recv_close = TRUE

\* The flags of a close are set.
LEMMA FlagsSet ==
  ASSUME NEW x \in State, NEW d, FlagsOnly(x.c, d)
  PROVE  LET y == [x EXCEPT !.c = d]
         IN  /\ y \in State /\ Reader(y) = Reader(x) /\ (Ends(x) => Ends(y))
             /\ y.rd = x.rd /\ y.wr = x.wr /\ y.log = x.log /\ y.c = d
  <1> DEFINE y == [x EXCEPT !.c = d]
  <1>1. y \in State /\ y.c = d /\ y.rd = x.rd /\ y.wr = x.wr /\ y.log = x.log
    BY DEF State, FlagsOnly
  <1> HIDE DEF y
  <1>2. /\ y.c.obj = x.c.obj /\ y.c.is_reading = x.c.is_reading /\ y.c.state = x.c.state
        /\ y.c.frame = x.c.frame /\ y.c.remaining = x.c.remaining
        /\ y.c.fragment = x.c.fragment /\ y.c.message = x.c.message
        /\ y.c.sending_buffers = x.c.sending_buffers
        /\ y.c.write_buffers = x.c.write_buffers
        /\ x.c.has_sent_close = TRUE => y.c.has_sent_close = TRUE
        /\ x.c.has_recv_close = TRUE => y.c.has_recv_close = TRUE
    BY <1>1, Zenon DEF FlagsOnly
  <1>3. Reader(y) = Reader(x)
    BY <1>1, <1>2 DEF Reader
  <1>4. Ends(x) => Ends(y)
    BY <1>1, <1>2, Zenon DEF Ends
  <1> QED
    BY <1>1, <1>3, <1>4 DEF y

\* close(): this side asks for the end, or answers.
LEMMA CloseKeeps ==
  ASSUME NEW x \in State, Ends(x), x.c.obj = "live", NEW body \in Seq(Byte)
  PROVE  /\ Wrote(x, close(x, body))
         /\ \E f \in Sendable : /\ close(x, body).log.called = Append(x.log.called, f)
                                /\ f.header.op # "pong"
  <1>1. x.c \in Conn /\ x.log \in Log
    BY DEF State
  <1>2. PICK d : d = [x.c EXCEPT !.has_sent_close = TRUE]
    OBVIOUS
  <1>3. FlagsOnly(x.c, d) /\ d.has_sent_close = TRUE /\ d.has_recv_close = x.c.has_recv_close
    BY <1>1, <1>2 DEF FlagsOnly, Conn
  <1>4. PICK y : y = [x EXCEPT !.c.has_sent_close = TRUE]
    OBVIOUS
  <1>5. y = [x EXCEPT !.c = d]
    BY <1>2, <1>4
  <1>6. /\ y \in State /\ Reader(y) = Reader(x) /\ Ends(y) /\ y.log = x.log /\ y.c = d
    BY <1>3, <1>5, FlagsSet
  <1>7. PICK e : e = [y.c EXCEPT !.is_close_handler_called = TRUE]
    OBVIOUS
  <1>8. FlagsOnly(y.c, e) /\ e.has_sent_close = TRUE /\ e.has_recv_close = x.c.has_recv_close
    <2>1. y.c \in Conn
      BY <1>6 DEF State
    <2>2. /\ FlagsOnly(y.c, e) /\ e.has_sent_close = y.c.has_sent_close
          /\ e.has_recv_close = y.c.has_recv_close
      BY <2>1, <1>7 DEF FlagsOnly, Conn
    <2> QED
      BY <1>3, <1>6, <2>2
  <1>9. PICK u : u = [y EXCEPT !.c.is_close_handler_called = TRUE]
    OBVIOUS
  <1>10. u = [y EXCEPT !.c = e]
    BY <1>7, <1>9
  <1>11. u \in State /\ Reader(u) = Reader(y) /\ Ends(u) /\ u.log = y.log /\ u.c = e
    BY <1>6, <1>8, <1>10, FlagsSet
  <1>12. PICK z : z = IF y.c.has_recv_close /\ ~y.c.is_close_handler_called
                      THEN close_handler(u) ELSE y
    OBVIOUS
  <1>13. /\ z \in State /\ Reader(z) = Reader(x) /\ Ends(z)
         /\ z.c.obj = x.c.obj /\ z.log.called = x.log.called
         /\ z.c.has_sent_close = TRUE /\ z.c.has_recv_close = x.c.has_recv_close
    <2>1. CASE z = close_handler(u)
      <3>1. /\ z \in State /\ z.c = u.c /\ Reader(z) = Reader(u) /\ Ends(z)
            /\ z.log.called = u.log.called
        BY <1>11, <2>1, CloseHandlerKeeps
      <3>2. u.c.obj = x.c.obj
        BY <1>3, <1>6, <1>8, <1>11 DEF FlagsOnly
      <3> QED
        BY <1>6, <1>8, <1>11, <3>1, <3>2
    <2>2. CASE z = y
      BY <1>3, <1>6, <2>2 DEF FlagsOnly
    <2> QED
      BY <1>12, <2>1, <2>2, Zenon
  <1>14. PICK h : h = build_header("close", Len(body))
    OBVIOUS
  <1>15. close(x, body) = Queued(z, h, body)
    <2>1. close(x, body) =
            Queued(IF y.c.has_recv_close /\ ~y.c.is_close_handler_called
                   THEN close_handler([y EXCEPT !.c.is_close_handler_called = TRUE]) ELSE y,
                   build_header("close", Len(body)), body)
      BY <1>4 DEF close
    <2> QED
      BY <1>9, <1>12, <1>14, <2>1
  <1>16. PICK f : f = [header |-> h, body |-> body]
    OBVIOUS
  <1>17. "close" \in Ops /\ f \in Sendable /\ h.op # "pong"
    <2>1. "close" \in Ops
      BY DEF Ops
    <2>2. h.op = "close"
      BY <1>14, WebSocketAssumption DEF build_header
    <2> QED
      BY <1>14, <1>16, <2>1, <2>2, HeaderFits
  <1>18. f.header.op # "pong"
    BY <1>16, <1>17
  <1>19. /\ Wrote(z, Queued(z, h, body))
         /\ Queued(z, h, body).log.called = Append(z.log.called, f)
    BY <1>13, <1>16, <1>17, QueuedKeeps
  <1>20. Wrote(x, Queued(z, h, body))
    BY <1>13, <1>19, Zenon DEF Wrote
  <1> QED
    BY <1>13, <1>15, <1>17, <1>18, <1>19, <1>20, Zenon

\* check_destroy(): the object is deleted only when nothing is on its way.
LEMMA CheckDestroyKeeps ==
  ASSUME NEW x \in State, Ends(x)
  PROVE  LET y == check_destroy(x)
         IN  /\ y \in State /\ Ends(y) /\ Reader(y) = Reader(x)
             /\ y.c.has_sent_close = x.c.has_sent_close
             /\ y.c.has_recv_close = x.c.has_recv_close
             /\ y.log.called = x.log.called
  <1>1. PICK z : z = IF x.c.is_close_handler_called THEN x ELSE close_handler(x)
    OBVIOUS
  <1>2. /\ z \in State /\ Ends(z) /\ Reader(z) = Reader(x) /\ z.c = x.c
        /\ z.log.called = x.log.called
    <2>1. CASE z = x
      BY <2>1
    <2>2. CASE z = close_handler(x)
      BY <2>2, CloseHandlerKeeps
    <2> QED
      BY <1>1, <2>1, <2>2, Zenon
  <1>3. check_destroy(x) = IF z.c.sending_buffers = <<>> /\ ~z.c.is_reading
                           THEN [z EXCEPT !.c.obj = "deleted"] ELSE z
    BY <1>1, Zenon DEF check_destroy
  <1>4. CASE z.c.sending_buffers = <<>> /\ ~z.c.is_reading
    <2>1. PICK d : d = [z.c EXCEPT !.obj = "deleted"]
      OBVIOUS
    <2>2. z.c \in Conn /\ z.log \in Log
      BY <1>2 DEF State
    <2>3. z.c.is_reading = FALSE
      BY <1>4, <2>2 DEF Conn
    <2>4. /\ d \in Conn /\ d.obj = "deleted" /\ d.is_reading = z.c.is_reading
          /\ d.state = z.c.state /\ d.frame = z.c.frame /\ d.remaining = z.c.remaining
          /\ d.fragment = z.c.fragment /\ d.message = z.c.message
          /\ d.sending_buffers = z.c.sending_buffers /\ d.write_buffers = z.c.write_buffers
          /\ d.has_sent_close = z.c.has_sent_close /\ d.has_recv_close = z.c.has_recv_close
      BY <2>1, <2>2 DEF Conn
    <2>5. PICK y : y = [z EXCEPT !.c.obj = "deleted"]
      OBVIOUS
    <2>6. y = [z EXCEPT !.c = d]
      BY <2>1, <2>5
    <2>7. y \in State /\ y.c = d /\ y.rd = z.rd /\ y.wr = z.wr /\ y.log = z.log
      BY <1>2, <2>4, <2>6 DEF State
    <2>8. /\ y.c.is_reading = FALSE /\ y.c.sending_buffers = <<>>
          /\ y.c.write_buffers = z.c.write_buffers
          /\ y.c.has_sent_close = z.c.has_sent_close /\ y.c.has_recv_close = z.c.has_recv_close
      BY <1>4, <2>3, <2>4, <2>7
    <2>9. Ends(y)
      BY <1>2, <1>4, <2>3, <2>7, <2>8, Zenon DEF Ends
    <2>10. Reader(y) = Reader(z)
      BY <2>4, <2>7 DEF Reader
    <2>11. check_destroy(x) = y
      BY <1>3, <1>4, <2>5, Zenon
    <2> QED
      BY <1>2, <2>7, <2>8, <2>9, <2>10, <2>11, Zenon
  <1>5. CASE ~(z.c.sending_buffers = <<>> /\ ~z.c.is_reading)
    <2>1. check_destroy(x) = z
      BY <1>3, <1>5, Zenon
    <2> QED
      BY <1>2, <2>1, Zenon
  <1> QED
    BY <1>4, <1>5

-----------------------------------------------------------------------------
(* The member functions that read. *)

\* do_read().
LEMMA DoReadKeeps ==
  ASSUME NEW x \in State, Ends(x),
         x.c.obj = "deleted" => x.c.has_sent_close = TRUE /\ x.c.has_recv_close = TRUE
  PROVE  LET y == do_read(x)
         IN  /\ y \in State /\ Ends(y)
             /\ y.c.state = x.c.state /\ y.c.frame = x.c.frame
             /\ y.c.remaining = x.c.remaining /\ y.c.fragment = x.c.fragment
             /\ y.c.message = x.c.message /\ y.log.got = x.log.got
             /\ y.log.handled = x.log.handled /\ y.log.called = x.log.called
             /\ y.log.split = x.log.split
             /\ y.rd = x.rd \/ y.rd = "pending"
  <1>1. x.c \in Conn /\ x.log \in Log
    BY DEF State
  <1>2. CASE x.c.obj = "deleted"
    <2>1. PICK l : l = [x.log EXCEPT !.touched = TRUE]
      OBVIOUS
    <2>2. /\ l \in Log /\ l.called = x.log.called /\ l.handed = x.log.handed
          /\ l.got = x.log.got /\ l.handled = x.log.handled /\ l.split = x.log.split
      BY <1>1, <2>1 DEF Log
    <2>3. PICK y : y = [x EXCEPT !.log = l]
      OBVIOUS
    <2>4. do_read(x) = y
      BY <1>2, <2>1, <2>3 DEF do_read
    <2>5. y \in State /\ y.c = x.c /\ y.rd = x.rd /\ y.wr = x.wr /\ y.log = l
      BY <2>2, <2>3 DEF State
    <2>6. Ends(y)
      <3>1. y.log.called = x.log.called /\ y.log.handed = x.log.handed
        BY <2>2, <2>5
      <3> QED
        BY <1>2, <2>5, <3>1, Zenon DEF Ends
    <2> QED
      BY <2>2, <2>4, <2>5, <2>6
  <1>3. CASE x.c.obj # "deleted"
    <2>1. PICK d : d = [x.c EXCEPT !.is_reading = TRUE]
      OBVIOUS
    <2>2. /\ d \in Conn /\ d.obj = x.c.obj /\ d.is_reading = TRUE
          /\ d.state = x.c.state /\ d.frame = x.c.frame /\ d.remaining = x.c.remaining
          /\ d.fragment = x.c.fragment /\ d.message = x.c.message
          /\ d.sending_buffers = x.c.sending_buffers /\ d.write_buffers = x.c.write_buffers
          /\ d.has_sent_close = x.c.has_sent_close /\ d.has_recv_close = x.c.has_recv_close
      BY <1>1, <2>1 DEF Conn
    <2>3. PICK y : y = [x EXCEPT !.c = d, !.rd = "pending"]
      OBVIOUS
    <2>4. do_read(x) = y
      BY <1>3, <2>1, <2>3 DEF do_read
    <2>5. y \in State /\ y.c = d /\ y.rd = "pending" /\ y.wr = x.wr /\ y.log = x.log
      BY <2>2, <2>3 DEF State, Reads
    <2>6. Ends(y)
      <3>1. /\ y.c.obj = x.c.obj /\ y.c.is_reading = TRUE
            /\ y.c.sending_buffers = x.c.sending_buffers
            /\ y.c.write_buffers = x.c.write_buffers
            /\ y.c.has_sent_close = x.c.has_sent_close
            /\ y.c.has_recv_close = x.c.has_recv_close
        BY <2>2, <2>5
      <3>2. y.rd # "none" /\ TRUE # FALSE
        BY <2>5
      <3> QED
        BY <1>3, <2>5, <3>1, <3>2, Zenon DEF Ends
    <2> QED
      BY <2>2, <2>4, <2>5, <2>6
  <1> QED
    BY <1>2, <1>3

-----------------------------------------------------------------------------
(* The frames and what becomes of them. *)

DataOps == {"continuation", "text", "binary"}

\* The places in s of the frames of some kinds.
Places(s, ops) == {k \in DOMAIN s : s[k].op \in ops}

PongPlaces(s) == {k \in DOMAIN s : s[k].header.op = "pong"}

\* The frame whose header was read is the first one not read to its end, and
\* a payload is read from its beginning.
Framed(x, q) ==
  /\ x.rd = "data" => q # <<>>
  /\ x.c.state # "MiniHeader" => q # <<>> /\ x.c.frame = Head(q)
  /\ x.rd # "none" =>
       /\ x.c.fragment = <<>>
       /\ x.c.state \in {"Mask", "Payload"} => x.c.remaining = Len(x.c.frame.body)

\* What the message handler gets for a frame.
Delivered(f) == [body |-> f.body, binary |-> f.op = "binary"]

\* The peer has sent whole messages only, and no header came in two parts.
Whole(l) ==
  /\ l.split = FALSE
  /\ \A k \in Places(l.handled, DataOps) :
       l.handled[k].fin = TRUE /\ l.handled[k].op # "continuation"

\* As long as there were only whole messages, all of them were delivered and
\* nothing is left of the last one.
AllDelivered(l, m) ==
  Whole(l) =>
    /\ m = <<>>
    /\ \E f \in [Places(l.handled, DataOps) -> DOMAIN l.got] :
         /\ InOrder(f, Places(l.handled, DataOps), DOMAIN l.got)
         /\ \A k \in Places(l.handled, DataOps) : l.got[f[k]] = Delivered(l.handled[k])

\* Every ping has its pong.
AllAnswered(l) ==
  \E f \in [Places(l.handled, {"ping"}) -> PongPlaces(l.called)] :
    /\ InOrder(f, Places(l.handled, {"ping"}), PongPlaces(l.called))
    /\ \A k \in Places(l.handled, {"ping"}) : l.called[f[k]].body = l.handled[k].body

\* All of this for the connection x and the frames q not yet read.
Good(x, q) ==
  /\ x \in State /\ q \in Seq(AFrame)
  /\ Ends(x)
  /\ Framed(x, q)
  /\ AllDelivered(x.log, x.c.message)
  /\ AllAnswered(x.log)

\* The inductive invariant.
WsInv == Good(Now, inbox)

\* m is a number beyond all of K.
Beyond(K, m) == K \subseteq Nat /\ m \in Nat /\ \A k \in K : k < m

\* g matches in order what f matches, and m with n.
Grows(g, f, K, L, m, n) ==
  /\ g \in [K \cup {m} -> L \cup {n}] /\ InOrder(g, K \cup {m}, L \cup {n})
  /\ g[m] = n /\ \A k \in K : g[k] = f[k]

\* An order-preserving matching grows by a pair beyond all the others.
LEMMA OrderGrows ==
  ASSUME NEW K, NEW L, NEW f \in [K -> L], InOrder(f, K, L),
         NEW m, NEW n, Beyond(K, m), Beyond(L, n)
  PROVE  \E g : Grows(g, f, K, L, m, n)
  <1>0. /\ K \subseteq Nat /\ m \in Nat /\ \A k \in K : k < m
        /\ L \subseteq Nat /\ n \in Nat /\ \A k \in L : k < n
    BY DEF Beyond
  <1> DEFINE g == [k \in K \cup {m} |-> IF k = m THEN n ELSE f[k]]
  <1>1. m \notin K
    BY <1>0
  <1>2. g[m] = n /\ \A k \in K : g[k] = f[k]
    BY <1>1
  <1>3. g \in [K \cup {m} -> L \cup {n}]
    OBVIOUS
  <1>4. ASSUME NEW j \in K \cup {m}, NEW k \in K \cup {m}, j < k
        PROVE  g[j] < g[k]
    <2>1. j \in K
      BY <1>0, <1>4
    <2>2. CASE k \in K
      BY <1>2, <1>4, <2>1, <2>2 DEF InOrder
    <2>3. CASE k = m
      BY <1>0, <1>2, <2>1, <2>3
    <2> QED
      BY <2>2, <2>3
  <1>5. \A l \in L \cup {n} : \E k \in K \cup {m} : g[k] = l
    BY <1>2 DEF InOrder
  <1> HIDE DEF g
  <1>6. InOrder(g, K \cup {m}, L \cup {n})
    BY <1>4, <1>5 DEF InOrder
  <1> QED
    BY <1>2, <1>3, <1>6 DEF Grows

\* The places of a kind of frames when one more is handled.
LEMMA PlacesGrow ==
  ASSUME NEW s \in Seq(AFrame \cup {NoFrame}), NEW e \in AFrame, NEW ops
  PROVE  LET t == Append(s, e)
         IN  /\ e.op \in ops => Places(t, ops) = Places(s, ops) \cup {Len(s) + 1}
             /\ e.op \notin ops => Places(t, ops) = Places(s, ops)
             /\ Beyond(Places(s, ops), Len(s) + 1)
             /\ \A k \in Places(s, ops) : t[k] = s[k]
             /\ t[Len(s) + 1] = e
  <1> DEFINE t == Append(s, e)
  <1>1. /\ t \in Seq(AFrame \cup {NoFrame}) /\ Len(t) = Len(s) + 1
        /\ t[Len(s) + 1] = e /\ Len(s) \in Nat
        /\ \A k \in 1 .. Len(s) : t[k] = s[k]
        /\ DOMAIN s = 1 .. Len(s) /\ DOMAIN t = 1 .. Len(t)
    BY AppendProperties
  <1> HIDE DEF t
  <1>2. \A k : k \in DOMAIN t <=> k \in DOMAIN s \/ k = Len(s) + 1
    BY <1>1
  <1>3. \A k \in DOMAIN s : t[k] = s[k]
    BY <1>1
  <1>4. /\ e.op \in ops => Places(t, ops) = Places(s, ops) \cup {Len(s) + 1}
        /\ e.op \notin ops => Places(t, ops) = Places(s, ops)
    BY <1>1, <1>2, <1>3, Zenon DEF Places
  <1>5. Places(s, ops) \subseteq 1 .. Len(s)
    BY <1>1 DEF Places
  <1>6. Beyond(Places(s, ops), Len(s) + 1)
    BY <1>1, <1>5 DEF Beyond
  <1>7. \A k \in Places(s, ops) : t[k] = s[k]
    BY <1>1, <1>5
  <1> QED
    BY <1>1, <1>4, <1>6, <1>7 DEF t

\* The places of the pongs when one more buffer pair is queued.
LEMMA PongPlacesGrow ==
  ASSUME NEW s \in Seq(Sendable), NEW e \in Sendable
  PROVE  LET t == Append(s, e)
         IN  /\ e.header.op = "pong" => PongPlaces(t) = PongPlaces(s) \cup {Len(s) + 1}
             /\ e.header.op # "pong" => PongPlaces(t) = PongPlaces(s)
             /\ Beyond(PongPlaces(s), Len(s) + 1)
             /\ \A k \in PongPlaces(s) : t[k] = s[k]
             /\ t[Len(s) + 1] = e
  <1> DEFINE t == Append(s, e)
  <1>1. /\ t \in Seq(Sendable) /\ Len(t) = Len(s) + 1 /\ t[Len(s) + 1] = e /\ Len(s) \in Nat
        /\ \A k \in 1 .. Len(s) : t[k] = s[k]
        /\ DOMAIN s = 1 .. Len(s) /\ DOMAIN t = 1 .. Len(t)
    BY AppendProperties
  <1> HIDE DEF t
  <1>2. \A k : k \in DOMAIN t <=> k \in DOMAIN s \/ k = Len(s) + 1
    BY <1>1
  <1>3. \A k \in DOMAIN s : t[k] = s[k]
    BY <1>1
  <1>4. /\ e.header.op = "pong" => PongPlaces(t) = PongPlaces(s) \cup {Len(s) + 1}
        /\ e.header.op # "pong" => PongPlaces(t) = PongPlaces(s)
    BY <1>1, <1>2, <1>3, Zenon DEF PongPlaces
  <1>5. PongPlaces(s) \subseteq 1 .. Len(s)
    BY <1>1 DEF PongPlaces
  <1>6. Beyond(PongPlaces(s), Len(s) + 1)
    BY <1>1, <1>5 DEF Beyond
  <1>7. \A k \in PongPlaces(s) : t[k] = s[k]
    BY <1>1, <1>5
  <1> QED
    BY <1>1, <1>4, <1>6, <1>7 DEF t

\* A buffer pair that is no pong leaves the pings answered.
LEMMA AnswersStay ==
  ASSUME NEW l \in Log, NEW m \in Log, AllAnswered(l), m.handled = l.handled,
         \/ m.called = l.called
         \/ \E e \in Sendable : e.header.op # "pong" /\ m.called = Append(l.called, e)
  PROVE  AllAnswered(m)
  <1>1. l.called \in Seq(Sendable)
    BY DEF Log
  <1>2. /\ PongPlaces(m.called) = PongPlaces(l.called)
        /\ \A k \in PongPlaces(l.called) : m.called[k] = l.called[k]
    <2>1. CASE m.called = l.called
      BY <2>1
    <2>2. CASE m.called # l.called
      <3> PICK e \in Sendable : e.header.op # "pong" /\ m.called = Append(l.called, e)
        BY <2>2
      <3>1. PICK s : s = l.called /\ s \in Seq(Sendable)
        BY <1>1
      <3>2. LET t == Append(s, e)
            IN  /\ e.header.op = "pong" => PongPlaces(t) = PongPlaces(s) \cup {Len(s) + 1}
                /\ e.header.op # "pong" => PongPlaces(t) = PongPlaces(s)
                /\ Beyond(PongPlaces(s), Len(s) + 1)
                /\ \A k \in PongPlaces(s) : t[k] = s[k]
                /\ t[Len(s) + 1] = e
        BY <3>1, PongPlacesGrow
      <3> QED
        BY <2>2, <3>1, <3>2, Zenon
    <2> QED
      BY <2>1, <2>2
  <1>3. PICK K, L : K = Places(l.handled, {"ping"}) /\ L = PongPlaces(l.called)
    OBVIOUS
  <1>4. PICK f \in [K -> L] :
          InOrder(f, K, L) /\ \A k \in K : l.called[f[k]].body = l.handled[k].body
    BY <1>3, Zenon DEF AllAnswered
  <1>5. \A k \in K : m.called[f[k]].body = l.handled[k].body
    BY <1>2, <1>3, <1>4
  <1> QED
    <2>1. K = Places(m.handled, {"ping"}) /\ L = PongPlaces(m.called)
      BY <1>2, <1>3
    <2>2. \A k \in K : m.called[f[k]].body = m.handled[k].body
      BY <1>5
    <2> QED
      BY <1>4, <2>1, <2>2, Zenon DEF AllAnswered

\* handle_fragment() answers a ping and no other frame with a pong.
LEMMA AnsweredGrows ==
  ASSUME NEW l \in Log, NEW m \in Log, AllAnswered(l), NEW r \in AFrame,
         m.handled = Append(l.handled, r),
         r.op # "ping" => m.called = l.called,
         r.op = "ping" => \E e \in Sendable : /\ m.called = Append(l.called, e)
                                              /\ e.header.op = "pong" /\ e.body = r.body
  PROVE  AllAnswered(m)
  <1>1. l.called \in Seq(Sendable) /\ l.handled \in Seq(AFrame \cup {NoFrame})
    BY DEF Log
  <1>2. PICK K, L : K = Places(l.handled, {"ping"}) /\ L = PongPlaces(l.called)
    OBVIOUS
  <1>3. PICK f \in [K -> L] :
          InOrder(f, K, L) /\ \A k \in K : l.called[f[k]].body = l.handled[k].body
    BY <1>2, Zenon DEF AllAnswered
  <1>4. PICK i : i = Len(l.handled) + 1
    OBVIOUS
  <1>5. /\ r.op \in {"ping"} => Places(m.handled, {"ping"}) = K \cup {i}
        /\ r.op \notin {"ping"} => Places(m.handled, {"ping"}) = K
        /\ Beyond(K, i) /\ m.handled[i] = r /\ \A k \in K : m.handled[k] = l.handled[k]
    <2>1. PICK s, ops : s = l.handled /\ ops = {"ping"}
      OBVIOUS
    <2>2. s \in Seq(AFrame \cup {NoFrame})
      BY <1>1, <2>1
    <2>3. LET t == Append(s, r)
          IN  /\ r.op \in ops => Places(t, ops) = Places(s, ops) \cup {Len(s) + 1}
              /\ r.op \notin ops => Places(t, ops) = Places(s, ops)
              /\ Beyond(Places(s, ops), Len(s) + 1)
              /\ \A k \in Places(s, ops) : t[k] = s[k]
              /\ t[Len(s) + 1] = r
      BY <2>2, PlacesGrow, Zenon
    <2> QED
      BY <1>2, <1>4, <2>1, <2>3, Zenon
  <1>6. CASE r.op # "ping"
    <2>1. Places(m.handled, {"ping"}) = K /\ PongPlaces(m.called) = L
      BY <1>2, <1>5, <1>6
    <2>2. \A k \in K : m.called[f[k]].body = m.handled[k].body
      BY <1>3, <1>5, <1>6
    <2> QED
      BY <1>3, <2>1, <2>2, Zenon DEF AllAnswered
  <1>7. CASE r.op = "ping"
    <2>1. PICK e \in Sendable : /\ m.called = Append(l.called, e)
                                /\ e.header.op = "pong" /\ e.body = r.body
      BY <1>7
    <2>2. PICK n : n = Len(l.called) + 1
      OBVIOUS
    <2>3. /\ PongPlaces(m.called) = L \cup {n}
          /\ Beyond(L, n) /\ m.called[n] = e /\ \A k \in L : m.called[k] = l.called[k]
      <3>1. PICK s : s = l.called /\ s \in Seq(Sendable)
        BY <1>1
      <3>2. LET t == Append(s, e)
            IN  /\ e.header.op = "pong" => PongPlaces(t) = PongPlaces(s) \cup {Len(s) + 1}
                /\ e.header.op # "pong" => PongPlaces(t) = PongPlaces(s)
                /\ Beyond(PongPlaces(s), Len(s) + 1)
                /\ \A k \in PongPlaces(s) : t[k] = s[k]
                /\ t[Len(s) + 1] = e
        BY <3>1, <2>1, PongPlacesGrow
      <3> QED
        BY <1>2, <2>1, <2>2, <3>1, <3>2, Zenon
    <2>4. PICK M, N : M = K \cup {i} /\ N = L \cup {n}
      OBVIOUS
    <2>5. PICK g \in [M -> N] : InOrder(g, M, N) /\ g[i] = n /\ \A k \in K : g[k] = f[k]
      <3>1. \E g : Grows(g, f, K, L, i, n)
        BY <1>3, <1>5, <2>3, OrderGrows, Zenon
      <3> QED
        BY <2>4, <3>1 DEF Grows
    <2>6. Places(m.handled, {"ping"}) = M /\ PongPlaces(m.called) = N
      BY <1>5, <1>7, <2>3, <2>4
    <2>7. \A k \in M : m.called[g[k]].body = m.handled[k].body
      <3>1. m.called[g[i]].body = m.handled[i].body
        BY <1>5, <2>1, <2>3, <2>5
      <3>2. \A k \in K : m.called[g[k]].body = m.handled[k].body
        BY <1>3, <1>5, <2>3, <2>5
      <3> QED
        BY <2>4, <3>1, <3>2
    <2> QED
      BY <2>5, <2>6, <2>7, Zenon DEF AllAnswered
  <1> QED
    BY <1>6, <1>7

\* handle_fragment() delivers a whole message and no other frame.
LEMMA DeliveredGrows ==
  ASSUME NEW l \in Log, NEW m \in Log, NEW a, NEW b, AllDelivered(l, a), NEW r \in AFrame,
         m.handled = Append(l.handled, r), m.split = l.split,
         r.op \notin DataOps => b = a /\ m.got = l.got,
         r.op \in DataOps /\ r.fin = TRUE /\ r.op # "continuation" /\ a = <<>> =>
           b = <<>> /\ m.got = Append(l.got, Delivered(r))
  PROVE  AllDelivered(m, b)
  <1>1. l.got \in Seq(Message) /\ l.handled \in Seq(AFrame \cup {NoFrame})
    BY DEF Log
  <1>2. PICK K, L : K = Places(l.handled, DataOps) /\ L = DOMAIN l.got
    OBVIOUS
  <1>3. PICK i : i = Len(l.handled) + 1
    OBVIOUS
  <1>4. /\ r.op \in DataOps => Places(m.handled, DataOps) = K \cup {i}
        /\ r.op \notin DataOps => Places(m.handled, DataOps) = K
        /\ Beyond(K, i) /\ m.handled[i] = r /\ \A k \in K : m.handled[k] = l.handled[k]
    <2>1. PICK s, ops : s = l.handled /\ ops = DataOps
      OBVIOUS
    <2>2. s \in Seq(AFrame \cup {NoFrame})
      BY <1>1, <2>1
    <2>3. LET t == Append(s, r)
          IN  /\ r.op \in ops => Places(t, ops) = Places(s, ops) \cup {Len(s) + 1}
              /\ r.op \notin ops => Places(t, ops) = Places(s, ops)
              /\ Beyond(Places(s, ops), Len(s) + 1)
              /\ \A k \in Places(s, ops) : t[k] = s[k]
              /\ t[Len(s) + 1] = r
      BY <2>2, PlacesGrow, Zenon
    <2> QED
      BY <1>2, <1>3, <2>1, <2>3, Zenon
  <1> SUFFICES ASSUME Whole(m)
               PROVE  /\ b = <<>>
                      /\ \E f \in [Places(m.handled, DataOps) -> DOMAIN m.got] :
                           /\ InOrder(f, Places(m.handled, DataOps), DOMAIN m.got)
                           /\ \A k \in Places(m.handled, DataOps) :
                                m.got[f[k]] = Delivered(m.handled[k])
    BY DEF AllDelivered
  <1>5. \A k \in Places(m.handled, DataOps) :
          m.handled[k].fin = TRUE /\ m.handled[k].op # "continuation"
    BY DEF Whole
  <1>6. K \subseteq Places(m.handled, DataOps)
    BY <1>4
  <1>7. Whole(l)
    <2>1. l.split = FALSE
      BY DEF Whole
    <2> QED
      BY <1>2, <1>4, <1>5, <1>6, <2>1, Zenon DEF Whole
  <1>8. a = <<>>
    BY <1>7 DEF AllDelivered
  <1>9. PICK f \in [K -> L] :
          InOrder(f, K, L) /\ \A k \in K : l.got[f[k]] = Delivered(l.handled[k])
    BY <1>2, <1>7, Zenon DEF AllDelivered
  <1>10. CASE r.op \notin DataOps
    <2>1. Places(m.handled, DataOps) = K /\ DOMAIN m.got = L /\ b = <<>>
      BY <1>2, <1>4, <1>8, <1>10
    <2>2. \A k \in K : m.got[f[k]] = Delivered(m.handled[k])
      BY <1>4, <1>9, <1>10
    <2> QED
      BY <1>9, <2>1, <2>2, Zenon
  <1>11. CASE r.op \in DataOps
    <2>1. Places(m.handled, DataOps) = K \cup {i}
      BY <1>4, <1>11
    <2>2. r.fin = TRUE /\ r.op # "continuation"
      BY <1>4, <1>5, <2>1
    <2>3. b = <<>> /\ m.got = Append(l.got, Delivered(r))
      BY <1>8, <1>11, <2>2
    <2>4. PICK e : e = Delivered(r)
      OBVIOUS
    <2>5. e \in Message
      BY <2>4 DEF Delivered, Message, AFrame
    <2>6. PICK n : n = Len(l.got) + 1
      OBVIOUS
    <2>7. /\ m.got \in Seq(Message) /\ Len(m.got) = n /\ m.got[n] = e /\ n \in Nat
          /\ \A k \in 1 .. Len(l.got) : m.got[k] = l.got[k]
          /\ L = 1 .. Len(l.got) /\ DOMAIN m.got = 1 .. n
      BY <1>1, <1>2, <2>3, <2>4, <2>5, <2>6, AppendProperties
    <2>8. DOMAIN m.got = L \cup {n} /\ Beyond(L, n)
      BY <1>1, <2>6, <2>7 DEF Beyond
    <2>9. PICK M, N : M = K \cup {i} /\ N = L \cup {n}
      OBVIOUS
    <2>10. PICK g \in [M -> N] : InOrder(g, M, N) /\ g[i] = n /\ \A k \in K : g[k] = f[k]
      <3>1. \E g : Grows(g, f, K, L, i, n)
        BY <1>4, <1>9, <2>8, OrderGrows, Zenon
      <3> QED
        BY <2>9, <3>1 DEF Grows
    <2>11. \A k \in M : m.got[g[k]] = Delivered(m.handled[k])
      <3>1. m.got[g[i]] = Delivered(m.handled[i])
        BY <1>4, <2>4, <2>7, <2>10
      <3>2. \A k \in K : m.got[g[k]] = Delivered(m.handled[k])
        BY <1>4, <1>9, <2>7, <2>10
      <3> QED
        BY <2>9, <3>1, <3>2
    <2> QED
      BY <2>1, <2>3, <2>8, <2>9, <2>10, <2>11, Zenon
  <1> QED
    BY <1>10, <1>11

-----------------------------------------------------------------------------
(* The payload of a frame. *)

\* Unmasking turns the bytes of a fragment into bytes.
LEMMA UnmaskedBytes ==
  ASSUME NEW f \in Fragments
  PROVE  Unmasked(f) \in Seq(Byte)
  <1>1. PICK n \in Nat : DOMAIN f = 1 .. n /\ \A i \in 1 .. n : f[i].byte \in Byte
    <2>1. PICK B : B = [byte : Byte, place : Int]
      OBVIOUS
    <2>2. f \in Seq(B)
      BY <2>1 DEF Fragments
    <2>3. DOMAIN f = 1 .. Len(f) /\ Len(f) \in Nat /\ \A i \in 1 .. Len(f) : f[i] \in B
      BY <2>2
    <2> QED
      BY <2>1, <2>3
  <1>2. PICK g : g = Unmasked(f)
    OBVIOUS
  <1>3. g = [i \in 1 .. n |-> IF f[i].place = i % 4 THEN f[i].byte ELSE "garbage"]
    BY <1>1, <1>2 DEF Unmasked
  <1>4. g \in [1 .. n -> Byte]
    BY <1>1, <1>3 DEF Byte
  <1> QED
    BY <1>2, <1>4, SeqDef

\* The n bytes that follow a mask, each at its place.
Arrived(body, n) == [i \in 1 .. n |-> [byte |-> body[i], place |-> i % 4]]

\* They make a fragment.
LEMMA ArrivedBytes ==
  ASSUME NEW body \in Seq(Byte), NEW n \in Nat, n <= Len(body)
  PROVE  Arrived(body, n) \in Fragments
  <1>1. \A i \in 1 .. n : body[i] \in Byte /\ i % 4 \in Int
    OBVIOUS
  <1>2. PICK g : g = Arrived(body, n)
    OBVIOUS
  <1>3. g \in [1 .. n -> [byte : Byte, place : Int]]
    BY <1>1, <1>2 DEF Arrived
  <1> QED
    <2>1. PICK B : B = [byte : Byte, place : Int]
      OBVIOUS
    <2>2. g \in [1 .. n -> B]
      BY <1>3, <2>1, Zenon
    <2>3. g \in Seq(B)
      BY <2>2, SeqDef
    <2> QED
      BY <1>2, <2>1, <2>3 DEF Fragments

\* A payload that arrived at once is unmasked to what the peer sent.
LEMMA PayloadUnmasked ==
  ASSUME NEW body \in Seq(Byte)
  PROVE  Unmasked(<<>> \o Arrived(body, Len(body))) = body
  <1>1. PICK n : n = Len(body) /\ n \in Nat
    OBVIOUS
  <1>2. PICK g : g = Arrived(body, n)
    OBVIOUS
  <1>3. g \in Fragments
    BY <1>1, <1>2, ArrivedBytes
  <1>4. <<>> \o g = g
    BY <1>3, ConcatEmptySeq DEF Fragments
  <1>5. DOMAIN g = 1 .. n /\ \A i \in 1 .. n : g[i].byte = body[i] /\ g[i].place = i % 4
    BY <1>2 DEF Arrived
  <1>6. PICK u : u = Unmasked(g)
    OBVIOUS
  <1>7. u = [i \in 1 .. n |-> IF g[i].place = i % 4 THEN g[i].byte ELSE "garbage"]
    BY <1>5, <1>6, Zenon DEF Unmasked
  <1>8. \A i \in 1 .. n : u[i] = body[i]
    BY <1>5, <1>7, Zenon
  <1>9. u \in Seq(Byte)
    BY <1>3, <1>6, UnmaskedBytes
  <1>10. DOMAIN u = 1 .. n
    BY <1>7
  <1>11. DOMAIN body = 1 .. n
    BY <1>1
  <1>12. u = body
    <2>1. Len(u) = Len(body)
      BY <1>1, <1>9, <1>10
    <2> QED
      BY <1>1, <1>8, <1>9, <2>1, SeqEqual
  <1> QED
    BY <1>1, <1>2, <1>4, <1>6, <1>12

-----------------------------------------------------------------------------
(* handle_fragment(). *)

\* What handing a fragment to the message leaves alone.
Kept(x, y) ==
  /\ y \in State /\ Ends(y) /\ y.c.obj = x.c.obj /\ y.c.frame = x.c.frame
  /\ y.c.fragment = x.c.fragment /\ y.rd = x.rd
  /\ y.log.called = x.log.called /\ y.log.handled = x.log.handled /\ y.log.split = x.log.split

\* The fragment joins the message, which is delivered if the frame ends it.
LEMMA DeliverKeeps ==
  ASSUME NEW x \in State, Ends(x)
  PROVE  /\ Kept(x, Deliver(x))
         /\ x.c.frame.fin = TRUE =>
              /\ Deliver(x).c.message = <<>>
              /\ Deliver(x).log.got =
                   Append(x.log.got, [body   |-> x.c.message \o Unmasked(x.c.fragment),
                                      binary |-> x.c.is_binary])
  <1>1. /\ x.c \in Conn /\ x.log \in Log /\ x.c.message \in Seq(Byte)
        /\ x.c.fragment \in Fragments /\ x.c.is_binary \in BOOLEAN /\ x.log.got \in Seq(Message)
    BY DEF State, Conn, Log
  <1>2. PICK w : w = x.c.message \o Unmasked(x.c.fragment)
    OBVIOUS
  <1>3. w \in Seq(Byte)
    BY <1>1, <1>2, UnmaskedBytes, ConcatProperties
  <1>4. PICK d : d = [x.c EXCEPT !.message = w]
    OBVIOUS
  <1>5. /\ d \in Conn /\ d.message = w /\ d.is_binary = x.c.is_binary
        /\ d.obj = x.c.obj /\ d.is_reading = x.c.is_reading /\ d.frame = x.c.frame
        /\ d.fragment = x.c.fragment /\ d.sending_buffers = x.c.sending_buffers
        /\ d.write_buffers = x.c.write_buffers
        /\ d.has_sent_close = x.c.has_sent_close /\ d.has_recv_close = x.c.has_recv_close
    BY <1>1, <1>3, <1>4 DEF Conn
  <1>6. PICK m : m = [x EXCEPT !.c = d]
    OBVIOUS
  <1>7. m \in State /\ m.c = d /\ m.rd = x.rd /\ m.wr = x.wr /\ m.log = x.log
    BY <1>5, <1>6 DEF State
  <1>8. m = [x EXCEPT !.c.message = @ \o Unmasked(x.c.fragment)]
    BY <1>2, <1>4, <1>6
  <1>9. CASE x.c.frame.fin
    <2>1. PICK e : e = [d EXCEPT !.message = <<>>]
      OBVIOUS
    <2>2. <<>> \in Seq(Byte)
      OBVIOUS
    <2>3. /\ e \in Conn /\ e.message = <<>>
          /\ e.obj = d.obj /\ e.is_reading = d.is_reading /\ e.frame = d.frame
          /\ e.fragment = d.fragment /\ e.sending_buffers = d.sending_buffers
          /\ e.write_buffers = d.write_buffers
          /\ e.has_sent_close = d.has_sent_close /\ e.has_recv_close = d.has_recv_close
      BY <1>5, <2>1, <2>2 DEF Conn
    <2>4. PICK a : a = [body |-> w, binary |-> x.c.is_binary]
      OBVIOUS
    <2>5. a \in Message
      BY <1>1, <1>3, <2>4 DEF Message
    <2>6. PICK g : g = Append(x.log.got, a)
      OBVIOUS
    <2>7. g \in Seq(Message)
      BY <1>1, <2>5, <2>6, AppendProperties
    <2>8. PICK l : l = [x.log EXCEPT !.got = g]
      OBVIOUS
    <2>9. /\ l \in Log /\ l.got = g /\ l.called = x.log.called /\ l.handed = x.log.handed
          /\ l.handled = x.log.handled /\ l.split = x.log.split /\ l.touched = x.log.touched
      BY <1>1, <2>7, <2>8 DEF Log
    <2>10. PICK y : y = [m EXCEPT !.log = l, !.c = e]
      OBVIOUS
    <2>11. y \in State /\ y.c = e /\ y.rd = x.rd /\ y.wr = x.wr /\ y.log = l
      BY <1>7, <2>3, <2>9, <2>10 DEF State
    <2>12. Deliver(x) = y
      <3>1. Deliver(x) =
              [m EXCEPT !.log.got = Append(@, [body |-> m.c.message, binary |-> m.c.is_binary]),
                        !.c.message = <<>>]
        BY <1>8, <1>9, Zenon DEF Deliver
      <3>2. [body |-> m.c.message, binary |-> m.c.is_binary] = a
        BY <1>5, <1>7, <2>4
      <3>3. Deliver(x) = [m EXCEPT !.log.got = Append(@, a), !.c.message = <<>>]
        BY <3>1, <3>2, Zenon
      <3>4. [m EXCEPT !.log.got = Append(@, a), !.c.message = <<>>]
              = [m EXCEPT !.log = [m.log EXCEPT !.got = Append(m.log.got, a)],
                          !.c = [m.c EXCEPT !.message = <<>>]]
        BY <1>7 DEF State
      <3> QED
        BY <1>7, <2>1, <2>6, <2>8, <2>10, <3>3, <3>4, Zenon
    <2>13. /\ y.c.obj = x.c.obj /\ y.c.is_reading = x.c.is_reading
           /\ y.c.sending_buffers = x.c.sending_buffers
           /\ y.c.write_buffers = x.c.write_buffers
           /\ y.c.has_sent_close = x.c.has_sent_close
           /\ y.c.has_recv_close = x.c.has_recv_close
           /\ y.log.called = x.log.called /\ y.log.handed = x.log.handed
           /\ y.log.touched = x.log.touched
      BY <1>5, <2>3, <2>9, <2>11, Zenon
    <2>14. Ends(y)
      BY <2>11, <2>13, Zenon DEF Ends
    <2>15. Kept(x, y)
      BY <1>5, <2>3, <2>9, <2>11, <2>13, <2>14, Zenon DEF Kept
    <2> QED
      BY <1>2, <2>3, <2>4, <2>6, <2>9, <2>11, <2>12, <2>15, Zenon
  <1>10. CASE ~x.c.frame.fin
    <2>1. Deliver(x) = m
      BY <1>8, <1>10, Zenon DEF Deliver
    <2>2. /\ m.c.obj = x.c.obj /\ m.c.is_reading = x.c.is_reading
          /\ m.c.sending_buffers = x.c.sending_buffers
          /\ m.c.write_buffers = x.c.write_buffers
          /\ m.c.has_sent_close = x.c.has_sent_close
          /\ m.c.has_recv_close = x.c.has_recv_close
      BY <1>5, <1>7, Zenon
    <2>3. Ends(m)
      BY <1>7, <2>2, Zenon DEF Ends
    <2>4. Kept(x, m)
      BY <1>5, <1>7, <2>3, Zenon DEF Kept
    <2>5. x.c.frame.fin # TRUE
      BY <1>10
    <2> QED
      BY <2>1, <2>4, <2>5, Zenon
  <1> QED
    BY <1>9, <1>10

\* The kind of the message is noted.
LEMMA KindSet ==
  ASSUME NEW x \in State, Ends(x), NEW b \in BOOLEAN
  PROVE  LET y == [x EXCEPT !.c.is_binary = b]
         IN  /\ Kept(x, y) /\ y.c.is_binary = b /\ y.c.message = x.c.message
             /\ y.log = x.log
  <1>1. x.c \in Conn
    BY DEF State
  <1>2. PICK d : d = [x.c EXCEPT !.is_binary = b]
    OBVIOUS
  <1>3. FlagsOnly(x.c, d) /\ d.is_binary = b
    BY <1>1, <1>2 DEF FlagsOnly, Conn
  <1>4. PICK y : y = [x EXCEPT !.c = d]
    OBVIOUS
  <1>5. /\ y \in State /\ (Ends(x) => Ends(y)) /\ y.rd = x.rd /\ y.log = x.log /\ y.c = d
    BY <1>3, <1>4, FlagsSet
  <1>6. Kept(x, y) /\ y.c.is_binary = b /\ y.c.message = x.c.message
    BY <1>3, <1>5, Zenon DEF Kept, FlagsOnly
  <1>7. y = [x EXCEPT !.c.is_binary = b]
    BY <1>2, <1>4
  <1> QED
    BY <1>5, <1>6, <1>7

\* What the switch of handle_fragment() does for the frame of x.
Handles(x, y) ==
  /\ y \in State /\ Ends(y) /\ y.rd = x.rd
  /\ y.c.obj = "deleted" => y.c.has_sent_close = TRUE /\ y.c.has_recv_close = TRUE
  /\ y.log.handled = x.log.handled /\ y.log.split = x.log.split
  /\ x.c.frame.op \notin DataOps => y.c.message = x.c.message /\ y.log.got = x.log.got
  /\ (x.c.frame.op \in DataOps /\ x.c.frame.fin = TRUE /\ x.c.frame.op # "continuation"
        /\ x.c.message = <<>>)
       => y.c.message = <<>> /\ y.log.got = Append(x.log.got, Delivered(x.c.frame))
  /\ x.c.frame.op # "ping" =>
       \/ y.log.called = x.log.called
       \/ \E e \in Sendable : e.header.op # "pong" /\ y.log.called = Append(x.log.called, e)
  /\ x.c.frame.op = "ping" =>
       \E e \in Sendable : /\ y.log.called = Append(x.log.called, e)
                           /\ e.header.op = "pong" /\ e.body = x.c.frame.body

\* The case of a text and the one of a binary message.
LEMMA MessageHandled ==
  ASSUME NEW x \in State, Ends(x), x.c.obj = "live", x.c.frame.op \in {"text", "binary"},
         Unmasked(x.c.fragment) = x.c.frame.body, x.c.frame.body \in Seq(Byte),
         NEW b \in BOOLEAN, b = (x.c.frame.op = "binary")
  PROVE  Handles(x, Deliver([x EXCEPT !.c.is_binary = b]))
  <1>1. PICK u : u = [x EXCEPT !.c.is_binary = b]
    OBVIOUS
  <1>2. /\ Kept(x, u) /\ u.c.is_binary = b /\ u.c.message = x.c.message /\ u.log = x.log
    BY <1>1, KindSet
  <1>3. PICK y : y = Deliver(u)
    OBVIOUS
  <1>4. u \in State /\ Ends(u)
    BY <1>2 DEF Kept
  <1>5. /\ Kept(u, y)
        /\ u.c.frame.fin = TRUE =>
             /\ y.c.message = <<>>
             /\ y.log.got = Append(u.log.got, [body   |-> u.c.message \o Unmasked(u.c.fragment),
                                               binary |-> u.c.is_binary])
    BY <1>3, <1>4, DeliverKeeps
  <1>6. u.c.frame = x.c.frame /\ u.c.fragment = x.c.fragment
    BY <1>2 DEF Kept
  <1>7. x.c.frame.fin = TRUE /\ x.c.message = <<>> =>
          y.c.message = <<>> /\ y.log.got = Append(x.log.got, Delivered(x.c.frame))
    <2> SUFFICES ASSUME x.c.frame.fin = TRUE, x.c.message = <<>>
                 PROVE  y.c.message = <<>> /\ y.log.got = Append(x.log.got, Delivered(x.c.frame))
      OBVIOUS
    <2>1. <<>> \o x.c.frame.body = x.c.frame.body
      BY ConcatEmptySeq
    <2>2. Delivered(x.c.frame) = [body |-> x.c.frame.body, binary |-> b]
      BY DEF Delivered
    <2>3. u.c.message \o Unmasked(u.c.fragment) = x.c.frame.body /\ u.c.is_binary = b
      BY <1>2, <1>6, <2>1
    <2>4. u.log.got = x.log.got /\ u.c.frame.fin = TRUE
      BY <1>2, <1>6
    <2> QED
      BY <1>5, <2>2, <2>3, <2>4
  <1>8. y.c.obj # "deleted"
    BY <1>2, <1>5 DEF Kept
  <1>9. /\ y \in State /\ Ends(y) /\ y.rd = x.rd
        /\ y.log.handled = x.log.handled /\ y.log.split = x.log.split
        /\ y.log.called = x.log.called
    BY <1>2, <1>5, Zenon DEF Kept
  <1>10. x.c.frame.op \in DataOps /\ x.c.frame.op # "ping"
    BY DEF DataOps
  <1>11. Handles(x, y)
    BY <1>7, <1>8, <1>9, <1>10, Zenon DEF Handles
  <1> QED
    BY <1>1, <1>3, <1>11

\* The case of a continuation, which is the one of a text as well.
LEMMA ContinuationHandled ==
  ASSUME NEW x \in State, Ends(x), x.c.obj = "live", x.c.frame.op = "continuation"
  PROVE  Handles(x, Deliver([Deliver(x) EXCEPT !.c.is_binary = FALSE]))
  <1>1. PICK v : v = Deliver(x)
    OBVIOUS
  <1>2. Kept(x, v)
    BY <1>1, DeliverKeeps
  <1>3. v \in State /\ Ends(v)
    BY <1>2 DEF Kept
  <1>4. PICK u : u = [v EXCEPT !.c.is_binary = FALSE]
    OBVIOUS
  <1>5. Kept(v, u)
    BY <1>3, <1>4, KindSet
  <1>6. u \in State /\ Ends(u)
    BY <1>5 DEF Kept
  <1>7. PICK y : y = Deliver(u)
    OBVIOUS
  <1>8. Kept(u, y)
    BY <1>6, <1>7, DeliverKeeps
  <1>9. y.c.obj = "live"
    BY <1>2, <1>5, <1>8 DEF Kept
  <1>10. /\ y \in State /\ Ends(y) /\ y.rd = x.rd
         /\ y.log.handled = x.log.handled /\ y.log.split = x.log.split
         /\ y.log.called = x.log.called
    BY <1>2, <1>5, <1>8, Zenon DEF Kept
  <1>11. y.c.obj # "deleted" /\ x.c.frame.op \in DataOps /\ x.c.frame.op # "ping"
    BY <1>9 DEF DataOps
  <1>12. Handles(x, y)
    BY <1>10, <1>11, Zenon DEF Handles
  <1> QED
    BY <1>1, <1>4, <1>7, <1>12

\* The case of a ping.
LEMMA PingHandled ==
  ASSUME NEW x \in State, Ends(x), x.c.obj = "live", x.c.frame.op = "ping",
         NEW body \in Seq(Byte), body = x.c.frame.body
  PROVE  Handles(x, send_pong(x, body))
  <1>1. PICK y : y = send_pong(x, body)
    OBVIOUS
  <1>2. /\ Wrote(x, y)
        /\ \E f \in Sendable : /\ y.log.called = Append(x.log.called, f)
                               /\ f.header.op = "pong" /\ f.body = body
    BY <1>1, SendPongKeeps
  <1>3. /\ y \in State /\ Ends(y) /\ y.rd = x.rd
        /\ y.log.handled = x.log.handled /\ y.log.split = x.log.split
        /\ y.log.got = x.log.got /\ y.c.message = x.c.message
    BY <1>2 DEF Wrote, Reader
  <1>4. y.c.obj # "deleted" /\ x.c.frame.op \notin DataOps
    BY <1>2 DEF Wrote, DataOps
  <1>5. Handles(x, y)
    BY <1>2, <1>3, <1>4, Zenon DEF Handles
  <1> QED
    BY <1>1, <1>5

\* The case of a pong.
LEMMA PongHandled ==
  ASSUME NEW x \in State, Ends(x), x.c.obj = "live", x.c.frame.op = "pong"
  PROVE  Handles(x, x)
  <1>1. x.c.obj # "deleted" /\ x.c.frame.op \notin DataOps /\ x.c.frame.op # "ping"
    BY DEF DataOps
  <1> QED
    BY <1>1, Zenon DEF Handles

\* The case of a close, asked for by the peer or in answer to this side's.
LEMMA CloseHandled ==
  ASSUME NEW x \in State, Ends(x), x.c.obj = "live", x.c.frame.op = "close",
         NEW body \in Seq(Byte)
  PROVE  LET z == [x EXCEPT !.c.has_recv_close = TRUE]
             closed == [z EXCEPT !.c.open = FALSE, !.c.close_connection = TRUE]
             told == IF z.c.is_close_handler_called THEN closed
                     ELSE [close_handler(closed) EXCEPT !.c.is_close_handler_called = TRUE]
         IN  Handles(x, IF z.c.has_sent_close THEN check_destroy(told) ELSE close(z, body))
  <1> DEFINE z == [x EXCEPT !.c.has_recv_close = TRUE]
             closed == [z EXCEPT !.c.open = FALSE, !.c.close_connection = TRUE]
             told == IF z.c.is_close_handler_called THEN closed
                     ELSE [close_handler(closed) EXCEPT !.c.is_close_handler_called = TRUE]
  <1> SUFFICES Handles(x, IF z.c.has_sent_close THEN check_destroy(told) ELSE close(z, body))
    BY Zenon
  <1> HIDE DEF z, closed, told
  <1>1. x.c \in Conn /\ x.log \in Log
    BY DEF State
  <1>2. PICK d : d = [x.c EXCEPT !.has_recv_close = TRUE]
    OBVIOUS
  <1>3. FlagsOnly(x.c, d) /\ d.has_recv_close = TRUE
    BY <1>1, <1>2 DEF FlagsOnly, Conn
  <1>4. z = [x EXCEPT !.c = d]
    BY <1>2 DEF z
  <1>5. /\ z \in State /\ Reader(z) = Reader(x) /\ Ends(z) /\ z.rd = x.rd
        /\ z.log = x.log /\ z.c = d
    <2>1. LET v == [x EXCEPT !.c = d]
          IN  /\ v \in State /\ Reader(v) = Reader(x) /\ (Ends(x) => Ends(v))
              /\ v.rd = x.rd /\ v.wr = x.wr /\ v.log = x.log /\ v.c = d
      BY <1>3, FlagsSet, Zenon
    <2> QED
      BY <1>4, <2>1, Zenon
  <1>6. z.c.obj = "live" /\ z.c \in Conn /\ z.c.has_recv_close = TRUE
    BY <1>3, <1>5 DEF FlagsOnly
  <1>7. x.c.frame.op \notin DataOps /\ x.c.frame.op # "ping"
    BY DEF DataOps
  <1>8. CASE z.c.has_sent_close
    <2>1. z.c.has_sent_close = TRUE
      BY <1>6, <1>8 DEF Conn
    <2>2. PICK e : e = [z.c EXCEPT !.open = FALSE, !.close_connection = TRUE]
      OBVIOUS
    <2>3. FlagsOnly(z.c, e)
      BY <1>6, <2>2 DEF FlagsOnly, Conn
    <2>4. closed = [z EXCEPT !.c = e]
      BY <1>5, <2>2 DEF State, closed
    <2>5. /\ closed \in State /\ Reader(closed) = Reader(z) /\ Ends(closed)
          /\ closed.log = z.log /\ closed.c = e
      <3>1. LET v == [z EXCEPT !.c = e]
            IN  /\ v \in State /\ Reader(v) = Reader(z) /\ (Ends(z) => Ends(v))
                /\ v.rd = z.rd /\ v.wr = z.wr /\ v.log = z.log /\ v.c = e
        BY <1>5, <2>3, FlagsSet, Zenon
      <3> QED
        BY <1>5, <2>4, <3>1, Zenon
    <2>6. e.has_sent_close = TRUE /\ e.has_recv_close = TRUE
      BY <1>6, <2>1, <2>3 DEF FlagsOnly
    <2>7. PICK h : h = close_handler(closed)
      OBVIOUS
    <2>8. /\ h \in State /\ h.c = e /\ Reader(h) = Reader(closed) /\ Ends(h)
          /\ h.log.called = closed.log.called
      BY <2>5, <2>7, CloseHandlerKeeps
    <2>9. PICK g : g = [h.c EXCEPT !.is_close_handler_called = TRUE]
      OBVIOUS
    <2>10. h.c \in Conn
      BY <2>8 DEF State
    <2>11. FlagsOnly(h.c, g)
      BY <2>9, <2>10 DEF FlagsOnly, Conn
    <2>12. PICK k : k = [h EXCEPT !.c = g]
      OBVIOUS
    <2>13. k \in State /\ Reader(k) = Reader(h) /\ Ends(k) /\ k.log = h.log /\ k.c = g
      BY <2>8, <2>11, <2>12, FlagsSet
    <2>14. g.has_sent_close = TRUE /\ g.has_recv_close = TRUE
      BY <2>6, <2>8, <2>11 DEF FlagsOnly
    <2>15. told = closed \/ told = k
      <3>1. k = [h EXCEPT !.c.is_close_handler_called = TRUE]
        BY <2>9, <2>12
      <3> QED
        BY <2>7, <3>1, Zenon DEF told
    <2>16. /\ told \in State /\ Reader(told) = Reader(x) /\ Ends(told)
           /\ told.log.called = x.log.called
           /\ told.c.has_sent_close = TRUE /\ told.c.has_recv_close = TRUE
      <3>1. CASE told = closed
        BY <1>5, <2>5, <2>6, <3>1, Zenon
      <3>2. CASE told = k
        BY <1>5, <2>5, <2>8, <2>13, <2>14, <3>2, Zenon
      <3> QED
        BY <2>15, <3>1, <3>2
    <2>17. PICK y : y = check_destroy(told)
      OBVIOUS
    <2>18. /\ y \in State /\ Ends(y) /\ Reader(y) = Reader(told)
           /\ y.c.has_sent_close = told.c.has_sent_close
           /\ y.c.has_recv_close = told.c.has_recv_close
           /\ y.log.called = told.log.called
      BY <2>16, <2>17, CheckDestroyKeeps
    <2>19. Reader(y) = Reader(x)
      BY <2>16, <2>18
    <2>20. /\ y.rd = x.rd /\ y.log.handled = x.log.handled /\ y.log.split = x.log.split
           /\ y.log.got = x.log.got /\ y.c.message = x.c.message
      BY <2>19 DEF Reader
    <2>21. Handles(x, y)
      BY <1>7, <2>16, <2>18, <2>20, Zenon DEF Handles
    <2> QED
      BY <1>8, <2>17, <2>21, Zenon
  <1>9. CASE ~z.c.has_sent_close
    <2>1. PICK y : y = close(z, body)
      OBVIOUS
    <2>2. /\ Wrote(z, y)
          /\ \E f \in Sendable : /\ y.log.called = Append(z.log.called, f)
                                 /\ f.header.op # "pong"
      BY <1>5, <1>6, <2>1, CloseKeeps
    <2>3. y.c.obj # "deleted" /\ Reader(y) = Reader(x)
      BY <1>5, <1>6, <2>2 DEF Wrote
    <2>4. /\ y.rd = x.rd /\ y.log.handled = x.log.handled /\ y.log.split = x.log.split
          /\ y.log.got = x.log.got /\ y.c.message = x.c.message
      BY <2>3 DEF Reader
    <2>5. y \in State /\ Ends(y)
      BY <2>2 DEF Wrote
    <2>6. Handles(x, y)
      BY <1>5, <1>7, <2>2, <2>3, <2>4, <2>5, Zenon DEF Handles
    <2> QED
      BY <1>9, <2>1, <2>6, Zenon
  <1> QED
    BY <1>8, <1>9

\* The fragment is cleared behind the switch.
LEMMA FragmentCleared ==
  ASSUME NEW y \in State, Ends(y), NEW r \in AFrame
  PROVE  LET z == [y EXCEPT !.c.fragment = <<>>, !.log.handled = Append(@, r)]
         IN  /\ z \in State /\ Ends(z) /\ z.rd = y.rd /\ z.c.fragment = <<>>
             /\ z.c.message = y.c.message /\ z.c.obj = y.c.obj
             /\ z.c.has_sent_close = y.c.has_sent_close
             /\ z.c.has_recv_close = y.c.has_recv_close
             /\ z.log.handled = Append(y.log.handled, r) /\ z.log.called = y.log.called
             /\ z.log.got = y.log.got /\ z.log.split = y.log.split
  <1>1. y.c \in Conn /\ y.log \in Log /\ y.log.handled \in Seq(AFrame \cup {NoFrame})
    BY DEF State, Log
  <1>2. PICK d : d = [y.c EXCEPT !.fragment = <<>>]
    OBVIOUS
  <1>3. <<>> \in Fragments
    BY DEF Fragments
  <1>4. /\ d \in Conn /\ d.fragment = <<>> /\ d.message = y.c.message
        /\ d.obj = y.c.obj /\ d.is_reading = y.c.is_reading
        /\ d.sending_buffers = y.c.sending_buffers /\ d.write_buffers = y.c.write_buffers
        /\ d.has_sent_close = y.c.has_sent_close /\ d.has_recv_close = y.c.has_recv_close
    BY <1>1, <1>2, <1>3 DEF Conn
  <1>5. PICK s : s = Append(y.log.handled, r)
    OBVIOUS
  <1>6. s \in Seq(AFrame \cup {NoFrame})
    BY <1>1, <1>5, AppendProperties
  <1>7. PICK l : l = [y.log EXCEPT !.handled = s]
    OBVIOUS
  <1>8. /\ l \in Log /\ l.handled = s /\ l.called = y.log.called /\ l.handed = y.log.handed
        /\ l.got = y.log.got /\ l.split = y.log.split /\ l.touched = y.log.touched
    BY <1>1, <1>6, <1>7 DEF Log
  <1>9. PICK z : z = [y EXCEPT !.c = d, !.log = l]
    OBVIOUS
  <1>10. z = [y EXCEPT !.c.fragment = <<>>, !.log.handled = Append(@, r)]
    <2>1. [y EXCEPT !.c.fragment = <<>>, !.log.handled = Append(@, r)]
            = [y EXCEPT !.c = [y.c EXCEPT !.fragment = <<>>],
                        !.log = [y.log EXCEPT !.handled = Append(y.log.handled, r)]]
      BY DEF State
    <2> QED
      BY <1>2, <1>5, <1>7, <1>9, <2>1, Zenon
  <1>11. z \in State /\ z.c = d /\ z.log = l /\ z.rd = y.rd /\ z.wr = y.wr
    BY <1>4, <1>8, <1>9 DEF State
  <1>12. /\ z.c.obj = y.c.obj /\ z.c.is_reading = y.c.is_reading
         /\ z.c.sending_buffers = y.c.sending_buffers /\ z.c.write_buffers = y.c.write_buffers
         /\ z.c.has_sent_close = y.c.has_sent_close /\ z.c.has_recv_close = y.c.has_recv_close
         /\ z.log.called = y.log.called /\ z.log.handed = y.log.handed
         /\ z.log.touched = y.log.touched
    BY <1>4, <1>8, <1>11, Zenon
  <1>13. Ends(z)
    BY <1>11, <1>12, Zenon DEF Ends
  <1>14. /\ z \in State /\ Ends(z) /\ z.rd = y.rd /\ z.c.fragment = <<>>
         /\ z.c.message = y.c.message /\ z.c.obj = y.c.obj
         /\ z.c.has_sent_close = y.c.has_sent_close
         /\ z.c.has_recv_close = y.c.has_recv_close
         /\ z.log.handled = Append(y.log.handled, r) /\ z.log.called = y.log.called
         /\ z.log.got = y.log.got /\ z.log.split = y.log.split
    BY <1>4, <1>5, <1>8, <1>11, <1>12, <1>13, Zenon
  <1> QED
    BY <1>10, <1>14, Zenon

\* handle_fragment() does what its switch does, and clears the fragment.
LEMMA SwitchTaken ==
  ASSUME NEW x \in State, Ends(x), x.c.obj = "live", x.c.frame \in AFrame,
         Unmasked(x.c.fragment) = x.c.frame.body
  PROVE  \E y : /\ Handles(x, y)
                /\ handle_fragment(x) = [y EXCEPT !.c.fragment = <<>>,
                                                  !.log.handled = Append(@, x.c.frame)]
  <1>1. x.c.frame.op \in Ops /\ x.c.frame.body \in Seq(Byte)
    BY DEF AFrame
  <1>2. PICK op, body : op = x.c.frame.op /\ body = Unmasked(x.c.fragment)
    OBVIOUS
  <1>3. body \in Seq(Byte) /\ body = x.c.frame.body
    BY <1>1, <1>2
  <1>4. CASE op = "continuation"
    <2>1. PICK y : y = Deliver([Deliver(x) EXCEPT !.c.is_binary = FALSE])
      OBVIOUS
    <2>2. Handles(x, y)
      BY <1>2, <1>4, <2>1, ContinuationHandled
    <2>3. handle_fragment(x) = [y EXCEPT !.c.fragment = <<>>,
                                         !.log.handled = Append(@, x.c.frame)]
      BY <1>2, <1>4, <2>1 DEF handle_fragment
    <2> QED
      BY <2>2, <2>3
  <1>5. CASE op = "text"
    <2>1. PICK y : y = Deliver([x EXCEPT !.c.is_binary = FALSE])
      OBVIOUS
    <2>2. Handles(x, y)
      BY <1>1, <1>2, <1>5, <2>1, MessageHandled
    <2>3. handle_fragment(x) = [y EXCEPT !.c.fragment = <<>>,
                                         !.log.handled = Append(@, x.c.frame)]
      BY <1>2, <1>5, <2>1 DEF handle_fragment
    <2> QED
      BY <2>2, <2>3
  <1>6. CASE op = "binary"
    <2>1. PICK y : y = Deliver([x EXCEPT !.c.is_binary = TRUE])
      OBVIOUS
    <2>2. Handles(x, y)
      BY <1>1, <1>2, <1>6, <2>1, MessageHandled
    <2>3. handle_fragment(x) = [y EXCEPT !.c.fragment = <<>>,
                                         !.log.handled = Append(@, x.c.frame)]
      BY <1>2, <1>6, <2>1 DEF handle_fragment
    <2> QED
      BY <2>2, <2>3
  <1>7. CASE op = "close"
    <2>1. PICK y :
            y = LET z == [x EXCEPT !.c.has_recv_close = TRUE]
                    closed == [z EXCEPT !.c.open = FALSE, !.c.close_connection = TRUE]
                    told == IF z.c.is_close_handler_called THEN closed
                            ELSE [close_handler(closed) EXCEPT
                                    !.c.is_close_handler_called = TRUE]
                IN  IF z.c.has_sent_close THEN check_destroy(told) ELSE close(z, body)
      OBVIOUS
    <2>2. Handles(x, y)
      <3>1. x.c.frame.op = "close"
        BY <1>2, <1>7
      <3> QED
        BY <1>3, <2>1, <3>1, CloseHandled, Zenon
    <2>3. handle_fragment(x) = [y EXCEPT !.c.fragment = <<>>,
                                         !.log.handled = Append(@, x.c.frame)]
      BY <1>2, <1>7, <2>1 DEF handle_fragment
    <2> QED
      BY <2>2, <2>3
  <1>8. CASE op = "ping"
    <2>1. PICK y : y = send_pong(x, body)
      OBVIOUS
    <2>2. Handles(x, y)
      BY <1>2, <1>3, <1>8, <2>1, PingHandled
    <2>3. handle_fragment(x) = [y EXCEPT !.c.fragment = <<>>,
                                         !.log.handled = Append(@, x.c.frame)]
      BY <1>2, <1>8, <2>1 DEF handle_fragment
    <2> QED
      BY <2>2, <2>3
  <1>9. CASE op = "pong"
    <2>1. Handles(x, x)
      BY <1>2, <1>9, PongHandled
    <2>2. handle_fragment(x) = [x EXCEPT !.c.fragment = <<>>,
                                         !.log.handled = Append(@, x.c.frame)]
      BY <1>2, <1>9 DEF handle_fragment
    <2> QED
      BY <2>1, <2>2
  <1> QED
    BY <1>1, <1>2, <1>4, <1>5, <1>6, <1>7, <1>8, <1>9 DEF Ops

\* handle_fragment(): whole messages are delivered and pings answered.
LEMMA HandleFragmentKeeps ==
  ASSUME NEW x \in State, Ends(x), x.c.obj = "live", x.c.frame \in AFrame,
         Unmasked(x.c.fragment) = x.c.frame.body,
         AllDelivered(x.log, x.c.message), AllAnswered(x.log)
  PROVE  LET z == handle_fragment(x)
         IN  /\ z \in State /\ Ends(z) /\ z.rd = x.rd /\ z.c.fragment = <<>>
             /\ z.c.obj = "deleted" => z.c.has_sent_close = TRUE /\ z.c.has_recv_close = TRUE
             /\ AllDelivered(z.log, z.c.message) /\ AllAnswered(z.log)
  <1>1. PICK y : /\ Handles(x, y)
                 /\ handle_fragment(x) = [y EXCEPT !.c.fragment = <<>>,
                                                   !.log.handled = Append(@, x.c.frame)]
    BY SwitchTaken
  <1>2. PICK r : r = x.c.frame
    OBVIOUS
  <1>3. /\ y \in State /\ Ends(y) /\ y.rd = x.rd
        /\ y.c.obj = "deleted" => y.c.has_sent_close = TRUE /\ y.c.has_recv_close = TRUE
        /\ y.log.handled = x.log.handled /\ y.log.split = x.log.split
        /\ r.op \notin DataOps => y.c.message = x.c.message /\ y.log.got = x.log.got
        /\ (r.op \in DataOps /\ r.fin = TRUE /\ r.op # "continuation" /\ x.c.message = <<>>)
             => y.c.message = <<>> /\ y.log.got = Append(x.log.got, Delivered(r))
        /\ r.op # "ping" =>
             \/ y.log.called = x.log.called
             \/ \E e \in Sendable : e.header.op # "pong" /\ y.log.called = Append(x.log.called, e)
        /\ r.op = "ping" =>
             \E e \in Sendable : /\ y.log.called = Append(x.log.called, e)
                                 /\ e.header.op = "pong" /\ e.body = r.body
    BY <1>1, <1>2, Zenon DEF Handles
  <1>4. PICK z : z = [y EXCEPT !.c.fragment = <<>>, !.log.handled = Append(@, r)]
    OBVIOUS
  <1>5. handle_fragment(x) = z
    BY <1>1, <1>2, <1>4, Zenon
  <1>6. /\ z \in State /\ Ends(z) /\ z.rd = y.rd /\ z.c.fragment = <<>>
        /\ z.c.message = y.c.message /\ z.c.obj = y.c.obj
        /\ z.c.has_sent_close = y.c.has_sent_close
        /\ z.c.has_recv_close = y.c.has_recv_close
        /\ z.log.handled = Append(y.log.handled, r) /\ z.log.called = y.log.called
        /\ z.log.got = y.log.got /\ z.log.split = y.log.split
    <2>1. LET v == [y EXCEPT !.c.fragment = <<>>, !.log.handled = Append(@, r)]
          IN  /\ v \in State /\ Ends(v) /\ v.rd = y.rd /\ v.c.fragment = <<>>
              /\ v.c.message = y.c.message /\ v.c.obj = y.c.obj
              /\ v.c.has_sent_close = y.c.has_sent_close
              /\ v.c.has_recv_close = y.c.has_recv_close
              /\ v.log.handled = Append(y.log.handled, r) /\ v.log.called = y.log.called
              /\ v.log.got = y.log.got /\ v.log.split = y.log.split
      <3>1. y \in State /\ Ends(y) /\ r \in AFrame
        BY <1>2, <1>3
      <3> QED
        BY <3>1, FragmentCleared, Zenon
    <2> QED
      BY <1>4, <2>1, Zenon
  <1>7. PICK l, m, k : l = x.log /\ m = z.log /\ k = y.log
    OBVIOUS
  <1>8. l \in Log /\ m \in Log /\ k \in Log
    BY <1>3, <1>6, <1>7 DEF State
  <1>9. AllDelivered(z.log, z.c.message)
    <2>1. PICK a, b : a = x.c.message /\ b = z.c.message
      OBVIOUS
    <2>2. AllDelivered(l, a) /\ r \in AFrame /\ l \in Log /\ m \in Log
      BY <1>2, <1>7, <1>8, <2>1
    <2>3. m.handled = Append(l.handled, r) /\ m.split = l.split
      BY <1>3, <1>6, <1>7
    <2>4. r.op \notin DataOps => b = a /\ m.got = l.got
      BY <1>3, <1>6, <1>7, <2>1, Zenon
    <2>5. r.op \in DataOps /\ r.fin = TRUE /\ r.op # "continuation" /\ a = <<>> =>
            b = <<>> /\ m.got = Append(l.got, Delivered(r))
      BY <1>3, <1>6, <1>7, <2>1, Zenon
    <2>6. AllDelivered(m, b)
      BY <2>2, <2>3, <2>4, <2>5, DeliveredGrows, Zenon
    <2> QED
      BY <1>7, <2>1, <2>6
  <1>10. AllAnswered(z.log)
    <2>1. CASE r.op # "ping"
      <3>1. /\ k.handled = l.handled /\ AllAnswered(l)
            /\ \/ k.called = l.called
               \/ \E e \in Sendable : e.header.op # "pong" /\ k.called = Append(l.called, e)
        BY <1>3, <1>7, <2>1, Zenon
      <3>2. AllAnswered(k)
        BY <1>8, <3>1, AnswersStay, Zenon
      <3>3. m.handled = Append(k.handled, r) /\ m.called = k.called /\ r \in AFrame
        BY <1>2, <1>6, <1>7
      <3>4. AllAnswered(m)
        BY <1>8, <2>1, <3>2, <3>3, AnsweredGrows, Zenon
      <3> QED
        BY <1>7, <3>4
    <2>2. CASE r.op = "ping"
      <3>1. /\ m.handled = Append(l.handled, r) /\ r \in AFrame /\ AllAnswered(l)
            /\ \E e \in Sendable : /\ m.called = Append(l.called, e)
                                   /\ e.header.op = "pong" /\ e.body = r.body
        BY <1>2, <1>3, <1>6, <1>7, <2>2, Zenon
      <3>2. AllAnswered(m)
        BY <1>8, <2>2, <3>1, AnsweredGrows, Zenon
      <3> QED
        BY <1>7, <3>2
    <2> QED
      BY <2>1, <2>2
  <1> QED
    BY <1>3, <1>5, <1>6, <1>9, <1>10, Zenon

-----------------------------------------------------------------------------
(* The callbacks and the calls, one lemma each. *)

\* What was delivered and answered stays so while no frame is handled.
LEMMA LogStays ==
  ASSUME NEW l \in Log, NEW m \in Log, NEW a, AllDelivered(l, a), AllAnswered(l),
         m.got = l.got, m.handled = l.handled, m.split = l.split \/ m.split = TRUE,
         \/ m.called = l.called
         \/ \E e \in Sendable : e.header.op # "pong" /\ m.called = Append(l.called, e)
  PROVE  AllDelivered(m, a) /\ AllAnswered(m)
  <1>1. AllAnswered(m)
    BY AnswersStay, Zenon
  <1>2. Whole(m) => Whole(l)
    <2>1. m.split = FALSE => l.split = FALSE
      OBVIOUS
    <2> QED
      BY <2>1, Zenon DEF Whole
  <1>3. AllDelivered(m, a)
    BY <1>2, Zenon DEF AllDelivered
  <1> QED
    BY <1>1, <1>3

\* What a step may change without touching a delivered message.
LEMMA StaysGood ==
  ASSUME NEW x, NEW q, Good(x, q), NEW y \in State, Ends(y), NEW s \in Seq(AFrame),
         Framed(y, s), y.c.message = x.c.message, y.log.got = x.log.got,
         y.log.handled = x.log.handled, y.log.split = x.log.split \/ y.log.split = TRUE,
         \/ y.log.called = x.log.called
         \/ \E e \in Sendable : e.header.op # "pong" /\ y.log.called = Append(x.log.called, e)
  PROVE  Good(y, s)
  <1>1. x \in State /\ AllDelivered(x.log, x.c.message) /\ AllAnswered(x.log)
    BY DEF Good
  <1>2. PICK l, m : l = x.log /\ m = y.log
    OBVIOUS
  <1>3. l \in Log /\ m \in Log
    BY <1>1, <1>2 DEF State
  <1>4. AllDelivered(l, y.c.message) /\ AllAnswered(l)
    BY <1>1, <1>2
  <1>5. /\ m.got = l.got /\ m.handled = l.handled /\ (m.split = l.split \/ m.split = TRUE)
        /\ \/ m.called = l.called
           \/ \E e \in Sendable : e.header.op # "pong" /\ m.called = Append(l.called, e)
    BY <1>2, Zenon
  <1>6. AllDelivered(m, y.c.message) /\ AllAnswered(m)
    BY <1>3, <1>4, <1>5, LogStays, Zenon
  <1> QED
    BY <1>2, <1>6, Zenon DEF Good

\* A step that writes.
LEMMA WritesStayGood ==
  ASSUME NEW x, NEW q, Good(x, q), NEW y \in State, Ends(y), Reader(y) = Reader(x),
         \/ y.log.called = x.log.called
         \/ \E e \in Sendable : e.header.op # "pong" /\ y.log.called = Append(x.log.called, e)
  PROVE  Good(y, q)
  <1>1. /\ y.c.state = x.c.state /\ y.c.frame = x.c.frame /\ y.c.remaining = x.c.remaining
        /\ y.c.fragment = x.c.fragment /\ y.c.message = x.c.message /\ y.rd = x.rd
        /\ y.log.got = x.log.got /\ y.log.handled = x.log.handled /\ y.log.split = x.log.split
    BY DEF Reader
  <1>2. q \in Seq(AFrame) /\ Framed(x, q)
    BY DEF Good
  <1>3. Framed(y, q)
    BY <1>1, <1>2, Zenon DEF Framed
  <1> QED
    BY <1>1, <1>2, <1>3, StaysGood, Zenon

\* d is b but for what is being read.
ReadOnly(b, d) ==
  /\ d \in Conn /\ d.obj = b.obj /\ d.is_reading = b.is_reading /\ d.message = b.message
  /\ d.sending_buffers = b.sending_buffers /\ d.write_buffers = b.write_buffers
  /\ d.has_sent_close = b.has_sent_close /\ d.has_recv_close = b.has_recv_close

\* The callbacks note what was read.
LEMMA FrameSet ==
  ASSUME NEW x \in State, Ends(x), NEW d, ReadOnly(x.c, d)
  PROVE  LET y == [x EXCEPT !.c = d]
         IN  /\ y \in State /\ Ends(y) /\ y.rd = x.rd /\ y.wr = x.wr /\ y.log = x.log
             /\ y.c = d
  <1> DEFINE y == [x EXCEPT !.c = d]
  <1>1. y \in State /\ y.c = d /\ y.rd = x.rd /\ y.wr = x.wr /\ y.log = x.log
    BY DEF State, ReadOnly
  <1> HIDE DEF y
  <1>2. /\ y.c.obj = x.c.obj /\ y.c.is_reading = x.c.is_reading
        /\ y.c.sending_buffers = x.c.sending_buffers
        /\ y.c.write_buffers = x.c.write_buffers
        /\ y.c.has_sent_close = x.c.has_sent_close /\ y.c.has_recv_close = x.c.has_recv_close
    BY <1>1, Zenon DEF ReadOnly
  <1>3. Ends(y)
    BY <1>1, <1>2, Zenon DEF Ends
  <1> QED
    BY <1>1, <1>3 DEF y

\* A read returned.
LEMMA ReadReturned ==
  ASSUME NEW x \in State, Ends(x), x.c.obj = "live"
  PROVE  LET y == [x EXCEPT !.c.is_reading = FALSE, !.rd = "none"]
         IN  /\ y \in State /\ Ends(y) /\ y.rd = "none" /\ y.log = x.log /\ y.c.obj = "live"
             /\ y.c.state = x.c.state /\ y.c.frame = x.c.frame /\ y.c.message = x.c.message
             /\ y.c.remaining = x.c.remaining /\ y.c.fragment = x.c.fragment
  <1>1. x.c \in Conn
    BY DEF State
  <1>2. PICK d : d = [x.c EXCEPT !.is_reading = FALSE]
    OBVIOUS
  <1>3. /\ d \in Conn /\ d.obj = x.c.obj /\ d.is_reading = FALSE
        /\ d.state = x.c.state /\ d.frame = x.c.frame /\ d.remaining = x.c.remaining
        /\ d.fragment = x.c.fragment /\ d.message = x.c.message
        /\ d.sending_buffers = x.c.sending_buffers /\ d.write_buffers = x.c.write_buffers
        /\ d.has_sent_close = x.c.has_sent_close /\ d.has_recv_close = x.c.has_recv_close
    BY <1>1, <1>2 DEF Conn
  <1>4. PICK y : y = [x EXCEPT !.c = d, !.rd = "none"]
    OBVIOUS
  <1>5. y = [x EXCEPT !.c.is_reading = FALSE, !.rd = "none"]
    BY <1>2, <1>4 DEF State
  <1>6. y \in State /\ y.c = d /\ y.rd = "none" /\ y.wr = x.wr /\ y.log = x.log
    BY <1>3, <1>4 DEF State, Reads
  <1>7. /\ y.c.obj = x.c.obj /\ y.c.is_reading = FALSE
        /\ y.c.sending_buffers = x.c.sending_buffers /\ y.c.write_buffers = x.c.write_buffers
        /\ y.c.has_sent_close = x.c.has_sent_close /\ y.c.has_recv_close = x.c.has_recv_close
    BY <1>3, <1>6, Zenon
  <1>8. y.c.obj # "deleted"
    BY <1>7
  <1>9. Ends(y)
    BY <1>6, <1>7, <1>8, Zenon DEF Ends
  <1>10. /\ y \in State /\ Ends(y) /\ y.rd = "none" /\ y.log = x.log /\ y.c.obj = "live"
         /\ y.c.state = x.c.state /\ y.c.frame = x.c.frame /\ y.c.message = x.c.message
         /\ y.c.remaining = x.c.remaining /\ y.c.fragment = x.c.fragment
    BY <1>3, <1>6, <1>7, <1>9, Zenon
  <1> QED
    BY <1>5, <1>10, Zenon

\* An error, or an unmasked frame.
LEMMA FailedKeeps ==
  ASSUME NEW x \in State, Ends(x)
  PROVE  LET y == Failed(x)
         IN  /\ y \in State /\ Ends(y) /\ Reader(y) = Reader(x) /\ y.log.called = x.log.called
  <1>1. x.c \in Conn
    BY DEF State
  <1>2. PICK d : d = [x.c EXCEPT !.close_connection = TRUE, !.open = FALSE]
    OBVIOUS
  <1>3. FlagsOnly(x.c, d)
    BY <1>1, <1>2 DEF FlagsOnly, Conn
  <1>4. PICK z : z = [x EXCEPT !.c = d]
    OBVIOUS
  <1>5. z \in State /\ Reader(z) = Reader(x) /\ Ends(z) /\ z.log = x.log
    BY <1>3, <1>4, FlagsSet
  <1>6. z = [x EXCEPT !.c.close_connection = TRUE, !.c.open = FALSE]
    BY <1>2, <1>4 DEF State
  <1>7. PICK k : k = check_destroy(z)
    OBVIOUS
  <1>8. k \in State /\ Ends(k) /\ Reader(k) = Reader(z) /\ k.log.called = z.log.called
    BY <1>5, <1>7, CheckDestroyKeeps
  <1>9. Failed(x) = z \/ Failed(x) = k
    <2>1. CASE x.c.state \in {"Mask", "Payload"}
      BY <1>6, <2>1 DEF Failed
    <2>2. CASE x.c.state \notin {"Mask", "Payload"}
      BY <1>6, <1>7, <2>2 DEF Failed
    <2> QED
      BY <2>1, <2>2
  <1> QED
    BY <1>5, <1>8, <1>9, Zenon

\* Every frame of the peer is a frame.
LEMMA FramesAreFrames == Frames \subseteq AFrame
  <1>1. STRING \subseteq Byte
    BY DEF Byte
  <1>2. Seq(STRING) \subseteq Seq(Byte)
    BY <1>1, SeqMonotonic
  <1> SUFFICES ASSUME NEW f \in Frames
               PROVE  f \in AFrame
    OBVIOUS
  <1>3. f \in [op : Ops, fin : BOOLEAN, enc : {"7", "16", "64"},
               masked : BOOLEAN, body : Seq(STRING)]
    BY FramesAssumption
  <1> QED
    BY <1>2, <1>3 DEF AFrame

\* read_completes to mini_header: a header was read, whole or not.
LEMMA HeaderStaysGood ==
  ASSUME NEW x, NEW q, Good(x, q), x.rd = "data", x.c.obj = "live", x.c.state = "MiniHeader",
         NEW y \in State, Ends(y), y.rd = "none", y.c.obj = "live", y.c.state = "MiniHeader",
         y.c.message = x.c.message, y.c.fragment = x.c.fragment,
         y.log.got = x.log.got, y.log.handled = x.log.handled, y.log.called = x.log.called,
         y.log.split = x.log.split \/ y.log.split = TRUE,
         NEW s \in Seq(AFrame), s # <<>>, NEW f \in AFrame, f = Head(s)
  PROVE  Good(HeaderRead(y, f), s)
  <1>1. y.c \in Conn /\ y.c.fragment = <<>>
    <2>1. x.c.fragment = <<>>
      BY DEF Good, Framed
    <2> QED
      BY <2>1 DEF State
  <1>2. CASE ~f.masked
    <2>1. PICK d : d = [y.c EXCEPT !.frame = f]
      OBVIOUS
    <2>2. /\ ReadOnly(y.c, d) /\ d.state = y.c.state
      BY <1>1, <2>1 DEF ReadOnly, Conn
    <2>3. PICK z : z = [y EXCEPT !.c = d]
      OBVIOUS
    <2>4. z \in State /\ Ends(z) /\ z.rd = y.rd /\ z.log = y.log /\ z.c = d
      BY <2>2, <2>3, FrameSet
    <2>5. z = [y EXCEPT !.c.frame = f]
      BY <2>1, <2>3
    <2>6. PICK k : k = Failed(z)
      OBVIOUS
    <2>7. k \in State /\ Ends(k) /\ Reader(k) = Reader(z) /\ k.log.called = z.log.called
      BY <2>4, <2>6, FailedKeeps
    <2>8. /\ k.c.state = z.c.state /\ k.c.message = z.c.message /\ k.rd = z.rd
          /\ k.log.got = z.log.got /\ k.log.handled = z.log.handled /\ k.log.split = z.log.split
      BY <2>7 DEF Reader
    <2>9. k.c.state = "MiniHeader" /\ k.rd = "none" /\ k.c.message = x.c.message
      BY <2>2, <2>4, <2>8 DEF ReadOnly
    <2>10. Framed(k, s)
      BY <2>9 DEF Framed
    <2>11. /\ k.log.got = x.log.got /\ k.log.handled = x.log.handled
           /\ k.log.called = x.log.called /\ (k.log.split = x.log.split \/ k.log.split = TRUE)
      BY <2>4, <2>7, <2>8
    <2>12. Good(k, s)
      BY <2>7, <2>9, <2>10, <2>11, StaysGood, Zenon
    <2> QED
      BY <1>2, <2>5, <2>6, <2>12, Zenon DEF HeaderRead
  <1>3. CASE f.masked
    <2>1. PICK t : t = CASE f.enc = "64" -> "Len64" [] f.enc = "16" -> "Len16"
                         [] f.enc = "7" -> "Mask"
      OBVIOUS
    <2>2. PICK n : n = IF f.enc = "7" THEN Len(f.body) ELSE y.c.remaining
      OBVIOUS
    <2>3. /\ t \in {"Len64", "Len16", "Mask"} /\ n \in Int
          /\ t = "Mask" => n = Len(f.body)
      <3>1. f.enc \in {"7", "16", "64"} /\ Len(f.body) \in Int /\ y.c.remaining \in Int
        BY <1>1 DEF AFrame, Conn
      <3> QED
        BY <2>1, <2>2, <3>1
    <2>4. PICK d : d = [y.c EXCEPT !.frame = f, !.state = t, !.remaining = n]
      OBVIOUS
    <2>5. /\ ReadOnly(y.c, d) /\ d.state = t /\ d.frame = f /\ d.remaining = n
          /\ d.fragment = y.c.fragment
      BY <1>1, <2>3, <2>4 DEF ReadOnly, Conn
    <2>6. PICK z : z = [y EXCEPT !.c = d]
      OBVIOUS
    <2>7. z \in State /\ Ends(z) /\ z.rd = y.rd /\ z.log = y.log /\ z.c = d
      BY <2>5, <2>6, FrameSet
    <2>8. HeaderRead(y, f) = do_read(z)
      <3>1. z = [y EXCEPT !.c.frame = f, !.c.state = t, !.c.remaining = n]
        BY <2>4, <2>6 DEF State
      <3>2. z = [y EXCEPT !.c.frame = f,
                  !.c.state = CASE f.enc = "64" -> "Len64" [] f.enc = "16" -> "Len16"
                                [] f.enc = "7" -> "Mask",
                  !.c.remaining = IF f.enc = "7" THEN Len(f.body) ELSE @]
        BY <2>1, <2>2, <3>1
      <3> QED
        BY <1>3, <3>2 DEF HeaderRead
    <2>9. z.c.obj # "deleted"
      BY <2>5, <2>7 DEF ReadOnly
    <2>10. PICK k : k = do_read(z)
      OBVIOUS
    <2>11. /\ k \in State /\ Ends(k)
           /\ k.c.state = z.c.state /\ k.c.frame = z.c.frame
           /\ k.c.remaining = z.c.remaining /\ k.c.fragment = z.c.fragment
           /\ k.c.message = z.c.message /\ k.log.got = z.log.got
           /\ k.log.handled = z.log.handled /\ k.log.called = z.log.called
           /\ k.log.split = z.log.split
           /\ (k.rd = z.rd \/ k.rd = "pending")
      BY <2>7, <2>9, <2>10, DoReadKeeps
    <2>12. /\ k.c.state = t /\ k.c.frame = f /\ k.c.remaining = n /\ k.c.fragment = <<>>
           /\ k.c.message = x.c.message /\ k.rd # "data"
      BY <1>1, <2>5, <2>7, <2>11 DEF ReadOnly
    <2>13. Framed(k, s)
      BY <2>3, <2>12 DEF Framed
    <2>14. /\ k.log.got = x.log.got /\ k.log.handled = x.log.handled
           /\ k.log.called = x.log.called /\ (k.log.split = x.log.split \/ k.log.split = TRUE)
      BY <2>7, <2>11
    <2>15. Good(k, s)
      BY <2>11, <2>12, <2>13, <2>14, StaysGood, Zenon
    <2> QED
      BY <2>8, <2>10, <2>15
  <1> QED
    BY <1>2, <1>3

\* The length and the mask of a frame: the next state is read for.
LEMMA NextStateStaysGood ==
  ASSUME NEW x, NEW q, Good(x, q), x.rd = "data", x.c.obj = "live", x.c.state # "MiniHeader",
         NEW y \in State, Ends(y), y.c.obj = "live", y.c.state = x.c.state, y.rd = "none",
         y.c.frame = x.c.frame, y.c.message = x.c.message, y.c.fragment = x.c.fragment,
         y.log = x.log, NEW z, NEW d, z = [y EXCEPT !.c = d],
         ReadOnly(y.c, d), d.frame = y.c.frame, d.fragment = y.c.fragment,
         d.state \in {"Mask", "Payload"}, d.remaining = Len(y.c.frame.body)
  PROVE  Good(do_read(z), q)
  <1>1. /\ x.c.fragment = <<>> /\ q # <<>> /\ x.c.frame = Head(q) /\ q \in Seq(AFrame)
    BY DEF Good, Framed
  <1>2. z \in State /\ Ends(z) /\ z.rd = y.rd /\ z.log = y.log /\ z.c = d
    BY FrameSet, Zenon
  <1>3. z.c.obj # "deleted"
    BY <1>2 DEF ReadOnly
  <1>4. PICK k : k = do_read(z)
    OBVIOUS
  <1>5. /\ k \in State /\ Ends(k)
        /\ k.c.state = z.c.state /\ k.c.frame = z.c.frame
        /\ k.c.remaining = z.c.remaining /\ k.c.fragment = z.c.fragment
        /\ k.c.message = z.c.message /\ k.log.got = z.log.got
        /\ k.log.handled = z.log.handled /\ k.log.called = z.log.called
        /\ k.log.split = z.log.split
        /\ (k.rd = z.rd \/ k.rd = "pending")
    BY <1>2, <1>3, <1>4, DoReadKeeps
  <1>6. /\ k.c.frame = Head(q) /\ k.c.fragment = <<>> /\ k.c.message = x.c.message
        /\ k.c.remaining = Len(k.c.frame.body) /\ k.rd # "data"
    BY <1>1, <1>2, <1>5 DEF ReadOnly
  <1>7. Framed(k, q)
    BY <1>1, <1>6 DEF Framed
  <1>8. /\ k.log.got = x.log.got /\ k.log.handled = x.log.handled
        /\ k.log.called = x.log.called /\ k.log.split = x.log.split
    BY <1>2, <1>5
  <1>9. Good(k, q)
    BY <1>1, <1>5, <1>6, <1>7, <1>8, StaysGood, Zenon
  <1> QED
    BY <1>4, <1>9

\* Some bytes of a payload join the fragment.
LEMMA BytesArrive ==
  ASSUME NEW x, NEW q, Good(x, q), x.rd = "data", x.c.state = "Payload",
         NEW y \in State, Ends(y), y.rd = "none", y.c.obj = "live", y.c.state = "Payload",
         y.c.frame = x.c.frame, y.c.message = x.c.message, y.c.fragment = x.c.fragment,
         y.c.remaining = x.c.remaining, y.log = x.log,
         NEW n \in Nat, n <= x.c.remaining
  PROVE  LET z == [y EXCEPT !.c.fragment = @ \o Arrived(Head(q).body, n),
                            !.c.remaining = @ - n]
         IN  /\ z \in State /\ Ends(z) /\ z.rd = "none" /\ z.log = x.log /\ z.c.obj = "live"
             /\ z.c.state = "Payload" /\ z.c.frame = Head(q) /\ z.c.message = x.c.message
             /\ z.c.fragment = <<>> \o Arrived(Head(q).body, n)
             /\ q # <<>> /\ q \in Seq(AFrame) /\ Head(q) \in AFrame
             /\ x.c.remaining = Len(Head(q).body)
  <1> DEFINE z == [y EXCEPT !.c.fragment = @ \o Arrived(Head(q).body, n),
                            !.c.remaining = @ - n]
  <1> HIDE DEF z
  <1>1. /\ x.c.fragment = <<>> /\ q # <<>> /\ x.c.frame = Head(q) /\ q \in Seq(AFrame)
        /\ x.c.remaining = Len(Head(q).body)
    BY DEF Good, Framed
  <1>2. PICK b : b = Head(q).body
    OBVIOUS
  <1>3. Head(q) \in AFrame /\ b \in Seq(Byte)
    <2>1. Head(q) \in AFrame
      BY <1>1, HeadTailProperties
    <2> QED
      BY <1>2, <2>1 DEF AFrame
  <1>4. n <= Len(b) /\ Len(b) \in Nat
    BY <1>1, <1>2, <1>3
  <1>5. PICK g : g = <<>> \o Arrived(b, n)
    OBVIOUS
  <1>6. g \in Fragments
    <2>1. Arrived(b, n) \in Fragments
      BY <1>3, <1>4, ArrivedBytes
    <2>2. g = Arrived(b, n)
      BY <1>5, <2>1, ConcatEmptySeq DEF Fragments
    <2> QED
      BY <2>1, <2>2
  <1>7. PICK m : m = y.c.remaining - n /\ m \in Int
    BY <1>1, <1>2, <1>4
  <1>8. PICK d : d = [y.c EXCEPT !.fragment = g, !.remaining = m]
    OBVIOUS
  <1>9. y.c \in Conn
    BY DEF State
  <1>10. /\ ReadOnly(y.c, d) /\ d.fragment = g /\ d.state = y.c.state /\ d.frame = y.c.frame
    BY <1>6, <1>7, <1>8, <1>9 DEF ReadOnly, Conn
  <1>11. z = [y EXCEPT !.c = d]
    <2>1. z = [y EXCEPT !.c = [y.c EXCEPT !.fragment = y.c.fragment \o Arrived(Head(q).body, n),
                                          !.remaining = y.c.remaining - n]]
      BY DEF State, z
    <2> QED
      BY <1>1, <1>2, <1>5, <1>7, <1>8, <2>1, Zenon
  <1>12. z \in State /\ Ends(z) /\ z.rd = y.rd /\ z.log = y.log /\ z.c = d
    <2>1. LET v == [y EXCEPT !.c = d]
          IN  /\ v \in State /\ Ends(v) /\ v.rd = y.rd /\ v.wr = y.wr /\ v.log = y.log
              /\ v.c = d
      BY <1>10, FrameSet, Zenon
    <2> QED
      BY <1>11, <2>1, Zenon
  <1>13. z.c.obj = "live" /\ z.c.message = x.c.message
    BY <1>10, <1>12 DEF ReadOnly
  <1>14. /\ z \in State /\ Ends(z) /\ z.rd = "none" /\ z.log = x.log /\ z.c.obj = "live"
         /\ z.c.state = "Payload" /\ z.c.frame = Head(q) /\ z.c.message = x.c.message
         /\ z.c.fragment = <<>> \o Arrived(Head(q).body, n)
         /\ q # <<>> /\ q \in Seq(AFrame) /\ Head(q) \in AFrame
         /\ x.c.remaining = Len(Head(q).body)
    BY <1>1, <1>2, <1>3, <1>5, <1>10, <1>12, <1>13, Zenon
  <1> QED
    BY <1>14, Zenon DEF z

\* payload: what arrived is not all of the frame.
LEMMA PartStaysGood ==
  ASSUME NEW x, NEW q, Good(x, q), x.rd = "data", x.c.state = "Payload",
         NEW z \in State, Ends(z), z.rd = "none", z.log = x.log,
         z.c.state = "Payload", z.c.frame = Head(q), z.c.message = x.c.message, q # <<>>
  PROVE  Good(z, q)
  <1>1. Framed(z, q)
    BY DEF Framed
  <1>2. q \in Seq(AFrame)
    BY DEF Good
  <1> QED
    BY <1>1, <1>2, StaysGood

\* payload: the frame is complete and handled, and the next one is read.
LEMMA WholeStaysGood ==
  ASSUME NEW x, NEW q, Good(x, q), NEW z \in State, Ends(z), z.rd = "none", z.log = x.log,
         z.c.obj = "live", z.c.frame = Head(q), z.c.message = x.c.message,
         z.c.fragment = <<>> \o Arrived(Head(q).body, Len(Head(q).body)),
         q # <<>>, Head(q) \in AFrame
  PROVE  Good(do_read([handle_fragment(z) EXCEPT !.c.state = "MiniHeader"]), Tail(q))
  <1>1. q \in Seq(AFrame) /\ AllDelivered(x.log, x.c.message) /\ AllAnswered(x.log)
    BY DEF Good
  <1>2. Tail(q) \in Seq(AFrame)
    BY <1>1, HeadTailProperties
  <1>3. Head(q).body \in Seq(Byte)
    BY DEF AFrame
  <1>4. Unmasked(z.c.fragment) = z.c.frame.body
    BY <1>3, PayloadUnmasked, Zenon
  <1>5. PICK y : y = handle_fragment(z)
    OBVIOUS
  <1>6. /\ y \in State /\ Ends(y) /\ y.rd = "none" /\ y.c.fragment = <<>>
        /\ y.c.obj = "deleted" => y.c.has_sent_close = TRUE /\ y.c.has_recv_close = TRUE
        /\ AllDelivered(y.log, y.c.message) /\ AllAnswered(y.log)
    <2>1. /\ z.c.frame \in AFrame /\ AllDelivered(z.log, z.c.message) /\ AllAnswered(z.log)
      BY <1>1
    <2> QED
      BY <1>4, <1>5, <2>1, HandleFragmentKeeps
  <1>7. PICK d : d = [y.c EXCEPT !.state = "MiniHeader"]
    OBVIOUS
  <1>8. y.c \in Conn
    BY <1>6 DEF State
  <1>9. ReadOnly(y.c, d) /\ d.state = "MiniHeader" /\ d.fragment = y.c.fragment
    BY <1>7, <1>8 DEF ReadOnly, Conn
  <1>10. PICK w : w = [y EXCEPT !.c = d]
    OBVIOUS
  <1>11. w \in State /\ Ends(w) /\ w.rd = y.rd /\ w.log = y.log /\ w.c = d
    BY <1>6, <1>9, <1>10, FrameSet
  <1>12. w = [handle_fragment(z) EXCEPT !.c.state = "MiniHeader"]
    BY <1>5, <1>7, <1>10
  <1>13. w.c.obj = "deleted" => w.c.has_sent_close = TRUE /\ w.c.has_recv_close = TRUE
    BY <1>6, <1>9, <1>11, Zenon DEF ReadOnly
  <1>14. PICK k : k = do_read(w)
    OBVIOUS
  <1>15. /\ k \in State /\ Ends(k)
         /\ k.c.state = w.c.state /\ k.c.fragment = w.c.fragment
         /\ k.c.message = w.c.message /\ k.log.got = w.log.got
         /\ k.log.handled = w.log.handled /\ k.log.called = w.log.called
         /\ k.log.split = w.log.split
         /\ (k.rd = w.rd \/ k.rd = "pending")
    BY <1>11, <1>13, <1>14, DoReadKeeps
  <1>16. k.c.state = "MiniHeader" /\ k.c.fragment = <<>> /\ k.rd # "data"
    BY <1>6, <1>9, <1>11, <1>15
  <1>17. Framed(k, Tail(q))
    BY <1>16 DEF Framed
  <1>18. k.c.message = y.c.message
    BY <1>9, <1>11, <1>15 DEF ReadOnly
  <1>19. /\ k.log.got = y.log.got /\ k.log.handled = y.log.handled
         /\ k.log.called = y.log.called /\ k.log.split = y.log.split
    BY <1>11, <1>15
  <1>20. AllDelivered(k.log, k.c.message) /\ AllAnswered(k.log)
    <2>1. PICK l, m, a : l = y.log /\ m = k.log /\ a = y.c.message
      OBVIOUS
    <2>2. l \in Log /\ m \in Log
      BY <1>6, <1>15, <2>1 DEF State
    <2>3. /\ m.got = l.got /\ m.handled = l.handled /\ m.called = l.called /\ m.split = l.split
          /\ AllDelivered(l, a) /\ AllAnswered(l)
      BY <1>6, <1>19, <2>1
    <2>4. AllDelivered(m, a) /\ AllAnswered(m)
      BY <2>2, <2>3, LogStays, Zenon
    <2> QED
      BY <1>18, <2>1, <2>4
  <1>21. Good(k, Tail(q))
    BY <1>2, <1>15, <1>17, <1>20, Zenon DEF Good
  <1> QED
    BY <1>12, <1>14, <1>21

\* write_done: the socket is free, or the connection ends.
LEMMA WriteDoneStaysGood ==
  ASSUME NEW x, NEW q, Good(x, q), x.c.obj = "live", NEW b \in BOOLEAN
  PROVE  LET y == [x EXCEPT !.c.sending_buffers = <<>>, !.wr = "none"]
             more == IF y.c.write_buffers = <<>> THEN y ELSE do_write(y)
         IN  /\ Good([more EXCEPT !.c.close_connection = b], q)
             /\ Good(check_destroy([y EXCEPT !.c.close_connection = TRUE]), q)
  <1> DEFINE y == [x EXCEPT !.c.sending_buffers = <<>>, !.wr = "none"]
             more == IF y.c.write_buffers = <<>> THEN y ELSE do_write(y)
  <1> HIDE DEF y, more
  <1>1. x \in State /\ x.c \in Conn /\ x.log \in Log /\ Ends(x)
    BY DEF Good, State
  <1>2. PICK d : d = [x.c EXCEPT !.sending_buffers = <<>>]
    OBVIOUS
  <1>3. <<>> \in Seq(Sendable)
    OBVIOUS
  <1>4. /\ d \in Conn /\ d.sending_buffers = <<>> /\ d.obj = x.c.obj
        /\ d.state = x.c.state /\ d.frame = x.c.frame /\ d.remaining = x.c.remaining
        /\ d.fragment = x.c.fragment /\ d.message = x.c.message
        /\ d.is_reading = x.c.is_reading /\ d.write_buffers = x.c.write_buffers
        /\ d.has_sent_close = x.c.has_sent_close /\ d.has_recv_close = x.c.has_recv_close
    BY <1>1, <1>2, <1>3 DEF Conn
  <1>5. PICK v : v = [x EXCEPT !.c = d, !.wr = "none"]
    OBVIOUS
  <1>6. v = y
    BY <1>1, <1>2, <1>5 DEF State, y
  <1>7. v \in State /\ v.c = d /\ v.rd = x.rd /\ v.wr = "none" /\ v.log = x.log
    BY <1>1, <1>4, <1>5 DEF State, Writes
  <1>8. Reader(v) = Reader(x)
    BY <1>4, <1>7 DEF Reader
  <1>9. /\ v.c.obj = "live" /\ v.c.sending_buffers = <<>> /\ v.c.is_reading = x.c.is_reading
        /\ v.c.write_buffers = x.c.write_buffers
        /\ v.c.has_sent_close = x.c.has_sent_close /\ v.c.has_recv_close = x.c.has_recv_close
    BY <1>4, <1>7
  <1>10. v.c.obj # "deleted"
    BY <1>9
  <1>11. Ends(v)
    BY <1>1, <1>7, <1>9, <1>10, Zenon DEF Ends
  <1>12. Good(check_destroy([y EXCEPT !.c.close_connection = TRUE]), q)
    <2>1. PICK e : e = [v.c EXCEPT !.close_connection = TRUE]
      OBVIOUS
    <2>2. FlagsOnly(v.c, e)
      BY <1>4, <1>7, <2>1 DEF FlagsOnly, Conn
    <2>3. PICK w : w = [v EXCEPT !.c = e]
      OBVIOUS
    <2>4. w \in State /\ Reader(w) = Reader(v) /\ Ends(w) /\ w.log = v.log
      BY <1>7, <1>11, <2>2, <2>3, FlagsSet
    <2>5. PICK k : k = check_destroy(w)
      OBVIOUS
    <2>6. k \in State /\ Ends(k) /\ Reader(k) = Reader(w) /\ k.log.called = w.log.called
      BY <2>4, <2>5, CheckDestroyKeeps
    <2>7. Reader(k) = Reader(x) /\ k.log.called = x.log.called
      BY <1>7, <1>8, <2>4, <2>6, Zenon
    <2>8. Good(k, q)
      BY <2>6, <2>7, WritesStayGood, Zenon
    <2>9. w = [y EXCEPT !.c.close_connection = TRUE]
      BY <1>6, <2>1, <2>3
    <2> QED
      BY <2>5, <2>8, <2>9, Zenon
  <1>13. more \in State /\ Reader(more) = Reader(x) /\ Ends(more) /\ more.log.called = x.log.called
    <2>1. CASE v.c.write_buffers = <<>>
      <3>1. more = v
        BY <1>6, <2>1, Zenon DEF more
      <3> QED
        BY <1>7, <1>8, <1>11, <3>1, Zenon
    <2>2. CASE v.c.write_buffers # <<>>
      <3>1. more = do_write(v)
        BY <1>6, <2>2, Zenon DEF more
      <3>2. /\ v.wr = "none" <=> v.c.sending_buffers = <<>>
            /\ v.rd = "none" <=> v.c.is_reading = FALSE
            /\ v.log.touched = TRUE => v.c.has_sent_close = TRUE /\ v.c.has_recv_close = TRUE
            /\ v.log.called = v.log.handed \o v.c.write_buffers
        BY <1>11, Zenon DEF Ends
      <3>3. LET z == do_write(v)
            IN /\ z \in State /\ Ends(z) /\ Reader(z) = Reader(v)
               /\ z.c.obj = "live" /\ z.c.has_sent_close = v.c.has_sent_close
               /\ z.c.has_recv_close = v.c.has_recv_close
               /\ z.log.called = v.log.called
        BY <1>7, <1>9, <2>2, <3>2, DoWrite, Zenon
      <3> QED
        BY <1>7, <1>8, <3>1, <3>3, Zenon
    <2> QED
      BY <2>1, <2>2
  <1>14. Good([more EXCEPT !.c.close_connection = b], q)
    <2>1. PICK e : e = [more.c EXCEPT !.close_connection = b]
      OBVIOUS
    <2>2. more.c \in Conn
      BY <1>13 DEF State
    <2>3. FlagsOnly(more.c, e)
      BY <2>1, <2>2 DEF FlagsOnly, Conn
    <2>4. LET w == [more EXCEPT !.c = e]
          IN  /\ w \in State /\ Reader(w) = Reader(more) /\ (Ends(more) => Ends(w))
              /\ w.rd = more.rd /\ w.wr = more.wr /\ w.log = more.log /\ w.c = e
      BY <1>13, <2>3, FlagsSet, Zenon
    <2>5. PICK w : w = [more EXCEPT !.c = e]
      OBVIOUS
    <2>6. w \in State /\ Ends(w) /\ Reader(w) = Reader(x) /\ w.log.called = x.log.called
      BY <1>13, <2>4, <2>5, Zenon
    <2>7. Good(w, q)
      BY <2>6, WritesStayGood, Zenon
    <2>8. w = [more EXCEPT !.c.close_connection = b]
      BY <2>1, <2>5
    <2> QED
      BY <2>7, <2>8, Zenon
  <1> QED
    BY <1>12, <1>14 DEF y, more

-----------------------------------------------------------------------------
(* The invariant. *)

\* The buffer pair of start()'s answer.
LEMMA AnswerFits ==
  LET h == [op |-> "101 Switching Protocols", len |-> 0, ext |-> 0]
  IN  [header |-> h, body |-> <<>>] \in Sendable /\ h.op # "pong"
  <1> DEFINE h == [op |-> "101 Switching Protocols", len |-> 0, ext |-> 0]
  <1> HIDE DEF h
  <1>1. PICK a : a = "101 Switching Protocols"
    OBVIOUS
  <1>2. a \in Answer /\ a # "pong"
    BY <1>1, Zenon DEF Answer
  <1>3. h = [op |-> a, len |-> 0, ext |-> 0]
    BY <1>1, Zenon DEF h
  <1>4. h \in Header /\ h.op = a /\ Announced(h) = 0
    BY <1>2, <1>3, WebSocketAssumption DEF Header, Announced
  <1>5. <<>> \in Seq(Byte) /\ Len(<<>>) = 0
    OBVIOUS
  <1>6. [header |-> h, body |-> <<>>] \in Sendable /\ h.op # "pong"
    BY <1>2, <1>4, <1>5 DEF Sendable
  <1> QED
    BY <1>6, Zenon DEF h

\* The constructor's object.
LEMMA Constructed ==
  ASSUME NEW b \in BOOLEAN
  PROVE  LET x == [c |-> Members(b), rd |-> "none", wr |-> "none", log |-> NoLog]
         IN  /\ Good(x, <<>>) /\ x.c.obj = "live" /\ x.rd = "none" /\ x.wr = "none"
             /\ x.c.state = "MiniHeader" /\ x.c.sending_buffers = <<>>
             /\ x.c.is_reading = FALSE /\ x.c.fragment = <<>>
  <1> DEFINE x == [c |-> Members(b), rd |-> "none", wr |-> "none", log |-> NoLog]
  <1> HIDE DEF x
  <1>1. PICK d, l : d = Members(b) /\ l = NoLog
    OBVIOUS
  <1>2. /\ <<>> \in Fragments /\ <<>> \in Seq(Byte) /\ <<>> \in Seq(Sendable)
        /\ <<>> \in Seq(Message) /\ <<>> \in Seq(AFrame \cup {NoFrame})
    BY DEF Fragments
  <1>3. d \in Conn
    BY <1>1, <1>2 DEF Members, Conn
  <1>4. l \in Log
    BY <1>1, <1>2 DEF NoLog, Log
  <1>5. /\ d.obj = "live" /\ d.state = "MiniHeader" /\ d.sending_buffers = <<>>
        /\ d.is_reading = FALSE /\ d.write_buffers = <<>> /\ d.message = <<>>
        /\ d.fragment = <<>>
    BY <1>1 DEF Members
  <1>6. /\ l.called = <<>> /\ l.handed = <<>> /\ l.got = <<>> /\ l.handled = <<>>
        /\ l.touched = FALSE
    BY <1>1 DEF NoLog
  <1>7. x = [c |-> d, rd |-> "none", wr |-> "none", log |-> l]
    BY <1>1 DEF x
  <1>8. x \in State /\ x.c = d /\ x.rd = "none" /\ x.wr = "none" /\ x.log = l
    BY <1>3, <1>4, <1>7 DEF State, Reads, Writes
  <1>9. Ends(x)
    <2>1. <<>> = <<>> \o <<>> /\ FALSE # TRUE
      OBVIOUS
    <2> QED
      BY <1>5, <1>6, <1>8, <2>1 DEF Ends
  <1>10. Framed(x, <<>>)
    BY <1>5, <1>8 DEF Framed
  <1>11. PICK f : f = [k \in {} |-> k]
    OBVIOUS
  <1>12. f \in [{} -> {}] /\ InOrder(f, {}, {})
    BY <1>11 DEF InOrder
  <1>13. DOMAIN <<>> = {}
    OBVIOUS
  <1>14. AllDelivered(l, d.message)
    <2>1. Places(l.handled, DataOps) = {} /\ DOMAIN l.got = {}
      BY <1>6, <1>13 DEF Places
    <2> QED
      BY <1>5, <1>12, <2>1 DEF AllDelivered
  <1>15. AllAnswered(l)
    <2>1. Places(l.handled, {"ping"}) = {} /\ PongPlaces(l.called) = {}
      BY <1>6, <1>13 DEF Places, PongPlaces
    <2> QED
      BY <1>12, <2>1 DEF AllAnswered
  <1>16. <<>> \in Seq(AFrame)
    OBVIOUS
  <1>17. Good(x, <<>>)
    BY <1>8, <1>9, <1>10, <1>14, <1>15, <1>16 DEF Good
  <1>18. /\ x.c.obj = "live" /\ x.c.state = "MiniHeader" /\ x.c.sending_buffers = <<>>
         /\ x.c.is_reading = FALSE /\ x.c.fragment = <<>>
    BY <1>5, <1>8
  <1> QED
    BY <1>8, <1>17, <1>18, Zenon DEF x

\* start(), which answers the upgrade and reads.
LEMMA StartIsGood ==
  ASSUME NEW x, Good(x, <<>>), x.c.obj = "live", x.rd = "none", x.c.state = "MiniHeader",
         x.c.fragment = <<>>
  PROVE  Good(start(x), <<>>)
  <1>1. x \in State /\ Ends(x)
    BY DEF Good
  <1>2. PICK h : h = [op |-> "101 Switching Protocols", len |-> 0, ext |-> 0]
    OBVIOUS
  <1>3. [header |-> h, body |-> <<>>] \in Sendable /\ h.op # "pong"
    BY <1>2, AnswerFits, Zenon
  <1>4. PICK f : f = [header |-> h, body |-> <<>>]
    OBVIOUS
  <1>5. f \in Sendable /\ f.header.op # "pong"
    BY <1>3, <1>4
  <1>6. PICK y : y = Queued(x, h, <<>>)
    OBVIOUS
  <1>7. Wrote(x, y) /\ y.log.called = Append(x.log.called, f)
    BY <1>1, <1>3, <1>4, <1>6, QueuedKeeps
  <1>8. y \in State /\ Ends(y) /\ Reader(y) = Reader(x) /\ y.c.obj = "live"
    BY <1>7 DEF Wrote
  <1>9. Good(y, <<>>)
    BY <1>5, <1>7, <1>8, WritesStayGood, Zenon
  <1>10. y.c.obj # "deleted"
    BY <1>8
  <1>11. PICK z : z = do_read(y)
    OBVIOUS
  <1>12. /\ z \in State /\ Ends(z)
         /\ z.c.state = y.c.state /\ z.c.fragment = y.c.fragment
         /\ z.c.message = y.c.message /\ z.log.got = y.log.got
         /\ z.log.handled = y.log.handled /\ z.log.called = y.log.called
         /\ z.log.split = y.log.split /\ (z.rd = y.rd \/ z.rd = "pending")
    BY <1>8, <1>10, <1>11, DoReadKeeps
  <1>13. y.c.state = "MiniHeader" /\ y.c.fragment = <<>> /\ y.rd = "none"
    BY <1>8 DEF Reader
  <1>14. Framed(z, <<>>)
    BY <1>12, <1>13 DEF Framed
  <1>15. <<>> \in Seq(AFrame)
    OBVIOUS
  <1>16. Good(z, <<>>)
    BY <1>9, <1>12, <1>14, <1>15, StaysGood, Zenon
  <1> QED
    BY <1>2, <1>6, <1>11, <1>16, Zenon DEF start

\* The object of a request that asks for no websocket is deleted at once.
LEMMA DeletedIsGood ==
  ASSUME NEW x, Good(x, <<>>), x.rd = "none", x.wr = "none", x.c.state = "MiniHeader",
         x.c.sending_buffers = <<>>, x.c.is_reading = FALSE
  PROVE  Good([x EXCEPT !.c.obj = "deleted", !.c.open = FALSE, !.log.ended = TRUE], <<>>)
  <1>1. x \in State /\ x.c \in Conn /\ x.log \in Log /\ Ends(x)
    BY DEF Good, State
  <1>2. PICK d : d = [x.c EXCEPT !.obj = "deleted", !.open = FALSE]
    OBVIOUS
  <1>3. /\ d \in Conn /\ d.state = x.c.state /\ d.message = x.c.message
        /\ d.is_reading = x.c.is_reading /\ d.write_buffers = x.c.write_buffers
        /\ d.sending_buffers = x.c.sending_buffers
        /\ d.has_sent_close = x.c.has_sent_close /\ d.has_recv_close = x.c.has_recv_close
    BY <1>1, <1>2 DEF Conn
  <1>4. PICK l : l = [x.log EXCEPT !.ended = TRUE]
    OBVIOUS
  <1>5. /\ l \in Log /\ l.called = x.log.called /\ l.handed = x.log.handed
        /\ l.got = x.log.got /\ l.handled = x.log.handled /\ l.split = x.log.split
        /\ l.touched = x.log.touched
    BY <1>1, <1>4 DEF Log
  <1>6. PICK y : y = [x EXCEPT !.c = d, !.log = l]
    OBVIOUS
  <1>7. y = [x EXCEPT !.c.obj = "deleted", !.c.open = FALSE, !.log.ended = TRUE]
    BY <1>1, <1>2, <1>4, <1>6 DEF State
  <1>8. y \in State /\ y.c = d /\ y.log = l /\ y.rd = x.rd /\ y.wr = x.wr
    BY <1>1, <1>3, <1>5, <1>6 DEF State
  <1>9. /\ y.c.is_reading = FALSE /\ y.c.sending_buffers = <<>>
        /\ y.c.write_buffers = x.c.write_buffers
        /\ y.c.has_sent_close = x.c.has_sent_close /\ y.c.has_recv_close = x.c.has_recv_close
        /\ y.log.called = x.log.called /\ y.log.handed = x.log.handed
        /\ y.log.touched = x.log.touched
    BY <1>3, <1>5, <1>8, Zenon
  <1>10. Ends(y)
    BY <1>1, <1>8, <1>9, Zenon DEF Ends
  <1>11. Framed(y, <<>>)
    BY <1>3, <1>8 DEF Framed
  <1>12. <<>> \in Seq(AFrame)
    OBVIOUS
  <1>13. /\ y.c.message = x.c.message /\ y.log.got = x.log.got
         /\ y.log.handled = x.log.handled /\ y.log.split = x.log.split
    BY <1>3, <1>5, <1>8
  <1>14. Good(y, <<>>)
    BY <1>8, <1>9, <1>10, <1>11, <1>12, <1>13, StaysGood, Zenon
  <1> QED
    BY <1>7, <1>14, Zenon

\* The record of the connection's variables.
LEMMA NowIs ==
  /\ Now.c = c /\ Now.rd = rd /\ Now.wr = wr /\ Now.log = log
  /\ \A x \in State : x.c = c /\ x.rd = rd /\ x.wr = wr /\ x.log = log => Now = x
  BY DEF Now, State

\* A new connection is good.
LEMMA InitIsGood == Init => WsInv
  <1> SUFFICES ASSUME Init PROVE WsInv
    OBVIOUS
  <1>1. PICK b \in BOOLEAN :
          LET x == [c |-> Members(b), rd |-> "none", wr |-> "none", log |-> NoLog]
          IN \/ Is(start(x))
             \/ Is([x EXCEPT !.c.obj = "deleted", !.c.open = FALSE, !.log.ended = TRUE])
    BY DEF Init
  <1>2. PICK x : x = [c |-> Members(b), rd |-> "none", wr |-> "none", log |-> NoLog]
    OBVIOUS
  <1>3. /\ Good(x, <<>>) /\ x.c.obj = "live" /\ x.rd = "none" /\ x.c.state = "MiniHeader"
        /\ x.c.sending_buffers = <<>> /\ x.c.is_reading = FALSE /\ x.c.fragment = <<>>
        /\ x.wr = "none"
    BY <1>1, <1>2, Constructed, Zenon
  <1>4. PICK y : /\ Is(y)
                 /\ \/ y = start(x)
                    \/ y = [x EXCEPT !.c.obj = "deleted", !.c.open = FALSE, !.log.ended = TRUE]
    BY <1>1, <1>2, Zenon
  <1>5. Good(y, <<>>)
    BY <1>3, <1>4, StartIsGood, DeletedIsGood, Zenon
  <1>6. Now = y
    BY <1>4, <1>5, NowIs DEF Is, Good
  <1>7. inbox = <<>>
    BY DEF Init
  <1> QED
    BY <1>5, <1>6, <1>7 DEF WsInv

\* The next state of the connection is the one its functions computed.
LEMMA BecomesGood ==
  ASSUME NEW x, Good(x, inbox'), Becomes(x)
  PROVE  WsInv'
  <1>1. x \in State
    BY DEF Good
  <1>2. Now' = x
    <2>1. Now' = [c |-> x.c, rd |-> x.rd, wr |-> x.wr, log |-> x.log]
      BY DEF Now, Becomes
    <2> QED
      BY <1>1, <2>1 DEF State
  <1> QED
    BY <1>2 DEF WsInv

\* A read of the connection returned, as far as Finished says.
LEMMA FinishedIs ==
  ASSUME WsInv, c.obj = "live"
  PROVE  LET y == Finished
         IN  /\ y \in State /\ Ends(y) /\ y.rd = "none" /\ y.log = log /\ y.c.obj = "live"
             /\ y.c.state = c.state /\ y.c.frame = c.frame /\ y.c.message = c.message
             /\ y.c.remaining = c.remaining /\ y.c.fragment = c.fragment
  <1>1. PICK x : x = Now
    OBVIOUS
  <1>2. x \in State /\ Ends(x) /\ x.c.obj = "live"
    BY <1>1, NowIs DEF WsInv, Good
  <1>3. LET y == [x EXCEPT !.c.is_reading = FALSE, !.rd = "none"]
        IN  /\ y \in State /\ Ends(y) /\ y.rd = "none" /\ y.log = x.log /\ y.c.obj = "live"
            /\ y.c.state = x.c.state /\ y.c.frame = x.c.frame /\ y.c.message = x.c.message
            /\ y.c.remaining = x.c.remaining /\ y.c.fragment = x.c.fragment
    BY <1>2, ReadReturned, Zenon
  <1>4. Finished = [x EXCEPT !.c.is_reading = FALSE, !.rd = "none"]
    BY <1>1, Zenon DEF Finished
  <1>5. x.c = c /\ x.log = log
    BY <1>1, NowIs
  <1> QED
    BY <1>3, <1>4, <1>5, Zenon

\* mini_header.
LEMMA MiniHeaderStep == WsInv /\ mini_header => WsInv'
  <1> SUFFICES ASSUME WsInv, mini_header PROVE WsInv'
    OBVIOUS
  <1>1. PICK x, y, q : x = Now /\ y = Finished /\ q = inbox
    OBVIOUS
  <1>2. /\ Good(x, q) /\ x.rd = "data" /\ x.c.obj = "live" /\ x.c.state = "MiniHeader"
        /\ x.c = c /\ x.log = log
    BY <1>1, NowIs DEF WsInv, mini_header, Reading
  <1>3. /\ y \in State /\ Ends(y) /\ y.rd = "none" /\ y.log = x.log /\ y.c.obj = "live"
        /\ y.c.state = "MiniHeader" /\ y.c.message = x.c.message
        /\ y.c.fragment = x.c.fragment
    BY <1>1, <1>2, FinishedIs, Zenon
  <1>4. q \in Seq(AFrame) /\ q # <<>>
    BY <1>2 DEF Good, Framed
  <1>5. PICK f : f = Head(q)
    OBVIOUS
  <1>6. f \in AFrame
    BY <1>4, <1>5, HeadTailProperties
  <1>7. Good(HeaderRead(y, f), q)
    BY <1>2, <1>3, <1>4, <1>5, <1>6, HeaderStaysGood
  <1>8. Becomes(HeaderRead(y, f)) /\ inbox' = q
    BY <1>1, <1>5 DEF mini_header
  <1> QED
    BY <1>7, <1>8, BecomesGood, Zenon

\* mini_header_split.
LEMMA SplitStep == WsInv /\ mini_header_split => WsInv'
  <1> SUFFICES ASSUME WsInv, mini_header_split PROVE WsInv'
    OBVIOUS
  <1>1. PICK x, y, q : x = Now /\ y = Finished /\ q = inbox
    OBVIOUS
  <1>2. /\ Good(x, q) /\ x.rd = "data" /\ x.c.obj = "live" /\ x.c.state = "MiniHeader"
        /\ x.c = c /\ x.log = log
    BY <1>1, NowIs DEF WsInv, mini_header_split, Reading
  <1>3. /\ y \in State /\ Ends(y) /\ y.rd = "none" /\ y.log = x.log /\ y.c.obj = "live"
        /\ y.c.state = "MiniHeader" /\ y.c.message = x.c.message
        /\ y.c.fragment = x.c.fragment
    BY <1>1, <1>2, FinishedIs, Zenon
  <1>4. q \in Seq(AFrame) /\ q # <<>>
    BY <1>2 DEF Good, Framed
  <1>5. PICK f \in Frames : /\ Becomes(HeaderRead([y EXCEPT !.log.split = TRUE], f))
                            /\ inbox' = <<f>> \o Tail(q)
    BY <1>1 DEF mini_header_split
  <1>6. f \in AFrame
    BY <1>5, FramesAreFrames
  <1>7. PICK s : s = <<f>> \o Tail(q)
    OBVIOUS
  <1>8. s \in Seq(AFrame) /\ s # <<>> /\ f = Head(s)
    <2>1. PICK a, g : a = Tail(q) /\ g = <<f>>
      OBVIOUS
    <2>2. a \in Seq(AFrame)
      BY <1>4, <2>1, HeadTailProperties
    <2>3. g \in Seq(AFrame) /\ Len(g) = 1 /\ g[1] = f
      BY <1>6, <2>1
    <2>4. /\ s \in Seq(AFrame) /\ Len(s) = 1 + Len(a) /\ Len(a) \in Nat
          /\ s[1] = f
      BY <1>7, <2>1, <2>2, <2>3, ConcatProperties
    <2> QED
      BY <2>4
  <1>9. PICK l : l = [y.log EXCEPT !.split = TRUE]
    OBVIOUS
  <1>10. y.log \in Log
    BY <1>3 DEF State
  <1>11. /\ l \in Log /\ l.called = y.log.called /\ l.handed = y.log.handed
         /\ l.got = y.log.got /\ l.handled = y.log.handled /\ l.split = TRUE
         /\ l.touched = y.log.touched
    BY <1>9, <1>10 DEF Log
  <1>12. PICK z : z = [y EXCEPT !.log = l]
    OBVIOUS
  <1>13. z \in State /\ z.c = y.c /\ z.rd = y.rd /\ z.wr = y.wr /\ z.log = l
    BY <1>3, <1>11, <1>12 DEF State
  <1>14. z = [y EXCEPT !.log.split = TRUE]
    BY <1>9, <1>12
  <1>15. Ends(z)
    <2>1. z.log.called = y.log.called /\ z.log.handed = y.log.handed
          /\ z.log.touched = y.log.touched
      BY <1>11, <1>13
    <2> QED
      BY <1>3, <1>13, <2>1, Zenon DEF Ends
  <1>16. /\ z.rd = "none" /\ z.c.obj = "live" /\ z.c.state = "MiniHeader"
         /\ z.c.message = x.c.message /\ z.c.fragment = x.c.fragment
         /\ z.log.got = x.log.got /\ z.log.handled = x.log.handled
         /\ z.log.called = x.log.called /\ z.log.split = TRUE
    BY <1>3, <1>11, <1>13, Zenon
  <1>17. Good(HeaderRead(z, f), s)
    BY <1>2, <1>6, <1>8, <1>13, <1>15, <1>16, HeaderStaysGood
  <1>18. Becomes(HeaderRead(z, f)) /\ inbox' = s
    BY <1>5, <1>7, <1>14, Zenon
  <1> QED
    BY <1>17, <1>18, BecomesGood, Zenon

\* length.
LEMMA LengthStep == WsInv /\ length => WsInv'
  <1> SUFFICES ASSUME WsInv, length PROVE WsInv'
    OBVIOUS
  <1>1. PICK x, y, q : x = Now /\ y = Finished /\ q = inbox
    OBVIOUS
  <1>2. /\ Good(x, q) /\ x.rd = "data" /\ x.c.obj = "live" /\ x.c.state # "MiniHeader"
        /\ x.c = c /\ x.log = log
    BY <1>1, NowIs DEF WsInv, length, Reading
  <1>3. /\ y \in State /\ Ends(y) /\ y.rd = "none" /\ y.log = x.log /\ y.c.obj = "live"
        /\ y.c.state = x.c.state /\ y.c.message = x.c.message
        /\ y.c.fragment = x.c.fragment /\ y.c.frame = x.c.frame
    BY <1>1, <1>2, FinishedIs, Zenon
  <1>4. q \in Seq(AFrame) /\ q # <<>> /\ x.c.frame = Head(q)
    BY <1>2 DEF Good, Framed
  <1>5. PICK n : n = Len(Head(q).body)
    OBVIOUS
  <1>6. n \in Int
    <2>1. Head(q) \in AFrame
      BY <1>4, HeadTailProperties
    <2> QED
      BY <1>5, <2>1 DEF AFrame
  <1>7. PICK d : d = [y.c EXCEPT !.state = "Mask", !.remaining = n]
    OBVIOUS
  <1>8. y.c \in Conn
    BY <1>3 DEF State
  <1>9. /\ ReadOnly(y.c, d) /\ d.frame = y.c.frame /\ d.fragment = y.c.fragment
        /\ d.state = "Mask" /\ d.remaining = n
    BY <1>6, <1>7, <1>8 DEF ReadOnly, Conn
  <1>10. PICK z : z = [y EXCEPT !.c = d]
    OBVIOUS
  <1>11. d.state \in {"Mask", "Payload"} /\ d.remaining = Len(y.c.frame.body)
    BY <1>3, <1>4, <1>5, <1>9
  <1>12. Good(do_read(z), q)
    BY <1>2, <1>3, <1>9, <1>10, <1>11, NextStateStaysGood, Zenon
  <1>13. z = [y EXCEPT !.c.state = "Mask", !.c.remaining = n]
    BY <1>3, <1>7, <1>10 DEF State
  <1>14. Becomes(do_read(z)) /\ inbox' = q
    BY <1>1, <1>5, <1>13, Zenon DEF length
  <1> QED
    BY <1>12, <1>14, BecomesGood, Zenon

\* mask.
LEMMA MaskStep == WsInv /\ mask => WsInv'
  <1> SUFFICES ASSUME WsInv, mask PROVE WsInv'
    OBVIOUS
  <1>1. PICK x, y, q : x = Now /\ y = Finished /\ q = inbox
    OBVIOUS
  <1>2. /\ Good(x, q) /\ x.rd = "data" /\ x.c.obj = "live" /\ x.c.state = "Mask"
        /\ x.c = c /\ x.log = log
    BY <1>1, NowIs DEF WsInv, mask, Reading
  <1>3. /\ y \in State /\ Ends(y) /\ y.rd = "none" /\ y.log = x.log /\ y.c.obj = "live"
        /\ y.c.state = x.c.state /\ y.c.message = x.c.message /\ y.c.remaining = x.c.remaining
        /\ y.c.fragment = x.c.fragment /\ y.c.frame = x.c.frame
    BY <1>1, <1>2, FinishedIs, Zenon
  <1>4. x.c.remaining = Len(x.c.frame.body)
    BY <1>2 DEF Good, Framed
  <1>5. PICK d : d = [y.c EXCEPT !.state = "Payload"]
    OBVIOUS
  <1>6. y.c \in Conn
    BY <1>3 DEF State
  <1>7. /\ ReadOnly(y.c, d) /\ d.frame = y.c.frame /\ d.fragment = y.c.fragment
        /\ d.state = "Payload" /\ d.remaining = y.c.remaining
    BY <1>5, <1>6 DEF ReadOnly, Conn
  <1>8. PICK z : z = [y EXCEPT !.c = d]
    OBVIOUS
  <1>9. /\ d.state \in {"Mask", "Payload"} /\ d.remaining = Len(y.c.frame.body)
        /\ x.c.state # "MiniHeader"
    BY <1>2, <1>3, <1>4, <1>7
  <1>10. Good(do_read(z), q)
    BY <1>2, <1>3, <1>7, <1>8, <1>9, NextStateStaysGood, Zenon
  <1>11. z = [y EXCEPT !.c.state = "Payload"]
    BY <1>5, <1>8
  <1>12. Becomes(do_read(z)) /\ inbox' = q
    BY <1>1, <1>11, Zenon DEF mask
  <1> QED
    BY <1>10, <1>12, BecomesGood, Zenon

\* payload: part of a frame, or the rest of it.
LEMMA PayloadStep ==
  ASSUME WsInv, NEW n \in 0 .. BufferSize, payload(n)
  PROVE  WsInv'
  <1>1. PICK x, y, q : x = Now /\ y = Finished /\ q = inbox
    OBVIOUS
  <1>2. /\ Good(x, q) /\ x.rd = "data" /\ x.c.obj = "live" /\ x.c.state = "Payload"
        /\ x.c = c /\ x.log = log
    BY <1>1, NowIs DEF WsInv, payload, Reading
  <1>3. /\ y \in State /\ Ends(y) /\ y.rd = "none" /\ y.log = x.log /\ y.c.obj = "live"
        /\ y.c.state = "Payload" /\ y.c.message = x.c.message /\ y.c.remaining = x.c.remaining
        /\ y.c.fragment = x.c.fragment /\ y.c.frame = x.c.frame
    BY <1>1, <1>2, FinishedIs, Zenon
  <1>4. n \in Nat /\ n <= x.c.remaining
    <2>1. n <= c.remaining
      BY Zenon DEF payload
    <2> QED
      BY <1>2, <2>1, WebSocketAssumption
  <1>5. PICK z : z = [y EXCEPT !.c.fragment = @ \o Arrived(Head(q).body, n),
                               !.c.remaining = @ - n]
    OBVIOUS
  <1>6. /\ z \in State /\ Ends(z) /\ z.rd = "none" /\ z.log = x.log /\ z.c.obj = "live"
        /\ z.c.state = "Payload" /\ z.c.frame = Head(q) /\ z.c.message = x.c.message
        /\ z.c.fragment = <<>> \o Arrived(Head(q).body, n)
        /\ q # <<>> /\ q \in Seq(AFrame) /\ Head(q) \in AFrame
        /\ x.c.remaining = Len(Head(q).body)
    <2>1. LET v == [y EXCEPT !.c.fragment = @ \o Arrived(Head(q).body, n),
                             !.c.remaining = @ - n]
          IN  /\ v \in State /\ Ends(v) /\ v.rd = "none" /\ v.log = x.log /\ v.c.obj = "live"
              /\ v.c.state = "Payload" /\ v.c.frame = Head(q) /\ v.c.message = x.c.message
              /\ v.c.fragment = <<>> \o Arrived(Head(q).body, n)
              /\ q # <<>> /\ q \in Seq(AFrame) /\ Head(q) \in AFrame
              /\ x.c.remaining = Len(Head(q).body)
      BY <1>2, <1>3, <1>4, BytesArrive, Zenon
    <2> QED
      BY <1>5, <2>1, Zenon
  <1>7. IF n = x.c.remaining
        THEN /\ Becomes(do_read([handle_fragment(z) EXCEPT !.c.state = "MiniHeader"]))
             /\ inbox' = Tail(q)
        ELSE Becomes(z) /\ inbox' = q
    BY <1>1, <1>2, <1>5, Zenon DEF payload, Arrived
  <1>8. CASE n = x.c.remaining
    <2>1. z.c.fragment = <<>> \o Arrived(Head(q).body, Len(Head(q).body))
      BY <1>6, <1>8
    <2>2. PICK k : k = do_read([handle_fragment(z) EXCEPT !.c.state = "MiniHeader"])
      OBVIOUS
    <2>3. Good(k, Tail(q))
      BY <1>2, <1>6, <2>1, <2>2, WholeStaysGood, Zenon
    <2>4. Becomes(k) /\ inbox' = Tail(q)
      BY <1>7, <1>8, <2>2, Zenon
    <2> QED
      BY <2>3, <2>4, BecomesGood, Zenon
  <1>9. CASE n # x.c.remaining
    <2>1. Good(z, q)
      BY <1>2, <1>6, PartStaysGood, Zenon
    <2>2. Becomes(z) /\ inbox' = q
      BY <1>7, <1>9, Zenon
    <2> QED
      BY <2>1, <2>2, BecomesGood, Zenon
  <1> QED
    BY <1>8, <1>9

\* read_failed.
LEMMA ReadFailedStep == WsInv /\ read_failed => WsInv'
  <1> SUFFICES ASSUME WsInv, read_failed PROVE WsInv'
    OBVIOUS
  <1>1. PICK x, y, q : x = Now /\ y = Finished /\ q = inbox
    OBVIOUS
  <1>2. Good(x, q) /\ x.c.obj = "live" /\ x.c = c /\ x.log = log
    BY <1>1, NowIs DEF WsInv, read_failed
  <1>3. /\ y \in State /\ Ends(y) /\ y.rd = "none" /\ y.log = x.log
        /\ y.c.state = x.c.state /\ y.c.message = x.c.message /\ y.c.frame = x.c.frame
    BY <1>1, <1>2, FinishedIs, Zenon
  <1>4. PICK k : k = Failed(y)
    OBVIOUS
  <1>5. k \in State /\ Ends(k) /\ Reader(k) = Reader(y) /\ k.log.called = y.log.called
    BY <1>3, <1>4, FailedKeeps
  <1>6. /\ k.c.state = x.c.state /\ k.c.frame = x.c.frame /\ k.c.message = x.c.message
        /\ k.rd = "none" /\ k.log.got = x.log.got /\ k.log.handled = x.log.handled
        /\ k.log.split = x.log.split
    BY <1>3, <1>5 DEF Reader
  <1>7. q \in Seq(AFrame) /\ (x.c.state # "MiniHeader" => q # <<>> /\ x.c.frame = Head(q))
    BY <1>2, Zenon DEF Good, Framed
  <1>8. Framed(k, q)
    BY <1>6, <1>7 DEF Framed
  <1>9. k.log.called = x.log.called
    BY <1>3, <1>5
  <1>10. Good(k, q)
    BY <1>2, <1>5, <1>6, <1>7, <1>8, <1>9, StaysGood, Zenon
  <1>11. Becomes(k) /\ inbox' = q
    BY <1>1, <1>4 DEF read_failed
  <1> QED
    BY <1>10, <1>11, BecomesGood, Zenon

\* write_done.
LEMMA WriteDoneStep == WsInv /\ write_done => WsInv'
  <1> SUFFICES ASSUME WsInv, write_done PROVE WsInv'
    OBVIOUS
  <1>1. PICK x, q : x = Now /\ q = inbox
    OBVIOUS
  <1>2. Good(x, q) /\ x.c.obj = "live"
    BY <1>1, NowIs DEF WsInv, write_done
  <1>3. PICK b \in BOOLEAN : b = c.has_sent_close
    <2>1. x.c \in Conn /\ x.c = c
      BY <1>1, <1>2, NowIs DEF Good, State
    <2> QED
      BY <2>1 DEF Conn
  <1>4. PICK y : y = [x EXCEPT !.c.sending_buffers = <<>>, !.wr = "none"]
    OBVIOUS
  <1>5. PICK more : more = IF y.c.write_buffers = <<>> THEN y ELSE do_write(y)
    OBVIOUS
  <1>6. /\ Good([more EXCEPT !.c.close_connection = b], q)
        /\ Good(check_destroy([y EXCEPT !.c.close_connection = TRUE]), q)
    <2>1. LET v == [x EXCEPT !.c.sending_buffers = <<>>, !.wr = "none"]
              m == IF v.c.write_buffers = <<>> THEN v ELSE do_write(v)
          IN  /\ Good([m EXCEPT !.c.close_connection = b], q)
              /\ Good(check_destroy([v EXCEPT !.c.close_connection = TRUE]), q)
      BY <1>2, <1>3, WriteDoneStaysGood, Zenon
    <2> QED
      BY <1>4, <1>5, <2>1, Zenon
  <1>7. PICK k : /\ Becomes(k)
                 /\ \/ k = [more EXCEPT !.c.close_connection = b]
                    \/ k = check_destroy([y EXCEPT !.c.close_connection = TRUE])
    <2>1. Becomes(IF wr = "ok" /\ ~c.close_connection
                  THEN [more EXCEPT !.c.close_connection = b]
                  ELSE check_destroy([y EXCEPT !.c.close_connection = TRUE]))
      BY <1>1, <1>3, <1>4, <1>5, Zenon DEF write_done
    <2> QED
      BY <2>1, Zenon
  <1>8. Good(k, q) /\ inbox' = q
    BY <1>1, <1>6, <1>7, Zenon DEF write_done
  <1> QED
    BY <1>7, <1>8, BecomesGood, Zenon

\* Every text of the application is a payload.
LEMMA TextsAreBytes == Texts \subseteq Seq(Byte)
  <1>1. STRING \subseteq Byte
    BY DEF Byte
  <1>2. Seq(STRING) \subseteq Seq(Byte)
    BY <1>1, SeqMonotonic
  <1> QED
    BY <1>2, FramesAssumption

\* send_text() and send_binary().
LEMMA SendStep ==
  ASSUME WsInv, NEW op \in {"text", "binary"}, NEW body \in Texts, send(op, body)
  PROVE  WsInv'
  <1>1. PICK x, q, h : x = Now /\ q = inbox /\ h = build_header(op, Len(body))
    OBVIOUS
  <1>2. Good(x, q) /\ x.c.obj = "live" /\ x \in State /\ Ends(x)
    BY <1>1, NowIs DEF WsInv, send, Call, Good
  <1>3. body \in Seq(Byte) /\ op \in Ops
    BY TextsAreBytes DEF Ops
  <1>4. PICK f : f = [header |-> h, body |-> body]
    OBVIOUS
  <1>5. f \in Sendable
    BY <1>1, <1>3, <1>4, HeaderFits
  <1>6. h.op = op
    <2>1. Len(body) \in Nat
      BY <1>3
    <2> QED
      BY <1>1, <2>1, WebSocketAssumption DEF build_header
  <1>7. f.header.op # "pong"
    BY <1>4, <1>6
  <1>8. PICK k : k = Queued(x, h, body)
    OBVIOUS
  <1>9. Wrote(x, k) /\ k.log.called = Append(x.log.called, f)
    BY <1>2, <1>4, <1>5, <1>8, QueuedKeeps
  <1>10. k \in State /\ Ends(k) /\ Reader(k) = Reader(x)
    BY <1>9 DEF Wrote
  <1>11. Good(k, q)
    BY <1>2, <1>5, <1>7, <1>9, <1>10, WritesStayGood, Zenon
  <1>12. Becomes(k) /\ inbox' = q
    BY <1>1, <1>8 DEF send
  <1> QED
    BY <1>11, <1>12, BecomesGood, Zenon

\* The application's close().
LEMMA UserCloseStep ==
  ASSUME WsInv, NEW body \in Texts, user_close(body)
  PROVE  WsInv'
  <1>1. PICK x, q : x = Now /\ q = inbox
    OBVIOUS
  <1>2. Good(x, q) /\ x.c.obj = "live" /\ x \in State /\ Ends(x)
    BY <1>1, NowIs DEF WsInv, user_close, Call, Good
  <1>3. body \in Seq(Byte)
    BY TextsAreBytes
  <1>4. PICK k : k = close(x, body)
    OBVIOUS
  <1>5. /\ Wrote(x, k)
        /\ \E f \in Sendable : /\ k.log.called = Append(x.log.called, f)
                               /\ f.header.op # "pong"
    BY <1>2, <1>3, <1>4, CloseKeeps
  <1>6. k \in State /\ Ends(k) /\ Reader(k) = Reader(x)
    BY <1>5 DEF Wrote
  <1>7. Good(k, q)
    BY <1>2, <1>5, <1>6, WritesStayGood, Zenon
  <1>8. Becomes(k) /\ inbox' = q
    BY <1>1, <1>4 DEF user_close
  <1> QED
    BY <1>7, <1>8, BecomesGood, Zenon

\* The socket completes a read.
LEMMA ReadCompletesStep == WsInv /\ read_completes => WsInv'
  <1> SUFFICES ASSUME WsInv, read_completes PROVE WsInv'
    OBVIOUS
  <1>1. PICK x, q, v : x = Now /\ q = inbox /\ v = rd'
    OBVIOUS
  <1>2. /\ Good(x, q) /\ x \in State /\ Ends(x) /\ Framed(x, q) /\ q \in Seq(AFrame)
        /\ x.rd = "pending" /\ x.c = c /\ x.log = log /\ x.wr = wr
    BY <1>1, NowIs DEF WsInv, read_completes, Good
  <1>3. /\ v \in {"data", "error"} /\ inbox' = q /\ c' = x.c /\ wr' = x.wr /\ log' = x.log
        /\ v = "data" => q # <<>> \/ x.c.state = "Payload"
    BY <1>1, <1>2 DEF read_completes
  <1>4. PICK k : k = [x EXCEPT !.rd = v]
    OBVIOUS
  <1>5. k \in State /\ k.c = x.c /\ k.rd = v /\ k.wr = x.wr /\ k.log = x.log
    BY <1>2, <1>3, <1>4 DEF State, Reads
  <1>6. k.rd # "none" /\ x.rd # "none"
    BY <1>2, <1>3, <1>5
  <1>7. Ends(k)
    BY <1>2, <1>5, <1>6, Zenon DEF Ends
  <1>8. Framed(k, q)
    BY <1>2, <1>3, <1>5, <1>6 DEF Framed
  <1>9. Good(k, q)
    BY <1>2, <1>5, <1>7, <1>8, Zenon DEF Good
  <1>10. Becomes(k)
    BY <1>1, <1>3, <1>5 DEF Becomes
  <1> QED
    BY <1>3, <1>9, <1>10, BecomesGood, Zenon

\* The socket completes a write.
LEMMA WriteCompletesStep == WsInv /\ write_completes => WsInv'
  <1> SUFFICES ASSUME WsInv, write_completes PROVE WsInv'
    OBVIOUS
  <1>1. PICK x, q, v : x = Now /\ q = inbox /\ v = wr'
    OBVIOUS
  <1>2. /\ Good(x, q) /\ x \in State /\ Ends(x) /\ Framed(x, q) /\ q \in Seq(AFrame)
        /\ x.wr = "pending" /\ x.c = c /\ x.log = log /\ x.rd = rd
    BY <1>1, NowIs DEF WsInv, write_completes, Good
  <1>3. v \in {"ok", "failed"} /\ inbox' = q /\ c' = x.c /\ rd' = x.rd /\ log' = x.log
    BY <1>1, <1>2 DEF write_completes
  <1>4. PICK k : k = [x EXCEPT !.wr = v]
    OBVIOUS
  <1>5. k \in State /\ k.c = x.c /\ k.wr = v /\ k.rd = x.rd /\ k.log = x.log
    BY <1>2, <1>3, <1>4 DEF State, Writes
  <1>6. k.wr # "none" /\ x.wr # "none"
    BY <1>2, <1>3, <1>5
  <1>7. Ends(k)
    BY <1>2, <1>5, <1>6, Zenon DEF Ends
  <1>8. Framed(k, q)
    BY <1>2, <1>5, Zenon DEF Framed
  <1>9. Good(k, q)
    BY <1>2, <1>5, <1>7, <1>8, Zenon DEF Good
  <1>10. Becomes(k)
    BY <1>1, <1>3, <1>5 DEF Becomes
  <1> QED
    BY <1>3, <1>9, <1>10, BecomesGood, Zenon

\* The peer sends a frame.
LEMMA PeerSendsStep ==
  ASSUME WsInv, NEW f \in Frames, peer_sends(f)
  PROVE  WsInv'
  <1>1. PICK x, q, s : x = Now /\ q = inbox /\ s = Append(q, f)
    OBVIOUS
  <1>2. /\ Good(x, q) /\ x \in State /\ Ends(x) /\ Framed(x, q) /\ q \in Seq(AFrame)
        /\ x.c = c /\ x.log = log /\ x.rd = rd /\ x.wr = wr
    BY <1>1, NowIs DEF WsInv, Good
  <1>3. f \in AFrame
    BY FramesAreFrames
  <1>4. s \in Seq(AFrame) /\ s # <<>> /\ (q # <<>> => Head(s) = Head(q))
    <2>1. s \in Seq(AFrame) /\ s # <<>>
      BY <1>1, <1>2, <1>3, AppendProperties
    <2>2. Head(s) = IF q = <<>> THEN f ELSE Head(q)
      BY <1>1, <1>2, <1>3, HeadTailAppend
    <2> QED
      BY <2>1, <2>2
  <1>5. Framed(x, s)
    BY <1>2, <1>4 DEF Framed
  <1>6. Good(x, s)
    BY <1>2, <1>4, <1>5, Zenon DEF Good
  <1>7. Becomes(x) /\ inbox' = s
    BY <1>1, <1>2 DEF peer_sends, Becomes
  <1> QED
    BY <1>6, <1>7, BecomesGood, Zenon

\* The peer leaves, or nothing happens.
LEMMA IdleStep ==
  ASSUME WsInv, UNCHANGED <<c, rd, wr, inbox, log>>
  PROVE  WsInv'
  <1>1. PICK x, q : x = Now /\ q = inbox
    OBVIOUS
  <1>2. Good(x, q) /\ x.c = c /\ x.log = log /\ x.rd = rd /\ x.wr = wr
    BY <1>1, NowIs DEF WsInv
  <1>3. Becomes(x) /\ inbox' = q
    BY <1>1, <1>2 DEF Becomes
  <1> QED
    BY <1>2, <1>3, BecomesGood, Zenon

\* The invariant holds from the constructor to the end.
THEOREM WebSocketInvariant == Spec => []WsInv
  <1>1. Init => WsInv
    BY InitIsGood
  <1>2. WsInv /\ [Next]_vars => WsInv'
    <2> SUFFICES ASSUME WsInv, [Next]_vars PROVE WsInv'
      OBVIOUS
    <2>1. CASE socket
      BY <2>1, ReadCompletesStep, WriteCompletesStep DEF socket
    <2>2. CASE callbacks
      <3>1. CASE \E n \in 0 .. BufferSize : payload(n)
        BY <3>1, PayloadStep
      <3>2. CASE mini_header \/ mini_header_split \/ length \/ mask
        BY <3>2, MiniHeaderStep, SplitStep, LengthStep, MaskStep, Zenon
      <3>3. CASE read_failed \/ write_done
        BY <3>3, ReadFailedStep, WriteDoneStep, Zenon
      <3> QED
        BY <2>2, <3>1, <3>2, <3>3, Zenon DEF callbacks
    <2>3. CASE user
      <3>1. PICK body \in Texts : send("text", body) \/ send("binary", body) \/ user_close(body)
        BY <2>3 DEF user
      <3>2. CASE send("text", body) \/ send("binary", body)
        BY <3>1, <3>2, SendStep
      <3>3. CASE user_close(body)
        BY <3>1, <3>3, UserCloseStep
      <3> QED
        BY <3>1, <3>2, <3>3
    <2>4. CASE peer_leaves
      BY <2>4, IdleStep DEF peer_leaves
    <2>5. CASE \E f \in Frames : peer_sends(f)
      BY <2>5, PeerSendsStep
    <2>6. CASE UNCHANGED vars
      BY <2>6, IdleStep DEF vars
    <2> QED
      BY <2>1, <2>2, <2>3, <2>4, <2>5, <2>6, Zenon DEF Next
  <1> QED
    BY <1>1, <1>2, PTL DEF Spec

\* A deleted connection has no callback outstanding; do_read() runs on it only
\* behind the answer to this side's close.
THEOREM DeletedWebSocketRests == Spec => []DeletedIsLeftAlone
  <1>1. WsInv => DeletedIsLeftAlone
    <2> SUFFICES ASSUME WsInv, c.obj = "deleted"
                 PROVE  /\ rd = "none" /\ wr = "none"
                        /\ log.touched => c.has_sent_close /\ c.has_recv_close
      BY DEF DeletedIsLeftAlone
    <2>1. PICK x : x = Now
      OBVIOUS
    <2>2. /\ x \in State /\ Ends(x) /\ x.c = c /\ x.rd = rd /\ x.wr = wr /\ x.log = log
      BY <2>1, NowIs DEF WsInv, Good
    <2>3. x.rd = "none" /\ x.wr = "none"
      BY <2>2, Zenon DEF Ends
    <2>4. log \in Log
      BY <2>2 DEF State
    <2>5. log.touched => log.touched = TRUE
      BY <2>4 DEF Log
    <2>6. log.touched = TRUE => c.has_sent_close = TRUE /\ c.has_recv_close = TRUE
      BY <2>2, Zenon DEF Ends
    <2> QED
      BY <2>2, <2>3, <2>5, <2>6, Zenon
  <1> QED
    BY <1>1, WebSocketInvariant, PTL

\* Frames are handed to the socket in the order of the calls, each once, and
\* every header announces its payload's size.
THEOREM WebSocketFramesLeaveInOrder == Spec => []FramesLeaveInOrder
  <1>1. WsInv => FramesLeaveInOrder
    <2> SUFFICES ASSUME WsInv PROVE FramesLeaveInOrder
      OBVIOUS
    <2>1. PICK x : x = Now
      OBVIOUS
    <2>2. x \in State /\ Ends(x) /\ x.c = c /\ x.log = log
      BY <2>1, NowIs DEF WsInv, Good
    <2>3. log.called = log.handed \o c.write_buffers
      BY <2>2, Zenon DEF Ends
    <2>4. log.called \in Seq(Sendable)
      BY <2>2 DEF State, Log
    <2>5. \A i \in DOMAIN log.called : log.called[i] \in Sendable
      BY <2>4
    <2>6. \A i \in DOMAIN log.called :
            LET f == log.called[i]
            IN (f.header.op = "pong" => Len(f.body) < Size7) => Announced(f.header) = Len(f.body)
      BY <2>5, Zenon DEF Sendable
    <2> QED
      BY <2>3, <2>6, Zenon DEF FramesLeaveInOrder
  <1> QED
    BY <1>1, WebSocketInvariant, PTL

\* The two halves of WholeMessagesArrive, of the frames with data and of the
\* pings among those handled.
MessagesArrived(data) ==
  ~log.split /\ (\A k \in data : log.handled[k].fin /\ log.handled[k].op # "continuation")
    => \E f \in [data -> DOMAIN log.got] :
         /\ InOrder(f, data, DOMAIN log.got)
         /\ \A k \in data : log.got[f[k]] = [body   |-> log.handled[k].body,
                                             binary |-> log.handled[k].op = "binary"]

PingsAnswered(pings) ==
  \E f \in [pings -> Pongs] :
    /\ InOrder(f, pings, Pongs)
    /\ \A k \in pings : log.called[f[k]].body = log.handled[k].body

\* The message handler gets every whole message once, in order, unmasked, with
\* its kind, and every ping is answered by its pong, in order.
THEOREM WebSocketMessagesArrive == Spec => []WholeMessagesArrive
  <1>1. WsInv => WholeMessagesArrive
    <2> SUFFICES ASSUME WsInv PROVE WholeMessagesArrive
      OBVIOUS
    <2>1. PICK x : x = Now
      OBVIOUS
    <2>2. /\ x \in State /\ x.c = c /\ x.log = log
          /\ AllDelivered(x.log, x.c.message) /\ AllAnswered(x.log)
      BY <2>1, NowIs DEF WsInv, Good
    <2>3. PICK data, pings : data = Handled(DataOps) /\ pings = Handled({"ping"})
      OBVIOUS
    <2>4. data = Places(log.handled, DataOps) /\ pings = Places(log.handled, {"ping"})
      BY <2>3, Zenon DEF Handled, Places
    <2>5. Pongs = PongPlaces(log.called)
      BY Zenon DEF Pongs, PongPlaces
    <2>6. log \in Log
      BY <2>2 DEF State
    <2>7. \E f \in [pings -> Pongs] :
            /\ InOrder(f, pings, Pongs)
            /\ \A k \in pings : log.called[f[k]].body = log.handled[k].body
      BY <2>2, <2>4, <2>5, Zenon DEF AllAnswered
    <2>8. ASSUME ~log.split,
                 \A k \in data : log.handled[k].fin /\ log.handled[k].op # "continuation"
          PROVE  \E f \in [data -> DOMAIN log.got] :
                   /\ InOrder(f, data, DOMAIN log.got)
                   /\ \A k \in data : log.got[f[k]] = [body   |-> log.handled[k].body,
                                                       binary |-> log.handled[k].op = "binary"]
      <3>1. log.split = FALSE
        BY <2>6, <2>8 DEF Log
      <3>2. \A k \in data : log.handled[k].fin = TRUE
        <4>1. log.handled \in Seq(AFrame \cup {NoFrame})
          BY <2>6 DEF Log
        <4>2. \A k \in data : log.handled[k] \in AFrame \cup {NoFrame}
          BY <2>4, <4>1 DEF Places
        <4>3. \A g \in AFrame \cup {NoFrame} : g.fin \in BOOLEAN
          <5>1. \A g \in AFrame : g.fin \in BOOLEAN
            BY DEF AFrame
          <5>2. NoFrame.fin \in BOOLEAN
            BY DEF NoFrame
          <5> QED
            BY <5>1, <5>2, Zenon
        <4> QED
          BY <2>8, <4>2, <4>3
      <3>3. Whole(log)
        BY <2>4, <2>8, <3>1, <3>2, Zenon DEF Whole
      <3> QED
        BY <2>2, <2>4, <3>3, Zenon DEF AllDelivered, Delivered
    <2>9. data = Handled({"continuation", "text", "binary"})
      BY <2>3, Zenon DEF DataOps
    <2>10. MessagesArrived(data)
      BY <2>8, Zenon DEF MessagesArrived
    <2>11. PingsAnswered(pings)
      BY <2>7, Zenon DEF PingsAnswered
    <2>12. /\ MessagesArrived(Handled({"continuation", "text", "binary"}))
           /\ PingsAnswered(Handled({"ping"}))
      BY <2>3, <2>9, <2>10, <2>11, Zenon
    <2> QED
      BY <2>12, Zenon DEF WholeMessagesArrive, MessagesArrived, PingsAnswered
  <1> QED
    BY <1>1, WebSocketInvariant, PTL
=============================================================================
