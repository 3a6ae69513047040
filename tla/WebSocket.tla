----------------------------- MODULE WebSocket -----------------------------
(***************************************************************************)
(* crow::websocket::Connection: one socket after its upgrade, from the     *)
(* constructor to "delete this".  Both callbacks and the user's calls run  *)
(* on the socket's worker thread (dispatch() calls at once there), each as *)
(* one action; the peer and the socket act in between.                     *)
(*                                                                         *)
(* A buffer pair (header, payload) is one frame.  Masking is modelled by   *)
(* the place of a byte in its frame: a byte that is unmasked at another    *)
(* place is garbage.                                                       *)
(***************************************************************************)
EXTENDS Integers, Sequences

CONSTANTS
  Frames,      \* the frames the peer may send: [op, fin, enc, masked, body]
  Texts,       \* the messages the application sends
  BufferSize,  \* buffer_.size()
  Size7,       \* 126: sizes below it fit into the second byte of a header
  Size16,      \* 0x10000
  MaxFrames,   \* bound: frames the peer sends
  MaxSends     \* bound: calls of the application

ASSUME WebSocketAssumption ==
  /\ BufferSize \in Nat \ {0} /\ Size7 \in Nat \ {0} /\ Size16 \in Nat /\ Size7 < Size16
  /\ MaxFrames \in Nat /\ MaxSends \in Nat

Ops == {"continuation", "text", "binary", "close", "ping", "pong"}

\* What follows a header: its kind, whether it ends a message, how its size is
\* written, whether it is masked, and the payload.
ASSUME FramesAssumption ==
  /\ Frames \subseteq [op : Ops, fin : BOOLEAN, enc : {"7", "16", "64"},
                       masked : BOOLEAN, body : Seq(STRING)]
  /\ Texts \subseteq Seq(STRING)

VARIABLES
  c,      \* the Connection object
  rd,     \* its read: "none", "pending", or finished: "data", "error"
  wr,     \* its async_write: "none", "pending", or finished: "ok", "failed"
  peer,   \* "here" or "gone"
  inbox,  \* frames received and not yet read
  sent,   \* frames sent by the peer so far
  calls,  \* calls of the application so far
  log     \* what was queued and called (auxiliary)

vars == <<c, rd, wr, peer, inbox, sent, calls, log>>

NoFrame == [op |-> "none", fin |-> FALSE, enc |-> "7", masked |-> FALSE, body |-> <<>>]

\* Mistake: "<=" in the first comparison.
build_headerMistake(op, size) ==
  IF size <= Size7 THEN [op |-> op, len |-> size, ext |-> 0]
  ELSE [op |-> op, len |-> Size7 + 1, ext |-> size]

\* build_header(): the size in seven bits, or the code of a longer field.
build_header(op, size) ==
  CASE size < Size7 -> [op |-> op, len |-> size, ext |-> 0]
    [] size >= Size7 /\ size < Size16 -> [op |-> op, len |-> Size7, ext |-> size % Size16]
    [] size >= Size16 -> [op |-> op, len |-> Size7 + 1, ext |-> size]

\* send_pong() adds the size to the second byte of its header, whatever it is.
pong_header(size) == [op |-> "pong", len |-> size % (2 * (Size7 + 2)), ext |-> 0]

\* What a frame's header says of its size.
Announced(h) == IF h.len < Size7 THEN h.len ELSE h.ext

(***************************************************************************)
(* The member functions, on the object and what is logged.  x is the state *)
(* they run in: [c, wr, rd, log].                                          *)
(***************************************************************************)
Now == [c |-> c, rd |-> rd, wr |-> wr, log |-> log]

do_write(x) ==
  IF x.c.sending_buffers # <<>> THEN x
  ELSE [x EXCEPT !.c.sending_buffers = x.c.write_buffers, !.c.write_buffers = <<>>,
                 !.wr = "pending", !.log.handed = @ \o x.c.write_buffers]

Queued(x, header, body) ==
  LET f == [header |-> header, body |-> body]
  IN do_write([x EXCEPT !.c.write_buffers = Append(@, f), !.log.called = Append(@, f)])

send_pong(x, body) == Queued(x, pong_header(Len(body)), body)

close_handler(x) == [x EXCEPT !.log.closes = IF @ < 2 THEN @ + 1 ELSE @]

close(x, body) ==
  LET y == [x EXCEPT !.c.has_sent_close = TRUE]
      z == IF y.c.has_recv_close /\ ~y.c.is_close_handler_called
           THEN close_handler([y EXCEPT !.c.is_close_handler_called = TRUE]) ELSE y
  IN Queued(z, build_header("close", Len(body)), body)

\* Mistake: the outstanding read is forgotten.
check_destroyMistake(x) ==
  LET y == IF x.c.is_close_handler_called THEN x ELSE close_handler(x)
  IN IF y.c.sending_buffers = <<>> THEN [y EXCEPT !.c.obj = "deleted"] ELSE y

check_destroy(x) ==
  LET y == IF x.c.is_close_handler_called THEN x ELSE close_handler(x)
  IN IF y.c.sending_buffers = <<>> /\ ~y.c.is_reading THEN [y EXCEPT !.c.obj = "deleted"] ELSE y

\* A deleted object is touched, not read for: what follows is undefined.
do_read(x) ==
  IF x.c.obj = "deleted" THEN [x EXCEPT !.log.touched = TRUE]
  ELSE [x EXCEPT !.c.is_reading = TRUE, !.rd = "pending"]

Unmasked(f) == [i \in DOMAIN f |-> IF f[i].place = i % 4 THEN f[i].byte ELSE "garbage"]

\* Mistake: the message is not cleared once it was delivered.
DeliverMistake(x) ==
  LET m == [x EXCEPT !.c.message = @ \o Unmasked(x.c.fragment)]
  IN IF x.c.frame.fin
     THEN [m EXCEPT !.log.got = Append(@, [body |-> m.c.message, binary |-> m.c.is_binary])]
     ELSE m

Deliver(x) ==
  LET m == [x EXCEPT !.c.message = @ \o Unmasked(x.c.fragment)]
  IN IF x.c.frame.fin
     THEN [m EXCEPT !.log.got = Append(@, [body |-> m.c.message, binary |-> m.c.is_binary]),
                    !.c.message = <<>>]
     ELSE m

\* The case of a continuation falls through to the case of a text.
handle_fragment(x) ==
  LET op == x.c.frame.op
      body == Unmasked(x.c.fragment)
      y == CASE op = "continuation" -> Deliver([Deliver(x) EXCEPT !.c.is_binary = FALSE])
             [] op = "text" -> Deliver([x EXCEPT !.c.is_binary = FALSE])
             [] op = "binary" -> Deliver([x EXCEPT !.c.is_binary = TRUE])
             [] op = "close" ->
                  LET z == [x EXCEPT !.c.has_recv_close = TRUE]
                      closed == [z EXCEPT !.c.open = FALSE, !.c.close_connection = TRUE]
                      told == IF z.c.is_close_handler_called THEN closed
                              ELSE [close_handler(closed) EXCEPT !.c.is_close_handler_called = TRUE]
                  IN IF z.c.has_sent_close THEN check_destroy(told) ELSE close(z, body)
             [] op = "ping" -> send_pong(x, body)
             [] op = "pong" -> x
  IN [y EXCEPT !.c.fragment = <<>>, !.log.handled = Append(@, x.c.frame)]

\* The constructor, for a request that asks for a websocket: start() sends the
\* answer and starts reading; for another one it deletes the object.
Members(b) == [obj |-> "live", open |-> TRUE, state |-> "MiniHeader", frame |-> NoFrame,
  remaining |-> 0, fragment |-> <<>>, message |-> <<>>, is_binary |-> b,
  is_reading |-> FALSE, close_connection |-> FALSE, has_sent_close |-> FALSE,
  has_recv_close |-> FALSE, is_close_handler_called |-> FALSE,
  write_buffers |-> <<>>, sending_buffers |-> <<>>]
NoLog == [called |-> <<>>, handed |-> <<>>, got |-> <<>>, handled |-> <<>>, closes |-> 0,
          touched |-> FALSE, split |-> FALSE, ended |-> FALSE]

start(x) ==
  do_read(Queued(x, [op |-> "101 Switching Protocols", len |-> 0, ext |-> 0], <<>>))

Is(x) == c = x.c /\ rd = x.rd /\ wr = x.wr /\ log = x.log
Becomes(x) == c' = x.c /\ rd' = x.rd /\ wr' = x.wr /\ log' = x.log

Init ==
  /\ \E b \in BOOLEAN :
       LET x == [c |-> Members(b), rd |-> "none", wr |-> "none", log |-> NoLog]
       IN \/ Is(start(x))
          \/ Is([x EXCEPT !.c.obj = "deleted", !.c.open = FALSE, !.log.ended = TRUE])
  /\ peer = "here" /\ inbox = <<>> /\ sent = 0 /\ calls = 0

(***************************************************************************)
(* The read callbacks.                                                     *)
(***************************************************************************)
network == <<peer, sent, calls>>

\* An error, or an unmasked frame: only the first three states destroy.
Failed(x) ==
  LET y == [x EXCEPT !.c.close_connection = TRUE, !.c.open = FALSE]
  IN IF x.c.state \in {"Mask", "Payload"} THEN y ELSE check_destroy(y)

Reading(s) == c.obj = "live" /\ rd = "data" /\ c.state = s
Finished == [Now EXCEPT !.c.is_reading = FALSE, !.rd = "none"]

HeaderRead(x, f) ==
  IF ~f.masked THEN Failed([x EXCEPT !.c.frame = f])
  ELSE do_read([x EXCEPT !.c.frame = f,
                  !.c.state = CASE f.enc = "64" -> "Len64" [] f.enc = "16" -> "Len16"
                                [] f.enc = "7" -> "Mask",
                  !.c.remaining = IF f.enc = "7" THEN Len(f.body) ELSE @])

mini_header ==
  /\ Reading("MiniHeader")
  /\ Becomes(HeaderRead(Finished, Head(inbox)))
  /\ UNCHANGED <<inbox, network>>

\* async_read_some() returned one byte: the rest of the header is stale, and
\* what follows on the stream is read as some other frame.
mini_header_split ==
  /\ Reading("MiniHeader")
  /\ \E f \in Frames :
       /\ Becomes(HeaderRead([Finished EXCEPT !.log.split = TRUE], f))
       /\ inbox' = <<f>> \o Tail(inbox)
  /\ UNCHANGED network

length ==
  /\ Reading("Len16") \/ Reading("Len64")
  /\ Becomes(do_read([Finished EXCEPT !.c.state = "Mask", !.c.remaining = Len(Head(inbox).body)]))
  /\ UNCHANGED <<inbox, network>>

mask ==
  /\ Reading("Mask")
  /\ Becomes(do_read([Finished EXCEPT !.c.state = "Payload"]))
  /\ UNCHANGED <<inbox, network>>

\* n bytes arrived.  Unless they complete the frame nothing is read any more.
payload(n) ==
  /\ Reading("Payload")
  /\ n <= c.remaining /\ n <= BufferSize /\ (c.remaining > 0 => n > 0)
  /\ LET body == Head(inbox).body
         bytes == [i \in 1 .. n |-> [byte |-> body[i], place |-> i % 4]]
         x == [Finished EXCEPT !.c.fragment = @ \o bytes, !.c.remaining = @ - n]
     IN IF n = c.remaining
        THEN /\ LET y == handle_fragment(x)
                IN Becomes(do_read([y EXCEPT !.c.state = "MiniHeader"]))
             /\ inbox' = Tail(inbox)
        ELSE Becomes(x) /\ UNCHANGED inbox
  /\ UNCHANGED network

read_failed ==
  /\ c.obj = "live" /\ rd = "error"
  /\ Becomes(Failed(Finished))
  /\ UNCHANGED <<inbox, network>>

(***************************************************************************)
(* The write callback and the calls of the application.                    *)
(***************************************************************************)
\* Mistake: a failed write is tried again.
write_doneMistake ==
  /\ c.obj = "live" /\ wr \in {"ok", "failed"}
  /\ LET x == [Now EXCEPT !.c.sending_buffers = <<>>, !.wr = "none"]
         more == IF x.c.write_buffers = <<>> THEN x ELSE do_write(x)
     IN Becomes(IF wr = "failed" THEN [Now EXCEPT !.wr = "pending"]
                ELSE IF c.close_connection THEN check_destroy(x)
                ELSE [more EXCEPT !.c.close_connection = c.has_sent_close])
  /\ UNCHANGED <<inbox, network>>

write_done ==
  /\ c.obj = "live" /\ wr \in {"ok", "failed"}
  /\ LET x == [Now EXCEPT !.c.sending_buffers = <<>>, !.wr = "none"]
         more == IF x.c.write_buffers = <<>> THEN x ELSE do_write(x)
     IN Becomes(IF wr = "ok" /\ ~c.close_connection
                THEN [more EXCEPT !.c.close_connection = c.has_sent_close]
                ELSE check_destroy([x EXCEPT !.c.close_connection = TRUE]))
  /\ UNCHANGED <<inbox, network>>

\* The application makes no calls once its close handler was called.
Call == c.obj = "live" /\ log.closes = 0 /\ calls < MaxSends /\ calls' = calls + 1

send(op, body) ==
  /\ Call
  /\ Becomes(Queued(Now, build_header(op, Len(body)), body))
  /\ UNCHANGED <<inbox, peer, sent>>

user_close(body) ==
  /\ Call
  /\ Becomes(close(Now, body))
  /\ UNCHANGED <<inbox, peer, sent>>

(***************************************************************************)
(* The socket and the peer.                                                *)
(***************************************************************************)
read_completes ==
  /\ rd = "pending"
  /\ \/ /\ c.open /\ (inbox # <<>> \/ (c.state = "Payload" /\ c.remaining = 0))
        /\ rd' = "data"
     \/ (~c.open \/ peer = "gone") /\ rd' = "error"
  /\ UNCHANGED <<c, wr, peer, inbox, sent, calls, log>>

write_completes ==
  /\ wr = "pending"
  /\ \/ c.open /\ wr' = "ok"
     \/ (~c.open \/ peer = "gone") /\ wr' = "failed"
  /\ UNCHANGED <<c, rd, peer, inbox, sent, calls, log>>

peer_sends(f) ==
  /\ peer = "here" /\ sent < MaxFrames
  /\ inbox' = Append(inbox, f) /\ sent' = sent + 1
  /\ UNCHANGED <<c, rd, wr, peer, calls, log>>

peer_leaves ==
  /\ peer = "here" /\ peer' = "gone"
  /\ UNCHANGED <<c, rd, wr, inbox, sent, calls, log>>

socket == read_completes \/ write_completes
callbacks == mini_header \/ mini_header_split \/ length \/ mask \/ read_failed \/ write_done
             \/ \E n \in 0 .. BufferSize : payload(n)
user == \E body \in Texts : send("text", body) \/ send("binary", body) \/ user_close(body)
Next == socket \/ callbacks \/ user \/ peer_leaves \/ \E f \in Frames : peer_sends(f)

Spec == Init /\ [][Next]_vars
FairSpec == Spec /\ WF_vars(socket) /\ WF_vars(callbacks)

(***************************************************************************)
(* Properties.                                                             *)
(***************************************************************************)
\* No callback of a deleted connection is outstanding, and do_read() runs on a
\* deleted one only in answer to a close that this side began.
DeletedIsLeftAlone ==
  c.obj = "deleted" =>
    /\ rd = "none" /\ wr = "none"
    /\ log.touched => c.has_sent_close /\ c.has_recv_close

\* Frames are handed to the socket in the order of the calls, each once, with
\* its header; the peer decodes the size each header announces.
FramesLeaveInOrder ==
  /\ log.called = log.handed \o c.write_buffers
  /\ \A i \in DOMAIN log.called :
       LET f == log.called[i]
       IN (f.header.op = "pong" => Len(f.body) < Size7) => Announced(f.header) = Len(f.body)

\* f takes the places of K to those of L, one to one and in order.
InOrder(f, K, L) ==
  /\ \A j, k \in K : j < k => f[j] < f[k]
  /\ \A l \in L : \E k \in K : f[k] = l

\* The places of some kinds of frames among those handled, and of the pongs.
Handled(ops) == {k \in DOMAIN log.handled : log.handled[k].op \in ops}
Pongs == {k \in DOMAIN log.called : log.called[k].header.op = "pong"}

\* While the peer sends unfragmented messages, the message handler gets each
\* of them once, in order, unmasked, with its kind; and every ping is answered
\* by a pong with its payload, in order.
WholeMessagesArrive ==
  LET data == Handled({"continuation", "text", "binary"})
      pings == Handled({"ping"})
  IN /\ ~log.split /\ (\A k \in data : log.handled[k].fin /\ log.handled[k].op # "continuation")
        => \E f \in [data -> DOMAIN log.got] :
             /\ InOrder(f, data, DOMAIN log.got)
             /\ \A k \in data : log.got[f[k]] = [body   |-> log.handled[k].body,
                                                 binary |-> log.handled[k].op = "binary"]
     /\ \E f \in [pings -> Pongs] :
          /\ InOrder(f, pings, Pongs)
          /\ \A k \in pings : log.called[f[k]].body = log.handled[k].body

\* A live connection without a read and without a write is stuck.
Stuck == c.obj = "live" /\ rd = "none" /\ wr = "none"

\* In a frame: a payload arrived in more than one piece, or the socket was
\* closed while a mask or a payload was being read.
InFrame == \/ c.state = "Payload" /\ c.remaining > 0
           \/ c.state \in {"Mask", "Payload"} /\ ~c.open

\* When the peer is gone the connection is deleted and its close handler was
\* told, unless it is stuck in a frame, the one place where it may get stuck.
GoneIsNoticed ==
  peer = "gone" ~> \/ c.obj = "deleted" /\ (log.closes > 0 \/ log.ended)
                   \/ Stuck /\ InFrame
=============================================================================
