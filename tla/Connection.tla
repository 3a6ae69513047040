----------------------------- MODULE Connection -----------------------------
(***************************************************************************)
(* crow::Connection: one accepted socket, from do_accept() to the          *)
(* "delete this" of check_destroy().  All its callbacks run on one worker  *)
(* thread, so each callback is one action; the socket, the deadline of     *)
(* TimerQueue and the user who completes a response later act in between.  *)
(*                                                                         *)
(* The completion port hands completions out in the order in which the     *)
(* operations finished (turn).  The peer asks one question at a time: it   *)
(* does not send a request before it has the answer to the previous one.   *)
(***************************************************************************)
EXTENDS Integers

CONSTANTS MaxChunks   \* bound: chunks the peer sends on this connection

ASSUME MaxChunksAssumption == MaxChunks \in Nat

VARIABLES
  obj,         \* the Connection object: "posted", "live" or "deleted"
  open,        \* adaptor_.is_open()
  is_reading,
  is_writing,
  close_connection,  \* close_connection_
  completed,   \* res.completed_
  need_after,  \* need_to_call_after_handlers_
  need_start,  \* need_to_start_read_after_complete_
  armed,       \* the timer queue holds a deadline of this connection
  rd,          \* async_read_some: "none", "pending", or finished: "data", "error"
  buffer,      \* what buffer_ holds once rd is "data"
  wr,          \* async_write: "none", "continue", "response", or finished: "ok", "failed"
  turn,        \* the completion that was queued first: "none", "read" or "write"
  peer,        \* "idle", "waiting" (for 100), "body", "asked" or "gone"
  inbox,       \* received and not yet read
  sent,        \* chunks sent so far
  last,        \* the last request handle() was called for (auxiliary)
  owed,        \* complete_request() was not yet called for it (auxiliary)
  late         \* its socket was closed before it was handled (auxiliary)

flags == <<is_reading, is_writing, close_connection, completed, need_after, need_start>>
aux == <<last, owed, late>>
net == <<peer, inbox, sent>>
vars == <<obj, open, flags, armed, rd, buffer, wr, turn, net, aux>>

\* What parser_.feed() makes of the bytes of one read.  A request is answered
\* at once, is invalid (no Host header: 400), is an upgrade, or is answered
\* later by the user; "Close" requests also set close_connection_.
Closing == {"nowClose", "invalidClose", "laterClose", "upgrade"}
Deferred == {"later", "laterClose"}
Request == {"now", "invalid", "later"} \cup Closing
Chunk == {"part", "expect", "bad"} \cup Request

TypeOK ==
  /\ obj \in {"posted", "live", "deleted"}
  /\ open \in BOOLEAN
  /\ is_reading \in BOOLEAN
  /\ is_writing \in BOOLEAN
  /\ close_connection \in BOOLEAN
  /\ completed \in BOOLEAN
  /\ need_after \in BOOLEAN
  /\ need_start \in BOOLEAN
  /\ armed \in BOOLEAN
  /\ rd \in {"none", "pending", "data", "error"}
  /\ buffer \in Chunk \cup {"empty"}
  /\ wr \in {"none", "continue", "response", "ok", "failed"}
  /\ turn \in {"none", "read", "write"}
  /\ peer \in {"idle", "waiting", "body", "asked", "gone"}
  /\ inbox \in Chunk \cup {"empty"}
  /\ sent \in 0 .. MaxChunks
  /\ last \in Request \cup {"none"}
  /\ owed \in BOOLEAN
  /\ late \in BOOLEAN

\* do_accept(): new Connection, and start() is posted to its io_service.
Init ==
  /\ obj = "posted" /\ open = TRUE
  /\ is_reading = FALSE /\ is_writing = FALSE
  /\ close_connection = FALSE /\ completed = FALSE
  /\ need_after = FALSE /\ need_start = FALSE
  /\ armed = FALSE
  /\ rd = "none" /\ buffer = "empty" /\ wr = "none" /\ turn = "none"
  /\ peer = "idle" /\ inbox = "empty" /\ sent = 0
  /\ last = "none" /\ owed = FALSE /\ late = FALSE

-----------------------------------------------------------------------------
(* The parts the callbacks are made of. *)

do_read == is_reading' = TRUE /\ rd' = "pending"

do_write(what) == is_writing' = TRUE /\ wr' = what

no_write == UNCHANGED <<is_writing, wr>>

\* Mistake: check_destroy() looks at is_reading only.
check_destroy_reading(opened, timer) ==
  IF ~is_reading'
  THEN obj' = "deleted" /\ open' = FALSE /\ armed' = FALSE
  ELSE UNCHANGED obj /\ open' = opened /\ armed' = timer

\* The object goes once neither flag is set; ~Connection() cancels the
\* deadline and destroys the socket.
check_destroy(opened, timer) ==
  IF ~is_reading' /\ ~is_writing'
  THEN obj' = "deleted" /\ open' = FALSE /\ armed' = FALSE
  ELSE UNCHANGED obj /\ open' = opened /\ armed' = timer

\* complete_request(), up to do_write().
complete_request ==
  /\ need_after' = FALSE
  /\ owed' = FALSE
  /\ IF open THEN do_write("response") ELSE no_write

\* handle_header(): 100 Continue, whether or not the socket is still open.
handle_header ==
  /\ do_write("continue")
  /\ UNCHANGED <<close_connection, completed, need_after, aux>>

\* handle() for an upgrade.  No rule of the app is a websocket rule, so the
\* router answers 404: it ends a response that has no completion handler.
handle_upgrade ==
  /\ completed' = TRUE
  /\ owed' = TRUE
  /\ no_write
  /\ UNCHANGED need_after

\* handle() for a request without a Host header.
handle_invalid ==
  /\ completed' = FALSE
  /\ complete_request

\* handle() for a valid request.  A response that is still marked completed
\* is sent instead of calling the router.
handle_valid ==
  IF completed
  THEN complete_request /\ UNCHANGED completed
  ELSE IF buffer \in Deferred
  THEN /\ need_after' = TRUE
       /\ owed' = TRUE
       /\ no_write
       /\ UNCHANGED completed
  ELSE completed' = TRUE /\ complete_request

handle ==
  /\ last' = buffer
  /\ late' = ~open
  /\ close_connection' = (close_connection \/ buffer \in Closing)
  /\ CASE buffer = "upgrade" -> handle_upgrade
       [] buffer \in {"invalid", "invalidClose"} -> handle_invalid
       [] OTHER -> handle_valid

\* parser_.feed(): the calls the parser makes for the bytes read.
feed ==
  CASE buffer = "expect" -> handle_header
    [] buffer \in Request -> handle
    [] OTHER -> /\ no_write
                /\ UNCHANGED <<close_connection, completed, need_after, aux>>

\* Mistake: the socket is not closed after an error.
read_failed_keeps_open ==
  /\ is_reading' = FALSE /\ rd' = "none"
  /\ UNCHANGED need_start
  /\ check_destroy(open, FALSE)

\* error_while_reading
read_failed ==
  /\ is_reading' = FALSE /\ rd' = "none"
  /\ UNCHANGED need_start
  /\ check_destroy(FALSE, FALSE)

\* Mistake: the read is resumed without a deadline.
after_feed_no_deadline ==
  IF close_connection'
  THEN /\ is_reading' = FALSE /\ rd' = "none"
       /\ UNCHANGED need_start
       /\ check_destroy(open, FALSE)
  ELSE IF ~need_after'
  THEN do_read /\ armed' = FALSE /\ UNCHANGED <<obj, open, need_start>>
  ELSE /\ need_start' = TRUE /\ armed' = FALSE /\ rd' = "none"
       /\ UNCHANGED <<obj, open, is_reading>>

\* Mistake: the read is not postponed until the user completes the response.
after_feed_reads_on ==
  IF close_connection'
  THEN /\ is_reading' = FALSE /\ rd' = "none"
       /\ UNCHANGED need_start
       /\ check_destroy(open, FALSE)
  ELSE do_read /\ armed' = TRUE /\ UNCHANGED <<obj, open, need_start>>

\* What the read callback does after a chunk was parsed without an error.
after_feed ==
  IF close_connection'
  THEN /\ is_reading' = FALSE /\ rd' = "none"
       /\ UNCHANGED need_start
       /\ check_destroy(open, FALSE)
  ELSE IF ~need_after'
  THEN /\ do_read
       /\ armed' = TRUE
       /\ UNCHANGED <<obj, open, need_start>>
  ELSE /\ need_start' = TRUE
       /\ armed' = FALSE
       /\ rd' = "none"
       /\ UNCHANGED <<obj, open, is_reading>>

-----------------------------------------------------------------------------
(* The steps of the worker thread. *)

\* start(): the plain SocketAdaptor calls back at once, without an error.
start ==
  /\ obj = "posted"
  /\ obj' = "live"
  /\ armed' = TRUE
  /\ do_read
  /\ UNCHANGED <<open, is_writing, close_connection, completed, need_after,
                 need_start, buffer, wr, turn, net, aux>>

\* The callback of async_read_some, with an error.
read_error ==
  /\ rd = "error" /\ turn = "read"
  /\ no_write
  /\ read_failed
  /\ turn' = IF wr \in {"ok", "failed"} THEN "write" ELSE "none"
  /\ UNCHANGED <<close_connection, completed, need_after, buffer, net, aux>>

\* The callback of async_read_some, with data.
read_data ==
  /\ rd = "data" /\ turn = "read"
  /\ feed
  /\ IF buffer # "bad" /\ open THEN after_feed ELSE read_failed
  /\ turn' = IF wr \in {"ok", "failed"} THEN "write" ELSE "none"
  /\ UNCHANGED <<buffer, net>>

\* Mistake: res is not cleared.
write_done_no_clear ==
  /\ wr \in {"ok", "failed"} /\ turn = "write"
  /\ is_writing' = FALSE /\ wr' = "none"
  /\ UNCHANGED is_reading
  /\ IF wr = "ok" /\ ~close_connection
     THEN UNCHANGED <<obj, open, armed>>
     ELSE check_destroy(open /\ wr = "failed", armed)
  /\ turn' = IF rd \in {"data", "error"} THEN "read" ELSE "none"
  /\ UNCHANGED <<completed, close_connection, need_after, need_start, rd, buffer,
                 net, aux>>

\* The callback of async_write.
write_done ==
  /\ wr \in {"ok", "failed"} /\ turn = "write"
  /\ is_writing' = FALSE /\ wr' = "none"
  /\ completed' = FALSE
  /\ UNCHANGED is_reading
  /\ IF wr = "ok"
     THEN IF close_connection
          THEN check_destroy(FALSE, armed)
          ELSE UNCHANGED <<obj, open, armed>>
     ELSE check_destroy(open, armed)
  /\ turn' = IF rd \in {"data", "error"} THEN "read" ELSE "none"
  /\ UNCHANGED <<close_connection, need_after, need_start, rd, buffer, net, aux>>

\* Mistake: the read is resumed without a deadline once the user is done.
user_end_no_deadline ==
  /\ obj = "live" /\ owed /\ last \in Deferred
  /\ completed' = TRUE
  /\ complete_request
  /\ IF open /\ need_start
     THEN need_start' = FALSE /\ do_read
     ELSE UNCHANGED <<need_start, is_reading, rd>>
  /\ UNCHANGED <<obj, open, armed, close_connection, buffer, turn, net, last, late>>

\* The user calls res.end() on a response it kept: complete_request(), which
\* also starts the next read unless it returned early.
user_end ==
  /\ obj = "live" /\ owed /\ last \in Deferred
  /\ completed' = TRUE
  /\ complete_request
  /\ IF open /\ need_start
     THEN need_start' = FALSE /\ armed' = TRUE /\ do_read
     ELSE UNCHANGED <<need_start, armed, is_reading, rd>>
  /\ UNCHANGED <<obj, open, close_connection, buffer, turn, net, last, late>>

\* The deadline that start_deadline() added closes the socket.
deadline ==
  /\ armed
  /\ armed' = FALSE
  /\ open' = FALSE
  /\ UNCHANGED <<obj, flags, rd, buffer, wr, turn, net, aux>>

Worker == start \/ read_error \/ read_data \/ write_done

-----------------------------------------------------------------------------
(* The socket and the peer. *)

Queued(op) == IF turn = "none" THEN op ELSE turn

read_completes ==
  /\ rd = "pending"
  /\ turn' = Queued("read")
  /\ \/ /\ open /\ inbox # "empty"
        /\ rd' = "data" /\ buffer' = inbox /\ inbox' = "empty"
     \/ /\ ~open \/ peer = "gone"
        /\ rd' = "error"
        /\ UNCHANGED <<buffer, inbox>>
  /\ UNCHANGED <<obj, open, flags, armed, wr, peer, sent, aux>>

write_completes ==
  /\ wr \in {"continue", "response"}
  /\ turn' = Queued("write")
  /\ \/ /\ open
        /\ wr' = "ok"
        /\ peer' = CASE peer = "waiting" /\ wr = "continue" -> "body"
                     [] peer = "asked" /\ wr = "response" -> "idle"
                     [] OTHER -> peer
     \/ /\ ~open \/ peer = "gone"
        /\ wr' = "failed"
        /\ UNCHANGED peer
  /\ UNCHANGED <<obj, open, flags, armed, rd, buffer, inbox, sent, aux>>

\* What the peer sends is merged with a part of it that was not read yet.
send(c) ==
  /\ sent < MaxChunks
  /\ inbox \in {"empty", "part"}
  /\ \/ peer = "idle"
     \/ peer = "body" /\ c \notin {"expect", "upgrade"}
  /\ peer' = CASE c \in Request -> "asked"
               [] c = "expect" -> "waiting"
               [] OTHER -> peer
  /\ inbox' = c
  /\ sent' = sent + 1
  /\ UNCHANGED <<obj, open, flags, armed, rd, buffer, wr, turn, aux>>

leave ==
  /\ peer # "gone"
  /\ peer' = "gone"
  /\ UNCHANGED <<obj, open, flags, armed, rd, buffer, wr, turn, inbox, sent, aux>>

Network == read_completes \/ write_completes

Next ==
  \/ Worker \/ user_end \/ deadline
  \/ Network \/ leave
  \/ \E c \in Chunk : send(c)

Spec == Init /\ [][Next]_vars

\* The worker runs what is queued, a deadline that is not cancelled fires,
\* and an operation that can finish does.  The peer and the user owe nothing.
FairSpec ==
  Spec /\ WF_vars(Worker) /\ WF_vars(deadline)
       /\ WF_vars(read_completes) /\ WF_vars(write_completes)

-----------------------------------------------------------------------------
\* Nothing can call back into a deleted Connection: check_destroy() deletes
\* only when no read and no write is outstanding or queued, and the
\* destructor leaves no deadline behind.
NoDanglingCallback ==
  obj = "deleted" => rd = "none" /\ wr = "none" /\ ~armed

\* is_reading and is_writing, on which check_destroy() relies, are exact: a
\* live connection has them set while the operation is outstanding or its
\* callback is queued (is_reading also while the read is postponed until the
\* user completes the response).
FlagsAreExact ==
  obj = "live" => /\ (is_reading <=> rd # "none" \/ need_start)
                  /\ (is_writing <=> wr # "none")

\* When the read callback gets a chunk that makes it write, no write is
\* outstanding and res was cleared: answers to a peer that asks one question
\* at a time never overlap, and none of them is an earlier answer sent again.
OneAnswerAtATime ==
  (rd = "data" /\ turn = "read" /\ buffer \in Request \cup {"expect"})
    => wr = "none" /\ ~completed

\* A connection that waits for its peer on an open socket has a deadline.
WaitingIsBounded ==
  rd = "pending" /\ open => armed

\* A Connection goes without complete_request() having been called for its
\* last request only if that was an upgrade, a deferred response on a closing
\* connection, or a deferred one whose socket the deadline had closed before.
AnswersOwed ==
  (obj = "deleted" /\ owed)
    => last \in {"upgrade", "laterClose"} \/ (last = "later" /\ late)

\* Nothing will ever call back into this Connection, yet it was not deleted.
Leaked == obj = "live" /\ rd = "none" /\ wr = "none" /\ ~owed

\* The read callback and the write callback do not always delete the object
\* between them, but what they leak never holds an open socket, and never is
\* a connection that was going to close after its answer.
LeakIsClosed == Leaked => ~open /\ ~close_connection

\* Every connection is deleted in the end, or leaked with its socket closed,
\* unless its user keeps a response for ever without completing it.  That a
\* response was outstanding for a while excuses nothing: once it is completed
\* the connection has to come to its end.
ConnectionEnds ==
  \/ <>(obj = "deleted" \/ (Leaked /\ ~open))
  \/ <>[](obj = "live" /\ owed /\ last \in Deferred)
=============================================================================
