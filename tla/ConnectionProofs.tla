-------------------------- MODULE ConnectionProofs --------------------------
(***************************************************************************)
(* Connection is safe to delete, and answers a peer that asks one question *)
(* at a time once per question, however many chunks the peer sends.        *)
(***************************************************************************)
EXTENDS Connection, TLAPS

-----------------------------------------------------------------------------
(* The inductive invariant. *)

Pending == {"continue", "response"}
Finished == {"ok", "failed"}
Writing == Request \cup {"expect"}   \* the chunks that make feed() write

\* Before start() nothing has happened to the object.
PostedIsFresh ==
  obj = "posted" =>
    /\ rd = "none" /\ wr = "none" /\ turn = "none" /\ ~armed
    /\ ~completed /\ ~owed /\ ~need_start /\ ~need_after /\ ~close_connection
    /\ ~is_reading /\ ~is_writing

\* turn names a completion that is queued, and is set while one is.
TurnIsQueued ==
  /\ turn = "read" => rd \in {"data", "error"}
  /\ turn = "write" => wr \in Finished
  /\ turn = "none" => rd \notin {"data", "error"} /\ wr \notin Finished

\* While it is postponed, or not wanted any more, no read is outstanding.
NoReadOutstanding ==
  /\ need_start => rd = "none" /\ need_after
  /\ obj = "live" /\ need_start => owed
  /\ need_after => rd = "none"
  /\ close_connection => rd = "none"
  /\ completed => wr # "none" \/ rd = "none"

\* A peer whose question is on its way, or is being answered, sends nothing.
PeerWaits ==
  /\ inbox \in Writing => peer \notin {"idle", "body"}
  /\ rd = "data" /\ buffer \in Writing =>
       inbox = "empty" /\ peer \notin {"idle", "body"}
  /\ wr \in Pending =>
       inbox = "empty" /\ rd # "data" /\ peer \notin {"idle", "body"}

\* While the user keeps the response, the connection is idle and open.
OwedIsIdle ==
  (obj = "live" /\ owed) =>
    /\ rd = "none" /\ wr = "none" /\ need_start /\ open /\ ~armed
    /\ ~close_connection /\ last = "later"
    /\ inbox = "empty" /\ peer \notin {"idle", "body"}

\* An answer without a read beside it is the last one, or is being aborted.
LastAnswer ==
  (obj = "live" /\ wr # "none" /\ rd = "none" /\ ~close_connection) => ~open

Inv ==
  /\ TypeOK
  /\ PostedIsFresh
  /\ NoDanglingCallback
  /\ FlagsAreExact
  /\ TurnIsQueued
  /\ NoReadOutstanding
  /\ PeerWaits
  /\ OwedIsIdle
  /\ LastAnswer
  /\ OneAnswerAtATime
  /\ WaitingIsBounded
  /\ AnswersOwed
  /\ LeakIsClosed

-----------------------------------------------------------------------------
\* The Boolean variables, apart from the others: an assignment of TRUE or
\* FALSE to one of them is a matter for Zenon.
BoolsOK ==
  /\ open \in BOOLEAN
  /\ is_reading \in BOOLEAN
  /\ is_writing \in BOOLEAN
  /\ close_connection \in BOOLEAN
  /\ completed \in BOOLEAN
  /\ need_after \in BOOLEAN
  /\ need_start \in BOOLEAN
  /\ armed \in BOOLEAN
  /\ owed \in BOOLEAN
  /\ late \in BOOLEAN

-----------------------------------------------------------------------------
USE DEF Pending, Finished, Writing, Chunk, Request, Closing, Deferred,
        flags, net, aux

\* A connection that was just accepted.
LEMMA InitInv == Init => Inv
  <1> SUFFICES ASSUME Init PROVE Inv
    OBVIOUS
  <1>1. BoolsOK
    BY Zenon DEF Init, BoolsOK
  <1>2. sent \in 0 .. MaxChunks
    BY MaxChunksAssumption DEF Init
  <1> QED
    BY <1>1, <1>2 DEF Init, BoolsOK,
      Inv, TypeOK, PostedIsFresh, NoDanglingCallback, FlagsAreExact,
      TurnIsQueued, NoReadOutstanding, PeerWaits, OwedIsIdle, LastAnswer,
      OneAnswerAtATime, WaitingIsBounded, AnswersOwed, LeakIsClosed, Leaked

\* start() arms the deadline and reads.
LEMMA StartInv == Inv /\ start => Inv'
  <1> SUFFICES ASSUME Inv, start PROVE Inv'
    OBVIOUS
  <1>1. BoolsOK'
    BY Zenon DEF BoolsOK, Inv, TypeOK, start, do_read
  <1> QED
    BY <1>1, MaxChunksAssumption
    DEF start, do_read, Queued, BoolsOK,
      Inv, TypeOK, PostedIsFresh, NoDanglingCallback, FlagsAreExact,
      TurnIsQueued, NoReadOutstanding, PeerWaits, OwedIsIdle, LastAnswer,
      OneAnswerAtATime, WaitingIsBounded, AnswersOwed, LeakIsClosed, Leaked

\* The read callback with an error closes the socket.
LEMMA ReadErrorInv == Inv /\ read_error => Inv'
  <1> SUFFICES ASSUME Inv, read_error PROVE Inv'
    OBVIOUS
  <1>1. BoolsOK'
    BY Zenon DEF BoolsOK, Inv, TypeOK, read_error, no_write, read_failed, check_destroy
  <1> QED
    BY <1>1, MaxChunksAssumption
    DEF read_error, no_write, read_failed, check_destroy, Queued, BoolsOK,
      Inv, TypeOK, PostedIsFresh, NoDanglingCallback, FlagsAreExact,
      TurnIsQueued, NoReadOutstanding, PeerWaits, OwedIsIdle, LastAnswer,
      OneAnswerAtATime, WaitingIsBounded, AnswersOwed, LeakIsClosed, Leaked

\* The write callback deletes, closes, or leaves the object to the read.
LEMMA WriteDoneInv == Inv /\ write_done => Inv'
  <1> SUFFICES ASSUME Inv, write_done PROVE Inv'
    OBVIOUS
  <1>1. BoolsOK'
    BY Zenon DEF BoolsOK, Inv, TypeOK, write_done, check_destroy
  <1> QED
    BY <1>1, MaxChunksAssumption
    DEF write_done, check_destroy, Queued, BoolsOK,
      Inv, TypeOK, PostedIsFresh, NoDanglingCallback, FlagsAreExact,
      TurnIsQueued, NoReadOutstanding, PeerWaits, OwedIsIdle, LastAnswer,
      OneAnswerAtATime, WaitingIsBounded, AnswersOwed, LeakIsClosed, Leaked

\* A response completed by the user finds the connection idle and open.
LEMMA UserEndInv == Inv /\ user_end => Inv'
  <1> SUFFICES ASSUME Inv, user_end PROVE Inv'
    OBVIOUS
  <1>1. BoolsOK'
    BY Zenon DEF BoolsOK, Inv, TypeOK, user_end, complete_request, do_write, no_write, do_read
  <1> QED
    BY <1>1, MaxChunksAssumption
    DEF user_end, complete_request, do_write, no_write, do_read, Queued, BoolsOK,
      Inv, TypeOK, PostedIsFresh, NoDanglingCallback, FlagsAreExact,
      TurnIsQueued, NoReadOutstanding, PeerWaits, OwedIsIdle, LastAnswer,
      OneAnswerAtATime, WaitingIsBounded, AnswersOwed, LeakIsClosed, Leaked

\* The deadline closes the socket and nothing else.
LEMMA DeadlineInv == Inv /\ deadline => Inv'
  <1> SUFFICES ASSUME Inv, deadline PROVE Inv'
    OBVIOUS
  <1>1. BoolsOK'
    BY Zenon DEF BoolsOK, Inv, TypeOK, deadline
  <1> QED
    BY <1>1, MaxChunksAssumption
    DEF deadline, Queued, BoolsOK,
      Inv, TypeOK, PostedIsFresh, NoDanglingCallback, FlagsAreExact,
      TurnIsQueued, NoReadOutstanding, PeerWaits, OwedIsIdle, LastAnswer,
      OneAnswerAtATime, WaitingIsBounded, AnswersOwed, LeakIsClosed, Leaked

\* A finished read queues behind a finished write.
LEMMA ReadCompletesInv == Inv /\ read_completes => Inv'
  <1> SUFFICES ASSUME Inv, read_completes PROVE Inv'
    OBVIOUS
  <1>1. BoolsOK'
    BY Zenon DEF BoolsOK, Inv, TypeOK, read_completes
  <1> QED
    BY <1>1, MaxChunksAssumption
    DEF read_completes, Queued, BoolsOK,
      Inv, TypeOK, PostedIsFresh, NoDanglingCallback, FlagsAreExact,
      TurnIsQueued, NoReadOutstanding, PeerWaits, OwedIsIdle, LastAnswer,
      OneAnswerAtATime, WaitingIsBounded, AnswersOwed, LeakIsClosed, Leaked

\* No chunk of the peer is read before the answer it waits for is written.
LEMMA WriteCompletesInv == Inv /\ write_completes => Inv'
  <1> SUFFICES ASSUME Inv, write_completes PROVE Inv'
    OBVIOUS
  <1>1. BoolsOK'
    BY Zenon DEF BoolsOK, Inv, TypeOK, write_completes
  <1> QED
    BY <1>1, MaxChunksAssumption
    DEF write_completes, Queued, BoolsOK,
      Inv, TypeOK, PostedIsFresh, NoDanglingCallback, FlagsAreExact,
      TurnIsQueued, NoReadOutstanding, PeerWaits, OwedIsIdle, LastAnswer,
      OneAnswerAtATime, WaitingIsBounded, AnswersOwed, LeakIsClosed, Leaked

\* The peer may leave at any time.
LEMMA LeaveInv == Inv /\ leave => Inv'
  <1> SUFFICES ASSUME Inv, leave PROVE Inv'
    OBVIOUS
  <1>1. BoolsOK'
    BY Zenon DEF BoolsOK, Inv, TypeOK, leave
  <1> QED
    BY <1>1, MaxChunksAssumption
    DEF leave, Queued, BoolsOK,
      Inv, TypeOK, PostedIsFresh, NoDanglingCallback, FlagsAreExact,
      TurnIsQueued, NoReadOutstanding, PeerWaits, OwedIsIdle, LastAnswer,
      OneAnswerAtATime, WaitingIsBounded, AnswersOwed, LeakIsClosed, Leaked

\* The peer sends when no answer is on its way.
LEMMA SendInv == ASSUME NEW c \in Chunk PROVE Inv /\ send(c) => Inv'
  <1> SUFFICES ASSUME Inv, send(c) PROVE Inv'
    OBVIOUS
  <1>1. BoolsOK'
    BY Zenon DEF BoolsOK, Inv, TypeOK, send
  <1> QED
    BY <1>1, MaxChunksAssumption
    DEF send, BoolsOK,
      Inv, TypeOK, PostedIsFresh, NoDanglingCallback, FlagsAreExact,
      TurnIsQueued, NoReadOutstanding, PeerWaits, OwedIsIdle, LastAnswer,
      OneAnswerAtATime, WaitingIsBounded, AnswersOwed, LeakIsClosed, Leaked

\* The read callback with data, for each kind of chunk.
LEMMA ReadDataInv == Inv /\ read_data => Inv'
  <1> SUFFICES ASSUME Inv, read_data PROVE Inv'
    OBVIOUS
  <1> USE DEF read_data, feed, read_failed, check_destroy, after_feed, do_read
  <1>1. CASE buffer \in {"part", "bad", "empty"}
    <2>1. UNCHANGED <<is_writing, wr, close_connection, completed, need_after, aux>>
      BY <1>1 DEF no_write
    <2>2. CASE buffer # "bad" /\ open
      <3>1. do_read /\ armed' = TRUE /\ UNCHANGED <<obj, open, need_start>>
        BY <2>1, <2>2 DEF Inv, NoReadOutstanding
      <3> QED
        BY <1>1, <2>1, <2>2, <3>1, MaxChunksAssumption
        DEF no_write,
            Inv, TypeOK, PostedIsFresh, NoDanglingCallback, FlagsAreExact,
            TurnIsQueued, NoReadOutstanding, PeerWaits, OwedIsIdle, LastAnswer,
            OneAnswerAtATime, WaitingIsBounded, AnswersOwed, LeakIsClosed, Leaked
    <2>3. CASE ~(buffer # "bad" /\ open)
      <3>1. /\ is_reading' = FALSE /\ rd' = "none" /\ need_start' = need_start
            /\ open' = FALSE /\ armed' = FALSE
        BY <2>3, Zenon
      <3>2. obj' = IF is_writing THEN obj ELSE "deleted"
        BY <2>1, <2>3, <3>1
      <3>3. BoolsOK'
        BY <2>1, <3>1, Zenon DEF BoolsOK, Inv, TypeOK
      <3> QED
        BY <1>1, <2>1, <3>1, <3>2, <3>3, MaxChunksAssumption
        DEF BoolsOK, no_write,
          Inv, TypeOK, PostedIsFresh, NoDanglingCallback, FlagsAreExact,
          TurnIsQueued, NoReadOutstanding, PeerWaits, OwedIsIdle, LastAnswer,
          OneAnswerAtATime, WaitingIsBounded, AnswersOwed, LeakIsClosed, Leaked
    <2> QED
      BY <2>2, <2>3
  <1>2. CASE buffer = "expect"
    BY <1>2, MaxChunksAssumption
    DEF handle_header, do_write,
      Inv, TypeOK, PostedIsFresh, NoDanglingCallback, FlagsAreExact,
      TurnIsQueued, NoReadOutstanding, PeerWaits, OwedIsIdle, LastAnswer,
      OneAnswerAtATime, WaitingIsBounded, AnswersOwed, LeakIsClosed, Leaked
  <1>3. CASE buffer = "upgrade"
    BY <1>3, MaxChunksAssumption
    DEF handle, handle_upgrade, no_write,
      Inv, TypeOK, PostedIsFresh, NoDanglingCallback, FlagsAreExact,
      TurnIsQueued, NoReadOutstanding, PeerWaits, OwedIsIdle, LastAnswer,
      OneAnswerAtATime, WaitingIsBounded, AnswersOwed, LeakIsClosed, Leaked
  <1>4. CASE buffer \in {"invalid", "invalidClose"}
    BY <1>4, MaxChunksAssumption
    DEF handle, handle_invalid, complete_request, do_write, no_write,
      Inv, TypeOK, PostedIsFresh, NoDanglingCallback, FlagsAreExact,
      TurnIsQueued, NoReadOutstanding, PeerWaits, OwedIsIdle, LastAnswer,
      OneAnswerAtATime, WaitingIsBounded, AnswersOwed, LeakIsClosed, Leaked
  <1>5. CASE buffer \in {"now", "nowClose"}
    BY <1>5, MaxChunksAssumption
    DEF handle, handle_valid, complete_request, do_write, no_write,
      Inv, TypeOK, PostedIsFresh, NoDanglingCallback, FlagsAreExact,
      TurnIsQueued, NoReadOutstanding, PeerWaits, OwedIsIdle, LastAnswer,
      OneAnswerAtATime, WaitingIsBounded, AnswersOwed, LeakIsClosed, Leaked
  <1>6. CASE buffer \in Deferred
    BY <1>6, MaxChunksAssumption
    DEF handle, handle_valid, complete_request, do_write, no_write,
      Inv, TypeOK, PostedIsFresh, NoDanglingCallback, FlagsAreExact,
      TurnIsQueued, NoReadOutstanding, PeerWaits, OwedIsIdle, LastAnswer,
      OneAnswerAtATime, WaitingIsBounded, AnswersOwed, LeakIsClosed, Leaked
  <1> QED
    BY <1>1, <1>2, <1>3, <1>4, <1>5, <1>6
    DEF Inv, TypeOK

\* One step, of whomever.
LEMMA NextInv == Inv /\ [Next]_vars => Inv'
  <1> SUFFICES ASSUME Inv, [Next]_vars PROVE Inv'
    OBVIOUS
  <1>1. CASE Worker
    BY <1>1, StartInv, ReadErrorInv, ReadDataInv, WriteDoneInv DEF Worker
  <1>2. CASE user_end \/ deadline \/ leave
    BY <1>2, UserEndInv, DeadlineInv, LeaveInv
  <1>3. CASE Network
    BY <1>3, ReadCompletesInv, WriteCompletesInv DEF Network
  <1>4. CASE \E c \in Chunk : send(c)
    BY <1>4, SendInv
  <1>5. CASE UNCHANGED vars
    BY <1>5
    DEF vars, Inv, TypeOK, PostedIsFresh, NoDanglingCallback, FlagsAreExact,
      TurnIsQueued, NoReadOutstanding, PeerWaits, OwedIsIdle, LastAnswer,
      OneAnswerAtATime, WaitingIsBounded, AnswersOwed, LeakIsClosed, Leaked
  <1> QED
    BY <1>1, <1>2, <1>3, <1>4, <1>5 DEF Next

-----------------------------------------------------------------------------
\* Inv holds in every reachable state of Connection, for every MaxChunks.
THEOREM ConnectionInvariant == Spec => []Inv
  <1> QED
    BY InitInv, NextInv, PTL DEF Spec

\* check_destroy() never deletes a Connection that an outstanding operation,
\* a queued completion or a deadline can still call back.
THEOREM DeletedIsSilent == Spec => []NoDanglingCallback
  <1>1. Inv => NoDanglingCallback
    BY DEF Inv
  <1> QED
    BY <1>1, ConnectionInvariant, PTL

\* is_reading and is_writing tell exactly which operations are outstanding.
THEOREM FlagsInvariant == Spec => []FlagsAreExact
  <1>1. Inv => FlagsAreExact
    BY DEF Inv
  <1> QED
    BY <1>1, ConnectionInvariant, PTL

\* Answers to a peer that asks one question at a time do not overlap, and
\* handle() never finds the previous response still marked completed.
THEOREM AnswersDoNotOverlap == Spec => []OneAnswerAtATime
  <1>1. Inv => OneAnswerAtATime
    BY DEF Inv
  <1> QED
    BY <1>1, ConnectionInvariant, PTL

\* A read on an open socket always runs under a deadline.
THEOREM WaitingHasDeadline == Spec => []WaitingIsBounded
  <1>1. Inv => WaitingIsBounded
    BY DEF Inv
  <1> QED
    BY <1>1, ConnectionInvariant, PTL

\* The requests whose response is destroyed before complete_request() was
\* called for it are those AnswersOwed lists, and no others.
THEOREM OnlyTheseGoUnanswered == Spec => []AnswersOwed
  <1>1. Inv => AnswersOwed
    BY DEF Inv
  <1> QED
    BY <1>1, ConnectionInvariant, PTL

\* A Connection that is never deleted has closed its socket.
THEOREM LeaksHoldNoSocket == Spec => []LeakIsClosed
  <1>1. Inv => LeakIsClosed
    BY DEF Inv
  <1> QED
    BY <1>1, ConnectionInvariant, PTL
=============================================================================
