----------------------------- MODULE TimerQueue -----------------------------
(***************************************************************************)
(* crow::detail::dumb_timer_queue, together with the two functions of      *)
(* Connection that use it.  A queue belongs to one worker thread, so its   *)
(* operations do not interleave inside one another.                        *)
(*                                                                         *)
(* Keys and step_ are C ints: they are kept as residues 0 .. IntRange-1,   *)
(* which loses nothing, since the code only ever uses the difference of a  *)
(* key and step_, cast to unsigned.                                        *)
(***************************************************************************)
EXTENDS Integers, Sequences

CONSTANTS Conn,       \* the connections served by this worker
          Tick,       \* dumb_timer_queue::tick (5 s in the code)
          IntRange,   \* number of values of an int (2^32 in the code)
          NoHandler,  \* an empty std::function, x.second == nullptr
          NoKey       \* a key whose .first is nullptr

ASSUME TickAssumption == Tick \in Nat \ {0}
ASSUME IntRangeAssumption == IntRange \in Nat \ {0}
ASSUME NoHandlerAssumption == NoHandler \notin Conn
ASSUME NoKeyAssumption == NoKey \notin Int

VARIABLES dq,    \* dq_: <<[age, f], ...>>; age is now - x.first, capped at Tick
          step,  \* step_, the key of the front entry
          key,   \* key[c]: timer_cancel_key_ of connection c
          sock,  \* sock[c]: the socket of connection c, "none" without a Connection
          since  \* since[c]: timers added after c's key was issued (auxiliary)

vars == <<dq, step, key, sock, since>>

Entry == [age : 0 .. Tick, f : Conn \cup {NoHandler}]

\* No Connection object; adaptor_.is_open(); closed, object still there.
SocketState == {"none", "open", "closed"}

TypeOK ==
  /\ dq \in Seq(Entry)
  /\ step \in 0 .. (IntRange - 1)
  /\ key \in [Conn -> (0 .. (IntRange - 1)) \cup {NoKey}]
  /\ sock \in [Conn -> SocketState]
  /\ since \in [Conn -> 0 .. IntRange]

Init ==
  /\ dq = << >>
  /\ step = 0
  /\ key = [c \in Conn |-> NoKey]
  /\ sock = [c \in Conn |-> "none"]
  /\ since = [c \in Conn |-> 0]

-----------------------------------------------------------------------------
(* int arithmetic modulo IntRange, on arguments at most IntRange apart. *)

Wrap(n) == IF n >= IntRange THEN n - IntRange ELSE n

\* (unsigned int)(k.second - self->step_)
UnsignedDiff(a, b) == IF a >= b THEN a - b ELSE a - b + IntRange

\* Mistake: the bounds check of cancel() spares the last entry.
CancelledButLast(k) ==
  IF k = NoKey \/ UnsignedDiff(k, step) + 1 >= Len(dq)
  THEN dq
  ELSE [dq EXCEPT ![UnsignedDiff(k, step) + 1] =
                      [age |-> @.age, f |-> NoHandler]]

\* The deque after cancel(k): the entry k designates, if it is still
\* queued, loses its handler.
Cancelled(k) ==
  IF k = NoKey \/ UnsignedDiff(k, step) >= Len(dq)
  THEN dq
  ELSE [dq EXCEPT ![UnsignedDiff(k, step) + 1] =
                      [age |-> @.age, f |-> NoHandler]]

\* add(f): the entry appended for connection c, and the key returned.
Added(q, c) == Append(q, [age |-> 0, f |-> c])

\* Mistake: the key is computed after the entry was appended.
AddedKeyLate == Wrap(step + Len(dq) + 1)

AddedKey == Wrap(step + Len(dq))

\* Mistake: an entry is due only once it is older than tick.
DueLater(i) == dq[i].age > Tick

\* process() handles the longest prefix of entries that are due: its loop
\* breaks at the first entry that is not.
Due(i) == dq[i].age >= Tick

\* Mistake: one entry per call of process().
DueFirst(n) == n = 1 /\ Due(1)

DuePrefix(n) ==
  /\ \A i \in 1 .. n : Due(i)
  /\ n < Len(dq) => ~Due(n + 1)

\* The bound under which int keys are as good as unbounded ones: at most
\* IntRange queued timers, and no key kept across IntRange further ones.
KeyWindow(c) ==
  /\ Len(dq) < IntRange
  /\ \A d \in Conn \ {c} : key[d] # NoKey => since[d] + 2 <= IntRange

-----------------------------------------------------------------------------
\* do_accept(): a Connection is created with an empty timer_cancel_key_.
accept(c) ==
  /\ sock[c] = "none"
  /\ sock' = [sock EXCEPT ![c] = "open"]
  /\ UNCHANGED <<dq, step, key, since>>

\* Connection::start_deadline(): cancel the running deadline, add a new one.
start_deadline(c) ==
  /\ sock[c] = "open"
  /\ KeyWindow(c)
  /\ dq' = Added(Cancelled(key[c]), c)
  /\ key' = [key EXCEPT ![c] = AddedKey]
  /\ since' = [d \in Conn |-> IF d = c THEN 0
                              ELSE IF key[d] # NoKey THEN since[d] + 1
                              ELSE since[d]]
  /\ UNCHANGED <<step, sock>>

\* Connection::cancel_deadline_timer().
cancel_deadline_timer(c) ==
  /\ sock[c] # "none"
  /\ dq' = Cancelled(key[c])
  /\ key' = [key EXCEPT ![c] = NoKey]
  /\ since' = [since EXCEPT ![c] = 0]
  /\ UNCHANGED <<step, sock>>

\* adaptor_.close() in the read and write handlers: the deadline, if it is
\* still running, is left alone.
close(c) ==
  /\ sock[c] = "open"
  /\ sock' = [sock EXCEPT ![c] = "closed"]
  /\ UNCHANGED <<dq, step, key, since>>

\* Connection::~Connection(): the timer is cancelled, the socket destroyed.
destroy(c) ==
  /\ sock[c] # "none"
  /\ dq' = Cancelled(key[c])
  /\ key' = [key EXCEPT ![c] = NoKey]
  /\ since' = [since EXCEPT ![c] = 0]
  /\ sock' = [sock EXCEPT ![c] = "none"]
  /\ UNCHANGED step

\* dumb_timer_queue::process(): call the handlers that are due, which
\* close their connection's socket, and drop their entries.  The keys of
\* those connections are now stale; nobody resets them.
process ==
  \E n \in 1 .. Len(dq) :
    /\ DuePrefix(n)
    /\ sock' = [c \in Conn |->
                  IF sock[c] = "open" /\ \E i \in 1 .. n : dq[i].f = c
                  THEN "closed" ELSE sock[c]]
    /\ dq' = SubSeq(dq, n + 1, Len(dq))
    /\ step' = Wrap(step + n)
    /\ UNCHANGED <<key, since>>

\* steady_clock: one more second.
elapse ==
  /\ dq' = [i \in 1 .. Len(dq) |->
              [age |-> IF dq[i].age < Tick THEN dq[i].age + 1 ELSE Tick,
               f |-> dq[i].f]]
  /\ UNCHANGED <<step, key, sock, since>>

Next ==
  \/ \E c \in Conn : \/ accept(c)
                     \/ start_deadline(c)
                     \/ cancel_deadline_timer(c)
                     \/ close(c)
                     \/ destroy(c)
  \/ process
  \/ elapse

Spec == Init /\ [][Next]_vars

\* Each worker re-arms a one-second timer that calls process(), and the
\* clock does not stop.
FairSpec == Spec /\ WF_vars(process) /\ WF_vars(elapse)

-----------------------------------------------------------------------------
\* The index cancel() computes for c's key.
Index(c) == UnsignedDiff(key[c], step)

\* A held key is live while its entry is queued, and stale afterwards.
Live(c) == key[c] # NoKey /\ Index(c) < Len(dq)

\* The index computed for a live key is the position of an entry that has
\* its owner's handler, and the index computed for a stale key lies beyond
\* the queue: cancel() in dumb_timer_queue.h never removes the deadline of
\* another connection, also after the int counters have wrapped around.
KeysDesignateOwnEntry ==
  \A c \in Conn : key[c] # NoKey =>
    IF Live(c)
    THEN /\ dq[Index(c) + 1].f = c
         /\ Index(c) + since[c] + 1 = Len(dq)
    ELSE Index(c) + since[c] + 1 = Len(dq) + IntRange

\* Every handler still queued belongs to a connection that holds its key,
\* so a connection that cancelled its deadline, or was destroyed, is never
\* called back by process().
HandlersAreOwned ==
  \A i \in 1 .. Len(dq), c \in Conn :
    dq[i].f = c => key[c] # NoKey /\ Index(c) = i - 1

\* The queue is sorted by age: process() may stop at the first entry that
\* is not due (dumb_timer_queue.h breaks out of its loop there).
OldestFirst ==
  \A i, j \in 1 .. Len(dq) : i <= j => dq[i].age >= dq[j].age

\* The queue holds at most as many timers as there are keys.
QueueBounded == Len(dq) <= IntRange

\* Without a Connection there is no key: the destructor cancels its timer.
NoConnectionNoKey == \A c \in Conn : sock[c] = "none" => key[c] = NoKey

\* The inductive invariant.
Inv ==
  /\ TypeOK
  /\ QueueBounded
  /\ KeysDesignateOwnEntry
  /\ HandlersAreOwned
  /\ OldestFirst
  /\ NoConnectionNoKey

\* The abstract deadline of c: the age of its entry, if it is queued.
Deadline(c) == IF Live(c) THEN dq[Index(c) + 1].age ELSE NoKey

DT == INSTANCE DeadlineTimers
        WITH timer <- [c \in Conn |-> Deadline(c)], Off <- NoKey

\* The queue of cancelled slots and wrapping keys behaves like one
\* independent deadline per connection: each of them fires once it has run
\* for Tick, not earlier, not after it was cancelled, and closes only its
\* own connection.
ImplementsDeadlines == DT!TimerSpec

\* A deadline that is neither cancelled nor restarted eventually fires.
DeadlineFires ==
  \A c \in Conn :
    (Deadline(c) \in 1 .. Tick) ~> (Deadline(c) \notin 1 .. Tick)
=============================================================================
