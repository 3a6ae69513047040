------------------------------- MODULE Server -------------------------------
(***************************************************************************)
(* crow::Server: run() starts a pool of worker threads and waits until     *)
(* each has published its timer queue and its date function; then one      *)
(* more thread accepts connections and hands them to the workers in turn,  *)
(* until a signal stops everything.  What a connection does afterwards is  *)
(* the subject of Connection and TimerQueue.                               *)
(***************************************************************************)
EXTENDS Integers, Sequences, FiniteSets

CONSTANTS N,          \* concurrency_ (Crow::concurrency() makes it at least 1)
          MaxConns,   \* bound on the Connection objects created
          MaxCrashes  \* bound on workers that die of an exception

ASSUME NAssumption == N \in Nat \ {0}
ASSUME MaxConnsAssumption == MaxConns \in Nat \ {0}
ASSUME MaxCrashesAssumption == MaxCrashes \in Nat

Workers == 0 .. (N - 1)

VARIABLES main,        \* what run() is doing
          worker,      \* worker[w]: how far thread w has come
          date,        \* date[w]: get_cached_date_str_pool_[w]
          queue,       \* queue[w]: timer_queue_pool_[w]
          init_count,
          rr,          \* roundrobin_index_
          conns,       \* the Connections, in the order of their creation
          stopped,     \* the io_services of workers that were stopped
          crashes      \* exceptions so far

vars == <<main, worker, date, queue, init_count, rr, conns, stopped, crashes>>

\* A slot of a pool: not yet set, or referring to a local variable of the
\* worker's function, which goes when the function returns.
Slot == {"unset", "live", "gone"}

\* The io_service and the timer queue a Connection was created with.
Connections == [state : {"accepting", "posted", "started", "failed"},
                io : Nat, queue : Nat]

TypeOK ==
  /\ main \in {"spawning", "waiting", "accepting", "stopping", "joining", "returned"}
  /\ worker \in [Workers -> {"none", "begun", "dated", "queued", "counted",
                             "running", "ended"}]
  /\ date \in [Workers -> Slot]
  /\ queue \in [Workers -> Slot]
  /\ init_count \in 0 .. N
  /\ rr \in Workers
  /\ conns \in Seq(Connections)
  /\ stopped \subseteq Workers
  /\ crashes \in 0 .. MaxCrashes

Init ==
  /\ main = "spawning"
  /\ worker = [w \in Workers |-> "none"]
  /\ date = [w \in Workers |-> "unset"]
  /\ queue = [w \in Workers |-> "unset"]
  /\ init_count = 0
  /\ rr = 0
  /\ conns = << >>
  /\ stopped = {}
  /\ crashes = 0

-----------------------------------------------------------------------------
(* The worker threads. *)

\* std::async, for the next i.
spawn(w) ==
  /\ main = "spawning"
  /\ worker[w] = "none" /\ \A v \in 0 .. (w - 1) : worker[v] # "none"
  /\ worker' = [worker EXCEPT ![w] = "begun"]
  /\ main' = IF w = N - 1 THEN "waiting" ELSE main
  /\ UNCHANGED <<date, queue, init_count, rr, conns, stopped, crashes>>

set_date(w) ==
  /\ worker[w] = "begun"
  /\ worker' = [worker EXCEPT ![w] = "dated"]
  /\ date' = [date EXCEPT ![w] = "live"]
  /\ UNCHANGED <<main, queue, init_count, rr, conns, stopped, crashes>>

\* The queue is published, and the timer that calls process() is set.
set_queue(w) ==
  /\ worker[w] = "dated"
  /\ worker' = [worker EXCEPT ![w] = "queued"]
  /\ queue' = [queue EXCEPT ![w] = "live"]
  /\ UNCHANGED <<main, date, init_count, rr, conns, stopped, crashes>>

\* Mistake: a worker counts only when its io_service has returned.
count_late(w) ==
  /\ worker[w] = "queued"
  /\ worker' = [worker EXCEPT ![w] = IF w \in stopped THEN "counted" ELSE @]
  /\ init_count' = IF w \in stopped THEN init_count + 1 ELSE init_count
  /\ UNCHANGED <<main, date, queue, rr, conns, stopped, crashes>>

count(w) ==
  /\ worker[w] = "queued"
  /\ worker' = [worker EXCEPT ![w] = "counted"]
  /\ init_count' = init_count + 1
  /\ UNCHANGED <<main, date, queue, rr, conns, stopped, crashes>>

enter(w) ==
  /\ worker[w] = "counted"
  /\ worker' = [worker EXCEPT ![w] = "running"]
  /\ UNCHANGED <<main, date, queue, init_count, rr, conns, stopped, crashes>>

\* io_service::run() returns, or throws, and the thread's locals go.
End(w) ==
  /\ worker[w] = "running"
  /\ worker' = [worker EXCEPT ![w] = "ended"]
  /\ date' = [date EXCEPT ![w] = "gone"]
  /\ queue' = [queue EXCEPT ![w] = "gone"]
  /\ UNCHANGED <<main, init_count, rr, conns, stopped>>

\* A stopped io_service also returns if run() is called afterwards.
leave(w) == End(w) /\ w \in stopped /\ UNCHANGED crashes

\* An exception in a handler ends the worker: the catch is outside run().
crash(w) == End(w) /\ crashes < MaxCrashes /\ crashes' = crashes + 1

-----------------------------------------------------------------------------
(* The acceptor. *)

pick_io_service == IF rr + 1 >= N THEN 0 ELSE rr + 1

\* new Connection(is, ..., *timer_queue_pool_[roundrobin_index_], ...)
Created(i) == [state |-> "accepting", io |-> i, queue |-> i]

\* do_accept(), given the Connections as changed by the caller.
do_accept(cs) ==
  /\ rr' = pick_io_service
  /\ conns' = Append(cs, Created(pick_io_service))

\* Mistake: no waiting for the workers.
begin_now ==
  /\ main = "waiting"
  /\ main' = "accepting"
  /\ do_accept(conns)
  /\ UNCHANGED <<worker, date, queue, init_count, stopped, crashes>>

\* while (concurrency_ != init_count) yield(); do_accept(); the thread that
\* runs io_service_ is started.
begin ==
  /\ main = "waiting"
  /\ init_count = N
  /\ main' = "accepting"
  /\ do_accept(conns)
  /\ UNCHANGED <<worker, date, queue, init_count, stopped, crashes>>

\* The handler of async_accept: the connection's start is posted to its
\* worker, or, on an error, the connection is forgotten; accept goes on.
accepted(ok) ==
  /\ main = "accepting"
  /\ Len(conns) < MaxConns
  /\ do_accept([conns EXCEPT ![Len(conns)].state = IF ok THEN "posted" ELSE "failed"])
  /\ UNCHANGED <<main, worker, date, queue, init_count, stopped, crashes>>

\* Mistake: start() is called wherever there is a thread for it.
start_anywhere(k) ==
  /\ conns[k].state = "posted"
  /\ conns' = [conns EXCEPT ![k].state = "started"]
  /\ UNCHANGED <<main, worker, date, queue, init_count, rr, stopped, crashes>>

\* Mistake: a worker that has a connection starts no other one.
start_single(k) ==
  /\ conns[k].state = "posted"
  /\ worker[conns[k].io] = "running" /\ conns[k].io \notin stopped
  /\ \A j \in 1 .. Len(conns) : conns[j].io = conns[k].io => conns[j].state # "started"
  /\ conns' = [conns EXCEPT ![k].state = "started"]
  /\ UNCHANGED <<main, worker, date, queue, init_count, rr, stopped, crashes>>

\* p->start(), on the worker: it starts the deadline of the connection.
start(k) ==
  /\ conns[k].state = "posted"
  /\ worker[conns[k].io] = "running" /\ conns[k].io \notin stopped
  /\ conns' = [conns EXCEPT ![k].state = "started"]
  /\ UNCHANGED <<main, worker, date, queue, init_count, rr, stopped, crashes>>

-----------------------------------------------------------------------------
(* The end. *)

\* SIGINT or SIGTERM: stop() in the accepting thread, first its own
\* io_service, then those of the pool one after the other.
signal ==
  /\ main = "accepting"
  /\ main' = "stopping"
  /\ UNCHANGED <<worker, date, queue, init_count, rr, conns, stopped, crashes>>

\* Mistake: only the acceptor is stopped.
stop_acceptor(w) ==
  /\ main = "stopping"
  /\ w = N - 1
  /\ main' = "joining"
  /\ UNCHANGED <<worker, date, queue, init_count, rr, conns, stopped, crashes>>

stop(w) ==
  /\ main = "stopping"
  /\ stopped = 0 .. (w - 1)
  /\ stopped' = stopped \cup {w}
  /\ main' = IF w = N - 1 THEN "joining" ELSE main
  /\ UNCHANGED <<worker, date, queue, init_count, rr, conns, crashes>>

\* The destructors of the futures in v wait for the workers.
return ==
  /\ main = "joining"
  /\ \A w \in Workers : worker[w] = "ended"
  /\ main' = "returned"
  /\ UNCHANGED <<worker, date, queue, init_count, rr, conns, stopped, crashes>>

Next ==
  \/ \E w \in Workers : \/ spawn(w) \/ set_date(w) \/ set_queue(w) \/ count(w)
                        \/ enter(w) \/ leave(w) \/ crash(w) \/ stop(w)
  \/ begin
  \/ \E ok \in BOOLEAN : accepted(ok)
  \/ \E k \in 1 .. Len(conns) : start(k)
  \/ signal
  \/ return

Spec == Init /\ [][Next]_vars

\* Every thread goes on; clients, signals and exceptions need not come.
FairSpec ==
  /\ Spec
  /\ \A w \in Workers : /\ WF_vars(spawn(w)) /\ WF_vars(set_date(w))
                        /\ WF_vars(set_queue(w)) /\ WF_vars(count(w))
                        /\ WF_vars(enter(w)) /\ WF_vars(leave(w))
                        /\ WF_vars(stop(w))
  /\ \A k \in 1 .. MaxConns : WF_vars(k <= Len(conns) /\ start(k))
  /\ WF_vars(begin)
  /\ WF_vars(return)

-----------------------------------------------------------------------------
\* No Connection is created with an empty date function or a null timer
\* queue: the acceptor begins when the last worker has published its own.
PoolsArePublished ==
  \A k \in 1 .. Len(conns) :
    LET c == conns[k]
    IN  c.queue \in Workers /\ queue[c.queue] # "unset" /\ date[c.queue] # "unset"

\* The queue of a worker that ended is gone, but the pool still refers to it
\* and new Connections are created with it: none of them is ever started.
NoStartOnGoneQueue ==
  [][\A k \in 1 .. Len(conns) :
       conns[k].state = "posted" /\ conns'[k].state = "started" =>
         queue[conns[k].queue] = "live" /\ date[conns[k].queue] = "live"]_vars

\* The workers that have passed init_count++.
Counted == {w \in Workers : worker[w] \in {"counted", "running", "ended"}}

\* What a worker has published, by how far it has come.
SlotsFollowWorkers ==
  \A w \in Workers :
    /\ date[w] = "unset" <=> worker[w] \in {"none", "begun"}
    /\ queue[w] = "unset" <=> worker[w] \in {"none", "begun", "dated"}
    /\ date[w] = "gone" <=> worker[w] = "ended"
    /\ queue[w] = "gone" <=> worker[w] = "ended"

CountIsExact == init_count = Cardinality(Counted)

\* Behind the barrier every worker has counted, and a Connection waits to be
\* accepted.
BarrierHolds ==
  IF main \in {"spawning", "waiting"}
  THEN conns = << >>
  ELSE Counted = Workers /\ conns # << >>

\* A Connection runs on the thread that owns its timer queue.
DealtToWorkers ==
  \A k \in 1 .. Len(conns) : conns[k].queue \in Workers /\ conns[k].io = conns[k].queue

\* The inductive invariant.
Inv ==
  /\ TypeOK
  /\ SlotsFollowWorkers
  /\ CountIsExact
  /\ BarrierHolds
  /\ DealtToWorkers

\* The workers and run() do not wait for each other for ever: the server
\* starts to accept.
ServerComesUp == <>(main \notin {"spawning", "waiting"})

\* An accepted connection is started, unless its worker dies or the server
\* is stopped first.
AcceptedIsStarted ==
  \A k \in 1 .. MaxConns :
    LET waits == k <= Len(conns) /\ conns[k].state = "posted"
    IN  waits ~> (~waits \/ main # "accepting" \/ worker[conns[k].io] = "ended")

\* After a signal run() returns, also when workers have died, and when a
\* worker is stopped before it has called run() on its io_service.
SignalStops == (main = "stopping") ~> (main = "returned")
=============================================================================
