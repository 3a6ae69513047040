---------------------------- MODULE ServerProofs ----------------------------
(***************************************************************************)
(* For any number of workers and connections: the barrier of run() keeps   *)
(* the acceptor away from pools that are not yet filled, and no connection *)
(* is started on a timer queue that is gone or not its own thread's.       *)
(***************************************************************************)
EXTENDS Server, FiniteSetTheorems, TLAPS

USE NAssumption, MaxConnsAssumption, MaxCrashesAssumption

\* Counting the workers.
LEMMA CountFacts ==
  ASSUME Inv
  PROVE  /\ IsFiniteSet(Counted)
         /\ init_count = N => Counted = Workers
<1>1. IsFiniteSet(Workers) /\ Cardinality(Workers) = N
  BY FS_Interval DEF Workers
<1>2. Counted \in SUBSET Workers
  BY DEF Counted
<1> QED
  BY <1>1, <1>2, FS_Subset DEF Inv, CountIsExact

\* No worker has been started, and nothing is in the pools.
LEMMA InitInv ==
  Init => Inv
<1> SUFFICES ASSUME Init PROVE Inv
  OBVIOUS
<1>1. Counted = {}
  BY DEF Init, Counted
<1>2. TypeOK
  BY DEF Init, TypeOK, Workers, Slot
<1> QED
  BY <1>1, <1>2, FS_EmptySet DEF Init, Inv, SlotsFollowWorkers, CountIsExact,
     BarrierHolds, DealtToWorkers

\* Steps of a worker other than count() that leave the Connections alone.
LEMMA WorkerInv ==
  ASSUME Inv, NEW w \in Workers,
         spawn(w) \/ set_date(w) \/ set_queue(w) \/ enter(w) \/ leave(w) \/ crash(w)
  PROVE  Inv'
<1>1. Counted' = Counted /\ init_count' = init_count /\ conns' = conns
  BY DEF Inv, TypeOK, Counted, spawn, set_date, set_queue, enter, leave, crash, End
<1>2. TypeOK'
  BY DEF Inv, TypeOK, Slot, spawn, set_date, set_queue, enter, leave, crash, End
<1>3. SlotsFollowWorkers'
  <2>1. CASE spawn(w) \/ enter(w)
    BY <2>1 DEF Inv, TypeOK, SlotsFollowWorkers, spawn, enter
  <2>2. CASE set_date(w)
    BY <2>2 DEF Inv, TypeOK, SlotsFollowWorkers, set_date
  <2>3. CASE set_queue(w)
    BY <2>3 DEF Inv, TypeOK, SlotsFollowWorkers, set_queue
  <2>4. CASE leave(w) \/ crash(w)
    BY <2>4 DEF Inv, TypeOK, SlotsFollowWorkers, leave, crash, End
  <2> QED
    BY <2>1, <2>2, <2>3, <2>4
<1>4. BarrierHolds'
  BY <1>1 DEF Inv, BarrierHolds, spawn, set_date, set_queue, enter, leave, crash, End
<1> QED
  BY <1>1, <1>2, <1>3, <1>4 DEF Inv, CountIsExact, DealtToWorkers

\* init_count++ counts a worker that has published everything.
LEMMA CountInv ==
  ASSUME Inv, NEW w \in Workers, count(w)
  PROVE  Inv'
<1>1. Counted' = Counted \cup {w} /\ w \notin Counted
  BY DEF count, Counted, Inv, TypeOK
<1>2. CountIsExact'
  BY <1>1, CountFacts, FS_AddElement DEF count, Inv, CountIsExact
<1>3. init_count' \in 0 .. N
  <2>1. Counted' \in SUBSET Workers
    BY DEF Counted
  <2>2. IsFiniteSet(Workers) /\ Cardinality(Workers) = N
    BY FS_Interval DEF Workers
  <2>3. IsFiniteSet(Counted') /\ Cardinality(Counted') <= N
    BY <2>1, <2>2, FS_Subset
  <2>4. Cardinality(Counted') \in Nat
    BY <2>3, FS_CardinalityType
  <2> QED
    BY <1>2, <2>3, <2>4 DEF CountIsExact
<1>4. TypeOK'
  BY <1>3 DEF count, Inv, TypeOK
<1>5. SlotsFollowWorkers'
  BY DEF count, Inv, TypeOK, SlotsFollowWorkers
<1>6. BarrierHolds'
  BY <1>1 DEF count, Inv, BarrierHolds
<1> QED
  BY <1>2, <1>4, <1>5, <1>6 DEF count, Inv, DealtToWorkers

\* do_accept() appends a Connection of the worker whose turn it is.
LEMMA DoAcceptConns ==
  ASSUME Inv, NEW cs \in Seq(Connections), do_accept(cs),
         \A k \in 1 .. Len(cs) : cs[k].queue \in Workers /\ cs[k].io = cs[k].queue
  PROVE  /\ rr' \in Workers
         /\ conns' \in Seq(Connections)
         /\ conns' # << >>
         /\ DealtToWorkers'
<1>1. pick_io_service \in Workers
  BY DEF Inv, TypeOK, Workers, pick_io_service
<1> DEFINE e == Created(pick_io_service)
<1>2. e \in Connections /\ e.queue \in Workers /\ e.io = e.queue
  BY <1>1 DEF Created, Connections, Workers
<1>3. conns' = Append(cs, e) /\ rr' = pick_io_service
  BY DEF do_accept
<1> HIDE DEF e
<1>4. /\ conns' \in Seq(Connections)
      /\ Len(conns') = Len(cs) + 1
      /\ conns' # << >>
      /\ conns'[Len(cs) + 1] = e
      /\ \A k \in 1 .. Len(cs) : conns'[k] = cs[k]
  BY <1>2, <1>3
<1>5. \A k \in 1 .. Len(conns') : conns'[k].queue \in Workers
                                  /\ conns'[k].io = conns'[k].queue
  <2> SUFFICES ASSUME NEW k \in 1 .. Len(conns')
               PROVE  conns'[k].queue \in Workers /\ conns'[k].io = conns'[k].queue
    OBVIOUS
  <2>1. CASE k = Len(cs) + 1
    BY <1>2, <1>4, <2>1
  <2>2. CASE k # Len(cs) + 1
    <3>1. k \in 1 .. Len(cs)
      BY <1>4, <2>2
    <3> QED
      BY <1>4, <3>1
  <2> QED
    BY <2>1, <2>2
<1> QED
  BY <1>1, <1>3, <1>4, <1>5 DEF DealtToWorkers

\* The acceptor begins behind the barrier.
LEMMA BeginInv ==
  ASSUME Inv, begin
  PROVE  Inv'
<1>1. /\ rr' \in Workers /\ conns' \in Seq(Connections) /\ conns' # << >>
      /\ DealtToWorkers'
  BY DoAcceptConns DEF begin, Inv, TypeOK, DealtToWorkers
<1>2. Counted' = Counted /\ Counted = Workers
  BY CountFacts DEF begin, Counted
<1>3. TypeOK'
  BY <1>1 DEF begin, Inv, TypeOK
<1> QED
  BY <1>1, <1>2, <1>3 DEF begin, Inv, SlotsFollowWorkers, CountIsExact, BarrierHolds

\* A change of a Connection's state.
LEMMA StateChange ==
  ASSUME NEW cs \in Seq(Connections), NEW k \in 1 .. Len(cs),
         NEW s \in {"accepting", "posted", "started", "failed"},
         NEW ds, ds = [cs EXCEPT ![k].state = s]
  PROVE  /\ ds \in Seq(Connections)
         /\ Len(ds) = Len(cs)
         /\ \A j \in 1 .. Len(cs) : ds[j].queue = cs[j].queue /\ ds[j].io = cs[j].io
<1>1. \A j \in 1 .. Len(cs) : cs[j] \in Connections
  OBVIOUS
<1>2. ds \in [1 .. Len(cs) -> Connections]
  BY <1>1 DEF Connections
<1>3. ds \in Seq(Connections) /\ Len(ds) = Len(cs)
  BY <1>2
<1>4. \A j \in 1 .. Len(cs) : ds[j].queue = cs[j].queue /\ ds[j].io = cs[j].io
  BY <1>1 DEF Connections
<1> QED
  BY <1>3, <1>4

\* The handler of async_accept.
LEMMA AcceptedInv ==
  ASSUME Inv, NEW ok \in BOOLEAN, accepted(ok)
  PROVE  Inv'
<1> DEFINE s == IF ok THEN "posted" ELSE "failed"
<1> DEFINE cs == [conns EXCEPT ![Len(conns)].state = s]
<1>1. Len(conns) \in 1 .. Len(conns) /\ conns \in Seq(Connections)
  BY DEF accepted, Inv, TypeOK, BarrierHolds
<1>2. /\ cs \in Seq(Connections)
      /\ Len(cs) = Len(conns)
      /\ \A j \in 1 .. Len(conns) : cs[j].queue = conns[j].queue /\ cs[j].io = conns[j].io
  <2>1. s \in {"accepting", "posted", "started", "failed"}
    OBVIOUS
  <2> HIDE DEF s
  <2>2. cs = [conns EXCEPT ![Len(conns)].state = s]
    OBVIOUS
  <2> HIDE DEF cs
  <2> QED
    BY <1>1, <2>1, <2>2, StateChange
<1>3. \A k \in 1 .. Len(cs) : cs[k].queue \in Workers /\ cs[k].io = cs[k].queue
  BY <1>2 DEF Inv, DealtToWorkers
<1>4. do_accept(cs)
  BY DEF accepted
<1> HIDE DEF cs
<1>5. /\ rr' \in Workers /\ conns' \in Seq(Connections) /\ conns' # << >>
      /\ DealtToWorkers'
  BY <1>2, <1>3, <1>4, DoAcceptConns
<1>6. Counted' = Counted
  BY DEF accepted, Counted
<1>7. TypeOK'
  BY <1>5 DEF accepted, Inv, TypeOK
<1> QED
  BY <1>5, <1>6, <1>7 DEF accepted, Inv, SlotsFollowWorkers, CountIsExact, BarrierHolds

\* start() on a worker.
LEMMA StartInv ==
  ASSUME Inv, NEW k \in 1 .. Len(conns), start(k)
  PROVE  Inv'
<1>1. conns \in Seq(Connections)
  BY DEF Inv, TypeOK
<1>2. /\ conns' \in Seq(Connections)
      /\ Len(conns') = Len(conns)
      /\ \A j \in 1 .. Len(conns) : conns'[j].queue = conns[j].queue
                                    /\ conns'[j].io = conns[j].io
  <2>1. PICK ds : ds = conns'
    OBVIOUS
  <2>2. ds = [conns EXCEPT ![k].state = "started"]
    BY <2>1 DEF start
  <2>3. /\ ds \in Seq(Connections)
        /\ Len(ds) = Len(conns)
        /\ \A j \in 1 .. Len(conns) : ds[j].queue = conns[j].queue /\ ds[j].io = conns[j].io
    BY <1>1, <2>2, StateChange
  <2> QED
    BY <2>1, <2>3
<1>3. TypeOK'
  BY <1>2 DEF start, Inv, TypeOK
<1>4. DealtToWorkers'
  BY <1>2 DEF Inv, DealtToWorkers
<1>5. Counted' = Counted
  BY DEF start, Counted
<1>6. BarrierHolds'
  BY <1>1, <1>2, <1>5 DEF start, Inv, BarrierHolds
<1> QED
  BY <1>3, <1>4, <1>5, <1>6 DEF start, Inv, SlotsFollowWorkers, CountIsExact

\* The end of run().
LEMMA StopInv ==
  ASSUME Inv, signal \/ return \/ \E w \in Workers : stop(w)
  PROVE  Inv'
<1>1. /\ worker' = worker /\ date' = date /\ queue' = queue
      /\ init_count' = init_count /\ conns' = conns /\ rr' = rr /\ crashes' = crashes
      /\ main \notin {"spawning", "waiting"} /\ main' \notin {"spawning", "waiting"}
  BY DEF signal, return, stop
<1>2. Counted' = Counted
  BY <1>1 DEF Counted
<1>3. TypeOK'
  BY <1>1 DEF signal, return, stop, Inv, TypeOK
<1> QED
  BY <1>1, <1>2, <1>3 DEF Inv, SlotsFollowWorkers, CountIsExact, BarrierHolds,
     DealtToWorkers

\* Every step of run(), of a worker, of the acceptor or of stop().
LEMMA NextInv ==
  Inv /\ [Next]_vars => Inv'
<1> SUFFICES ASSUME Inv, [Next]_vars PROVE Inv'
  OBVIOUS
<1>1. CASE \E w \in Workers : \/ spawn(w) \/ set_date(w) \/ set_queue(w)
                               \/ enter(w) \/ leave(w) \/ crash(w)
  BY <1>1, WorkerInv
<1>2. CASE \E w \in Workers : count(w)
  BY <1>2, CountInv
<1>3. CASE begin
  BY <1>3, BeginInv
<1>4. CASE \E ok \in BOOLEAN : accepted(ok)
  BY <1>4, AcceptedInv
<1>5. CASE \E k \in 1 .. Len(conns) : start(k)
  BY <1>5, StartInv
<1>6. CASE signal \/ return \/ \E w \in Workers : stop(w)
  BY <1>6, StopInv
<1>7. CASE UNCHANGED vars
  BY <1>7 DEF vars, Inv, TypeOK, SlotsFollowWorkers, CountIsExact, Counted,
     BarrierHolds, DealtToWorkers
<1> QED
  BY <1>1, <1>2, <1>3, <1>4, <1>5, <1>6, <1>7, Zenon DEF Next

\* Server: init_count is the number of the workers that have published their
\* date function and timer queue, and the acceptor runs only when it is all.
THEOREM ServerInvariant == Spec => []Inv
<1> QED
  BY InitInv, NextInv, PTL DEF Spec

\* do_accept() finds the pools filled: no Connection is created with a null
\* timer queue or an empty date function, however the threads are scheduled.
THEOREM AcceptorFindsPools == Spec => []PoolsArePublished
<1>1. ASSUME Inv PROVE PoolsArePublished
  <2> SUFFICES ASSUME NEW k \in 1 .. Len(conns)
               PROVE  /\ conns[k].queue \in Workers
                      /\ queue[conns[k].queue] # "unset"
                      /\ date[conns[k].queue] # "unset"
    BY DEF PoolsArePublished
  <2>1. conns[k].queue \in Workers
    BY <1>1 DEF Inv, DealtToWorkers
  <2>2. conns[k].queue \in Counted
    BY <1>1, <2>1 DEF Inv, TypeOK, BarrierHolds
  <2> QED
    BY <1>1, <2>1, <2>2 DEF Inv, SlotsFollowWorkers, Counted
<1> QED
  BY <1>1, ServerInvariant, PTL

\* Connection::start(): whatever worker has died, the timer queue it uses is
\* still there.
THEOREM StartFindsQueue == Spec => NoStartOnGoneQueue
<1> DEFINE Safe == \A k \in 1 .. Len(conns) :
                     conns[k].state = "posted" /\ conns'[k].state = "started" =>
                       queue[conns[k].queue] = "live" /\ date[conns[k].queue] = "live"
<1>1. ASSUME Inv, [Next]_vars PROVE [Safe]_vars
  <2> SUFFICES ASSUME NEW k \in 1 .. Len(conns),
                      conns[k].state = "posted", conns'[k].state = "started",
                      Next
               PROVE  queue[conns[k].queue] = "live" /\ date[conns[k].queue] = "live"
    BY <1>1
  <2>1. conns \in Seq(Connections)
    BY <1>1 DEF Inv, TypeOK
  <2>2. conns' # conns
    OBVIOUS
  <2>3. CASE \E j \in 1 .. Len(conns) : start(j)
    <3>1. PICK j \in 1 .. Len(conns) : start(j)
      BY <2>3
    <3>2. j = k
      BY <2>1, <3>1 DEF start
    <3>3. worker[conns[k].io] = "running"
      BY <3>1, <3>2 DEF start
    <3>4. conns[k].io = conns[k].queue /\ conns[k].queue \in Workers
      BY <1>1 DEF Inv, DealtToWorkers
    <3> QED
      BY <1>1, <3>3, <3>4 DEF Inv, TypeOK, Slot, SlotsFollowWorkers
  <2>4. CASE begin
    BY <1>1, <2>4 DEF begin, Inv, BarrierHolds
  <2>5. CASE \E ok \in BOOLEAN : accepted(ok)
    <3>1. PICK ok \in BOOLEAN : accepted(ok)
      BY <2>5
    <3>2. PICK cs : cs = [conns EXCEPT ![Len(conns)].state = IF ok THEN "posted" ELSE "failed"]
      OBVIOUS
    <3>3. Len(cs) = Len(conns) /\ cs \in Seq(Connections)
      <4>1. PICK s \in {"accepting", "posted", "started", "failed"} :
              s = IF ok THEN "posted" ELSE "failed"
        OBVIOUS
      <4>2. cs = [conns EXCEPT ![Len(conns)].state = s]
        BY <3>2, <4>1
      <4>3. Len(conns) \in 1 .. Len(conns)
        BY <2>1
      <4> QED
        BY <2>1, <4>1, <4>2, <4>3, StateChange
    <3>4. conns' = Append(cs, Created(pick_io_service))
      BY <3>1, <3>2 DEF accepted, do_accept
    <3>5. conns'[k] = cs[k]
      BY <3>3, <3>4
    <3>6. cs[k].state # "started"
      BY <2>1, <3>2
    <3> QED
      BY <3>5, <3>6
  <2>6. CASE \/ signal \/ return
             \/ \E w \in Workers : \/ spawn(w) \/ set_date(w) \/ set_queue(w)
                                    \/ count(w) \/ enter(w) \/ leave(w) \/ crash(w)
                                    \/ stop(w)
    BY <2>2, <2>6 DEF signal, return, spawn, set_date, set_queue, count, enter, leave,
       crash, End, stop
  <2> QED
    BY <2>3, <2>4, <2>5, <2>6, Zenon DEF Next
<1> QED
  BY <1>1, ServerInvariant, PTL DEF Spec, NoStartOnGoneQueue
=============================================================================
