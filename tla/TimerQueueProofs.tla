-------------------------- MODULE TimerQueueProofs --------------------------
(***************************************************************************)
(* For any number of connections, any deadline and any width of int: the   *)
(* invariant of TimerQueue, and that it implements DeadlineTimers.         *)
(***************************************************************************)
EXTENDS TimerQueue, TLAPS

USE TickAssumption, IntRangeAssumption, NoHandlerAssumption, NoKeyAssumption

\* What process() does to the index of a key when it advances step_ by n
\* (dumb_timer_queue.h, process and cancel).
LEMMA DiffShift ==
  ASSUME NEW a \in 0 .. (IntRange - 1), NEW s \in 0 .. (IntRange - 1),
         NEW n \in 0 .. IntRange
  PROVE  /\ Wrap(s + n) \in 0 .. (IntRange - 1)
         /\ UnsignedDiff(a, s) \in 0 .. (IntRange - 1)
         /\ UnsignedDiff(a, Wrap(s + n)) =
              IF UnsignedDiff(a, s) >= n THEN UnsignedDiff(a, s) - n
                                         ELSE UnsignedDiff(a, s) - n + IntRange
  BY DEF Wrap, UnsignedDiff

\* The key add() returns designates the entry it appends.
LEMMA AddedIndex ==
  ASSUME NEW s \in 0 .. (IntRange - 1), NEW n \in 0 .. (IntRange - 1)
  PROVE  UnsignedDiff(Wrap(s + n), s) = n
  BY DEF Wrap, UnsignedDiff

\* A held key is an int, and its index is one of the IntRange residues.
LEMMA IndexRange ==
  ASSUME TypeOK, NEW c \in Conn, key[c] # NoKey
  PROVE  key[c] \in 0 .. (IntRange - 1) /\ Index(c) \in 0 .. (IntRange - 1)
  BY DEF TypeOK, Index, UnsignedDiff

\* cancel() (dumb_timer_queue.h) only takes the handler of its own
\* connection out of the deque.
LEMMA CancelledQueue ==
  ASSUME Inv, NEW c \in Conn
  PROVE  /\ Cancelled(key[c]) \in Seq(Entry)
         /\ Len(Cancelled(key[c])) = Len(dq)
         /\ \A i \in 1 .. Len(dq) :
              /\ Cancelled(key[c])[i].age = dq[i].age
              /\ Cancelled(key[c])[i].f = IF dq[i].f = c THEN NoHandler
                                                          ELSE dq[i].f
<1>1. CASE key[c] = NoKey \/ Index(c) >= Len(dq)
  <2>1. Cancelled(key[c]) = dq
    BY <1>1 DEF Cancelled, Index
  <2>2. ASSUME NEW i \in 1 .. Len(dq), dq[i].f = c PROVE FALSE
    <3>1. key[c] # NoKey /\ Index(c) = i - 1
      BY <2>2 DEF Inv, HandlersAreOwned
    <3>2. Len(dq) \in Nat
      BY DEF Inv, TypeOK
    <3> QED
      BY <1>1, <3>1, <3>2
  <2> QED
    BY <2>1, <2>2 DEF Inv, TypeOK
<1>2. CASE key[c] # NoKey /\ Index(c) < Len(dq)
  <2> DEFINE k == Index(c) + 1
  <2>1. Cancelled(key[c]) = [dq EXCEPT ![k] = [age |-> dq[k].age, f |-> NoHandler]]
    BY <1>2, IndexRange DEF Cancelled, Index, Inv, TypeOK
  <2>2. k \in 1 .. Len(dq) /\ dq[k].f = c
    BY <1>2, IndexRange DEF Inv, TypeOK, KeysDesignateOwnEntry, Live
  <2>3. \A i \in 1 .. Len(dq) : dq[i].f = c => i = k
    BY DEF Inv, HandlersAreOwned
  <2>4. dq \in Seq(Entry) /\ dq[k] \in Entry
    BY <2>2 DEF Inv, TypeOK
  <2> QED
    BY <2>1, <2>2, <2>3, <2>4 DEF Entry
<1> QED
  BY <1>1, <1>2, IndexRange DEF Inv, TypeOK

\* The entries of a suffix and of a prolonged deque.
LEMMA QueueOps ==
  ASSUME NEW q \in Seq(Entry)
  PROVE  /\ \A e \in Entry :
              /\ Append(q, e) \in Seq(Entry)
              /\ Len(Append(q, e)) = Len(q) + 1
              /\ Append(q, e)[Len(q) + 1] = e
              /\ \A i \in 1 .. Len(q) : Append(q, e)[i] = q[i]
         /\ \A n \in 0 .. Len(q) :
              /\ SubSeq(q, n + 1, Len(q)) \in Seq(Entry)
              /\ Len(SubSeq(q, n + 1, Len(q))) = Len(q) - n
              /\ \A i \in 1 .. (Len(q) - n) :
                   SubSeq(q, n + 1, Len(q))[i] = q[i + n]
  OBVIOUS

\* An empty queue, no connections.
LEMMA InitInv ==
  Init => Inv
  BY DEF Init, Inv, TypeOK, QueueBounded, KeysDesignateOwnEntry, Live,
         HandlersAreOwned, OldestFirst, NoConnectionNoKey, SocketState

\* A new Connection has no timer.
LEMMA AcceptInv ==
  ASSUME Inv, NEW c \in Conn, accept(c)
  PROVE  Inv'
<1>1. TypeOK' /\ NoConnectionNoKey'
  BY DEF accept, Inv, TypeOK, SocketState, NoConnectionNoKey
<1> QED
  BY <1>1 DEF accept, Inv, QueueBounded, KeysDesignateOwnEntry, Live, Index,
              HandlersAreOwned, OldestFirst

\* Closing a socket leaves the timers alone.
LEMMA CloseInv ==
  ASSUME Inv, NEW c \in Conn, close(c)
  PROVE  Inv'
<1>1. TypeOK' /\ NoConnectionNoKey'
  BY DEF close, Inv, TypeOK, SocketState, NoConnectionNoKey
<1> QED
  BY <1>1 DEF close, Inv, QueueBounded, KeysDesignateOwnEntry, Live, Index,
              HandlersAreOwned, OldestFirst

\* cancel_deadline_timer and the destructor change the timers alike.
LEMMA CancelInv ==
  ASSUME Inv, NEW c \in Conn,
         dq' = Cancelled(key[c]), key' = [key EXCEPT ![c] = NoKey],
         since' = [since EXCEPT ![c] = 0], step' = step,
         sock' \in [Conn -> SocketState],
         \A d \in Conn \ {c} : sock'[d] = sock[d]
  PROVE  Inv'
<1>0. /\ dq' \in Seq(Entry)
      /\ Len(dq') = Len(dq)
      /\ \A i \in 1 .. Len(dq) :
           /\ dq'[i].age = dq[i].age
           /\ dq'[i].f = IF dq[i].f = c THEN NoHandler ELSE dq[i].f
  BY CancelledQueue
<1>1. TypeOK' /\ QueueBounded'
  <2>1. key' \in [Conn -> (0 .. (IntRange - 1)) \cup {NoKey}]
    BY DEF Inv, TypeOK
  <2>2. since' \in [Conn -> 0 .. IntRange]
    BY DEF Inv, TypeOK
  <2>3. step' \in 0 .. (IntRange - 1)
    BY DEF Inv, TypeOK
  <2>4. Len(dq') <= IntRange
    BY <1>0 DEF Inv, QueueBounded
  <2> QED
    BY <1>0, <2>1, <2>2, <2>3, <2>4 DEF TypeOK, QueueBounded
<1>2. ASSUME NEW d \in Conn, key'[d] # NoKey
      PROVE  d # c /\ key'[d] = key[d] /\ since'[d] = since[d]
             /\ Index(d)' = Index(d)
  BY <1>2 DEF Inv, TypeOK, Index
<1>3. KeysDesignateOwnEntry'
  <2> SUFFICES ASSUME NEW d \in Conn, key'[d] # NoKey
               PROVE  IF Live(d)'
                      THEN /\ dq'[Index(d)' + 1].f = d
                           /\ Index(d)' + since'[d] + 1 = Len(dq')
                      ELSE Index(d)' + since'[d] + 1 = Len(dq') + IntRange
    BY DEF KeysDesignateOwnEntry
  <2>1. Len(dq') = Len(dq) /\ (Live(d)' <=> Live(d))
    BY <1>2, <1>0 DEF Live
  <2>2. CASE Live(d)
    <3>1. dq[Index(d) + 1].f = d /\ Index(d) + since[d] + 1 = Len(dq)
      BY <1>2, <2>2 DEF Inv, KeysDesignateOwnEntry
    <3>2. Index(d) + 1 \in 1 .. Len(dq)
      BY <1>2, <2>2, IndexRange DEF Inv, Live
    <3> QED
      BY <1>0, <1>2, <2>1, <2>2, <3>1, <3>2
  <2>3. CASE ~Live(d)
    BY <1>2, <2>1, <2>3 DEF Inv, KeysDesignateOwnEntry
  <2> QED
    BY <2>1, <2>2, <2>3
<1>4. HandlersAreOwned'
  <2> SUFFICES ASSUME NEW i \in 1 .. Len(dq'), NEW d \in Conn, dq'[i].f = d
               PROVE  key'[d] # NoKey /\ Index(d)' = i - 1
    BY DEF HandlersAreOwned
  <2>1. i \in 1 .. Len(dq) /\ dq[i].f = d /\ d # c
    BY <1>0
  <2>2. key[d] # NoKey /\ Index(d) = i - 1
    BY <2>1 DEF Inv, HandlersAreOwned
  <2>3. key'[d] # NoKey
    BY <2>1, <2>2 DEF Inv, TypeOK
  <2> QED
    BY <2>2, <2>3, <1>2
<1>5. OldestFirst'
  BY <1>0 DEF Inv, OldestFirst
<1>6. NoConnectionNoKey'
  BY DEF Inv, TypeOK, NoConnectionNoKey
<1> QED
  BY <1>1, <1>3, <1>4, <1>5, <1>6 DEF Inv

\* A restarted deadline: one entry more, and every other held key is one
\* timer older.
LEMMA StartInv ==
  ASSUME Inv, NEW c \in Conn, start_deadline(c)
  PROVE  Inv'
<1> DEFINE q == Cancelled(key[c])
<1>0. /\ q \in Seq(Entry)
      /\ Len(q) = Len(dq)
      /\ \A i \in 1 .. Len(dq) :
           /\ q[i].age = dq[i].age
           /\ q[i].f = IF dq[i].f = c THEN NoHandler ELSE dq[i].f
  BY CancelledQueue
<1>1. Len(dq) \in 0 .. (IntRange - 1) /\ step \in 0 .. (IntRange - 1)
  BY DEF start_deadline, KeyWindow, Inv, TypeOK
<1> DEFINE e == [age |-> 0, f |-> c]
<1>2. e \in Entry
  BY DEF Entry
<1> HIDE DEF q
<1>3. /\ dq' \in Seq(Entry)
      /\ Len(dq') = Len(dq) + 1
      /\ dq'[Len(dq) + 1].age = 0
      /\ dq'[Len(dq) + 1].f = c
      /\ \A i \in 1 .. Len(dq) :
           /\ dq'[i].age = dq[i].age
           /\ dq'[i].f = IF dq[i].f = c THEN NoHandler ELSE dq[i].f
  <2>1. dq' = Append(q, e)
    BY DEF start_deadline, Added, q
  <2> HIDE DEF e
  <2>2. /\ Append(q, e) \in Seq(Entry)
        /\ Len(Append(q, e)) = Len(q) + 1
        /\ Append(q, e)[Len(q) + 1] = e
        /\ \A i \in 1 .. Len(q) : Append(q, e)[i] = q[i]
    BY <1>0, <1>2, QueueOps
  <2>3. e.age = 0 /\ e.f = c
    BY DEF e
  <2> QED
    BY <2>1, <2>2, <2>3, <1>0
<1>4. /\ key'[c] = AddedKey
      /\ key'[c] \in 0 .. (IntRange - 1)
      /\ since'[c] = 0
      /\ Index(c)' = Len(dq)
  BY <1>1, AddedIndex DEF start_deadline, AddedKey, Wrap, Inv, TypeOK, Index
<1>5. ASSUME NEW d \in Conn, d # c
      PROVE  /\ key'[d] = key[d]
             /\ Index(d)' = Index(d)
             /\ since'[d] = IF key[d] # NoKey THEN since[d] + 1 ELSE since[d]
             /\ key[d] # NoKey => since[d] + 2 <= IntRange
  BY <1>5 DEF start_deadline, KeyWindow, Inv, TypeOK, Index
<1>6. TypeOK' /\ QueueBounded'
  <2>1. key' \in [Conn -> (0 .. (IntRange - 1)) \cup {NoKey}]
    BY <1>4 DEF Inv, TypeOK, start_deadline
  <2>2. since' \in [Conn -> 0 .. IntRange]
    <3>1. since' = [d \in Conn |-> since'[d]]
      BY DEF start_deadline
    <3>2. \A d \in Conn : since'[d] \in 0 .. IntRange
      BY <1>4, <1>5 DEF Inv, TypeOK
    <3> QED
      BY <3>1, <3>2
  <2>3. step' \in 0 .. (IntRange - 1) /\ sock' \in [Conn -> SocketState]
    BY DEF Inv, TypeOK, start_deadline
  <2>4. Len(dq') <= IntRange
    BY <1>1, <1>3
  <2> QED
    BY <1>3, <2>1, <2>2, <2>3, <2>4 DEF TypeOK, QueueBounded
<1>7. KeysDesignateOwnEntry'
  <2> SUFFICES ASSUME NEW d \in Conn, key'[d] # NoKey
               PROVE  IF Live(d)'
                      THEN /\ dq'[Index(d)' + 1].f = d
                           /\ Index(d)' + since'[d] + 1 = Len(dq')
                      ELSE Index(d)' + since'[d] + 1 = Len(dq') + IntRange
    BY DEF KeysDesignateOwnEntry
  <2>1. CASE d = c
    BY <1>1, <1>3, <1>4, <2>1 DEF Live
  <2>2. CASE d # c
    <3>1. /\ key[d] # NoKey
          /\ Index(d)' = Index(d)
          /\ since'[d] = since[d] + 1
          /\ since[d] + 2 <= IntRange
      BY <1>5, <2>2
    <3>2. since[d] \in 0 .. IntRange /\ Index(d) \in 0 .. (IntRange - 1)
      BY <3>1, IndexRange DEF Inv, TypeOK
    <3>3. CASE Live(d)
      <4>1. dq[Index(d) + 1].f = d /\ Index(d) + since[d] + 1 = Len(dq)
        BY <3>1, <3>3 DEF Inv, KeysDesignateOwnEntry
      <4>2. Index(d) + 1 \in 1 .. Len(dq) /\ Live(d)'
        BY <1>1, <1>3, <3>1, <3>2, <3>3 DEF Live
      <4>3. dq'[Index(d) + 1].f = d
        BY <1>3, <4>1, <4>2, <2>2
      <4> QED
        BY <1>1, <1>3, <3>1, <3>2, <4>1, <4>2, <4>3
    <3>4. CASE ~Live(d)
      <4>1. Index(d) + since[d] + 1 = Len(dq) + IntRange
        BY <3>1, <3>4 DEF Inv, KeysDesignateOwnEntry
      <4>2. ~Live(d)'
        BY <1>1, <1>3, <3>1, <3>2, <4>1 DEF Live
      <4> QED
        BY <1>1, <1>3, <3>1, <3>2, <4>1, <4>2
    <3> QED
      BY <3>3, <3>4
  <2> QED
    BY <2>1, <2>2
<1>8. HandlersAreOwned'
  <2> SUFFICES ASSUME NEW i \in 1 .. Len(dq'), NEW d \in Conn, dq'[i].f = d
               PROVE  key'[d] # NoKey /\ Index(d)' = i - 1
    BY DEF HandlersAreOwned
  <2>1. CASE i = Len(dq) + 1
    BY <1>1, <1>3, <1>4, <2>1
  <2>2. CASE i # Len(dq) + 1
    <3>1. i \in 1 .. Len(dq) /\ dq[i].f = d /\ d # c
      BY <1>1, <1>3, <2>2
    <3> QED
      BY <1>5, <3>1 DEF Inv, HandlersAreOwned
  <2> QED
    BY <2>1, <2>2
<1>9. OldestFirst'
  <2> SUFFICES ASSUME NEW i \in 1 .. Len(dq'), NEW j \in 1 .. Len(dq'), i <= j
               PROVE  dq'[i].age >= dq'[j].age
    BY DEF OldestFirst
  <2>1. dq'[i] \in Entry
    BY <1>3
  <2>2. CASE j = Len(dq) + 1
    BY <1>1, <1>3, <2>1, <2>2 DEF Entry
  <2>3. CASE j # Len(dq) + 1
    BY <1>1, <1>3, <2>3 DEF Inv, OldestFirst
  <2> QED
    BY <2>2, <2>3
<1>10. NoConnectionNoKey'
  BY <1>5 DEF Inv, TypeOK, NoConnectionNoKey, start_deadline
<1> QED
  BY <1>6, <1>7, <1>8, <1>9, <1>10 DEF Inv

\* What process() does to the deque and to the index of every held key.
LEMMA ProcessEffect ==
  ASSUME Inv, NEW n \in 1 .. Len(dq),
         dq' = SubSeq(dq, n + 1, Len(dq)), step' = Wrap(step + n),
         key' = key, since' = since
  PROVE  /\ dq' \in Seq(Entry)
         /\ Len(dq') = Len(dq) - n
         /\ \A i \in 1 .. (Len(dq) - n) : dq'[i] = dq[i + n]
         /\ step' \in 0 .. (IntRange - 1)
         /\ \A d \in Conn : key[d] # NoKey =>
              Index(d)' = IF Index(d) >= n THEN Index(d) - n
                                           ELSE Index(d) - n + IntRange
<1>1. n \in 0 .. Len(dq) /\ n \in 0 .. IntRange /\ step \in 0 .. (IntRange - 1)
  BY DEF Inv, TypeOK, QueueBounded
<1>2. /\ dq' \in Seq(Entry)
      /\ Len(dq') = Len(dq) - n
      /\ \A i \in 1 .. (Len(dq) - n) : dq'[i] = dq[i + n]
  BY <1>1, QueueOps DEF Inv, TypeOK
<1>3. step' \in 0 .. (IntRange - 1)
  BY <1>1, DiffShift
<1>4. ASSUME NEW d \in Conn, key[d] # NoKey
      PROVE  Index(d)' = IF Index(d) >= n THEN Index(d) - n
                                          ELSE Index(d) - n + IntRange
  <2>1. key[d] \in 0 .. (IntRange - 1)
    BY <1>4, IndexRange DEF Inv
  <2> QED
    BY <1>1, <2>1, DiffShift DEF Index
<1> QED
  BY <1>2, <1>3, <1>4

\* process() drops entries and advances step_ by as many.
LEMMA ProcessInv ==
  ASSUME Inv, process
  PROVE  Inv'
<1>1. PICK n \in 1 .. Len(dq) :
        /\ dq' = SubSeq(dq, n + 1, Len(dq))
        /\ step' = Wrap(step + n)
        /\ key' = key /\ since' = since
        /\ sock' \in [Conn -> SocketState]
        /\ \A d \in Conn : sock'[d] = "none" => sock[d] = "none"
  BY DEF process, Inv, TypeOK, SocketState
<1>2. /\ dq' \in Seq(Entry)
      /\ Len(dq') = Len(dq) - n
      /\ \A i \in 1 .. (Len(dq) - n) : dq'[i] = dq[i + n]
      /\ step' \in 0 .. (IntRange - 1)
      /\ \A d \in Conn : key[d] # NoKey =>
           Index(d)' = IF Index(d) >= n THEN Index(d) - n
                                        ELSE Index(d) - n + IntRange
  BY <1>1, ProcessEffect
<1>3. Len(dq) \in 1 .. IntRange
  BY <1>1 DEF Inv, TypeOK, QueueBounded
<1>4. TypeOK' /\ QueueBounded'
  BY <1>1, <1>2, <1>3 DEF Inv, TypeOK, QueueBounded
<1>5. KeysDesignateOwnEntry'
  <2> SUFFICES ASSUME NEW d \in Conn, key[d] # NoKey
               PROVE  IF Live(d)'
                      THEN /\ dq'[Index(d)' + 1].f = d
                           /\ Index(d)' + since[d] + 1 = Len(dq')
                      ELSE Index(d)' + since[d] + 1 = Len(dq') + IntRange
    BY <1>1 DEF KeysDesignateOwnEntry
  <2>1. since[d] \in 0 .. IntRange /\ Index(d) \in 0 .. (IntRange - 1)
    BY IndexRange DEF Inv, TypeOK
  <2>2. Live(d)' <=> Index(d)' < Len(dq')
    BY <1>1 DEF Live
  <2>3. /\ Index(d) >= n => Index(d)' = Index(d) - n
        /\ ~(Index(d) >= n) => Index(d)' = Index(d) - n + IntRange
    BY <1>2
  <2>4. Len(dq') = Len(dq) - n /\ n \in 1 .. Len(dq)
    BY <1>2
  <2>5. /\ Index(d) \in Int /\ since[d] \in Int /\ Len(dq) \in Int
        /\ n \in Int /\ IntRange \in Int
    BY <1>3, <2>1, <2>4
  <2>6. CASE Live(d) /\ Index(d) >= n
    <3>1. dq[Index(d) + 1].f = d /\ Index(d) + since[d] + 1 = Len(dq)
      BY <2>6 DEF Inv, KeysDesignateOwnEntry
    <3>2. Index(d)' = Index(d) - n
      BY <2>3, <2>6
    <3>3. Index(d)' + 1 \in 1 .. (Len(dq) - n)
      BY <1>3, <2>1, <2>4, <2>6, <3>1, <3>2
    <3>4. dq'[Index(d)' + 1].f = d
      <4>1. dq'[Index(d)' + 1] = dq[Index(d)' + 1 + n]
        BY <1>2, <3>3
      <4>2. Index(d)' + 1 + n = Index(d) + 1
        BY <1>3, <2>1, <2>4, <3>2
      <4> QED
        BY <3>1, <4>1, <4>2
    <3>5. Index(d)' + since[d] + 1 = Len(dq')
      <4>1. Len(dq') = (Index(d) + since[d] + 1) - n
        BY <2>4, <3>1
      <4> QED
        BY <2>5, <3>2, <4>1
    <3>6. Index(d)' < Len(dq')
      BY <1>3, <2>1, <2>4, <3>5, <3>2
    <3> QED
      BY <2>2, <3>4, <3>5, <3>6
  <2>7. CASE Live(d) /\ ~(Index(d) >= n)
    <3>1. Index(d) + since[d] + 1 = Len(dq)
      BY <2>7 DEF Inv, KeysDesignateOwnEntry
    <3>2. Index(d)' = Index(d) - n + IntRange
      BY <2>3, <2>7
    <3>3. Index(d)' + since[d] + 1 = Len(dq') + IntRange
      <4>1. Len(dq') = (Index(d) + since[d] + 1) - n
        BY <2>4, <3>1
      <4> QED
        BY <2>5, <3>2, <4>1
    <3>4. ~(Index(d)' < Len(dq'))
      BY <1>3, <2>1, <2>4, <3>2
    <3> QED
      BY <2>2, <3>3, <3>4
  <2>8. CASE ~Live(d)
    <3>1. Index(d) + since[d] + 1 = Len(dq) + IntRange /\ Index(d) >= Len(dq)
      BY <1>3, <2>1, <2>8 DEF Inv, KeysDesignateOwnEntry, Live
    <3>2. Index(d)' = Index(d) - n
      BY <1>3, <2>1, <2>3, <2>4, <3>1
    <3>3. Index(d)' + since[d] + 1 = Len(dq') + IntRange
      <4>1. Index(d)' + since[d] + 1 = (Index(d) + since[d] + 1) - n
        BY <2>5, <3>2
      <4>2. (Len(dq) + IntRange) - n = Len(dq') + IntRange
        BY <2>4, <2>5
      <4> QED
        BY <3>1, <4>1, <4>2
    <3>4. ~(Index(d)' < Len(dq'))
      BY <1>3, <2>1, <2>4, <3>1, <3>2
    <3> QED
      BY <2>2, <3>3, <3>4
  <2> QED
    BY <2>6, <2>7, <2>8
<1>6. HandlersAreOwned'
  <2> SUFFICES ASSUME NEW i \in 1 .. Len(dq'), NEW d \in Conn, dq'[i].f = d
               PROVE  key[d] # NoKey /\ Index(d)' = i - 1
    BY <1>1 DEF HandlersAreOwned
  <2>1. i + n \in 1 .. Len(dq) /\ dq[i + n].f = d
    BY <1>2, <1>3
  <2>2. key[d] # NoKey /\ Index(d) = (i + n) - 1
    BY <2>1 DEF Inv, HandlersAreOwned
  <2> QED
    BY <1>2, <1>3, <2>2
<1>7. OldestFirst'
  <2> SUFFICES ASSUME NEW i \in 1 .. Len(dq'), NEW j \in 1 .. Len(dq'), i <= j
               PROVE  dq'[i].age >= dq'[j].age
    BY DEF OldestFirst
  <2>1. dq'[i] = dq[i + n] /\ dq'[j] = dq[j + n]
    BY <1>2
  <2>2. i + n \in 1 .. Len(dq) /\ j + n \in 1 .. Len(dq) /\ i + n <= j + n
    BY <1>2, <1>3
  <2>3. dq[i + n].age >= dq[j + n].age
    BY <2>2 DEF Inv, OldestFirst
  <2> QED
    BY <2>1, <2>3
<1>8. NoConnectionNoKey'
  BY <1>1 DEF Inv, NoConnectionNoKey
<1> QED
  BY <1>4, <1>5, <1>6, <1>7, <1>8 DEF Inv

\* The clock changes ages only, and keeps their order.
LEMMA ElapseInv ==
  ASSUME Inv, elapse
  PROVE  Inv'
<1>1. /\ Len(dq') = Len(dq)
      /\ \A i \in 1 .. Len(dq) :
           /\ dq'[i].age = IF dq[i].age < Tick THEN dq[i].age + 1 ELSE Tick
           /\ dq'[i].f = dq[i].f
  BY DEF elapse, Inv, TypeOK
<1>2. \A i \in 1 .. Len(dq) : dq[i].age \in 0 .. Tick
                              /\ dq[i].f \in Conn \cup {NoHandler}
  <2>1. \A i \in 1 .. Len(dq) : dq[i] \in Entry
    BY DEF Inv, TypeOK
  <2> QED
    BY <2>1 DEF Entry
<1>3. dq' \in Seq(Entry)
  BY <1>2 DEF elapse, Inv, TypeOK, Entry
<1>4. TypeOK' /\ QueueBounded'
  BY <1>1, <1>3 DEF elapse, Inv, TypeOK, QueueBounded
<1>5. \A d \in Conn : Index(d)' = Index(d) /\ (Live(d)' <=> Live(d))
  BY <1>1 DEF elapse, Index, Live
<1>6. KeysDesignateOwnEntry'
  <2> SUFFICES ASSUME NEW d \in Conn, key[d] # NoKey
               PROVE  IF Live(d)'
                      THEN /\ dq'[Index(d)' + 1].f = d
                           /\ Index(d)' + since[d] + 1 = Len(dq')
                      ELSE Index(d)' + since[d] + 1 = Len(dq') + IntRange
    BY DEF KeysDesignateOwnEntry, elapse
  <2>1. CASE Live(d)
    <3>1. Index(d) + 1 \in 1 .. Len(dq)
      BY <2>1, IndexRange DEF Inv, TypeOK, Live
    <3>2. dq'[Index(d) + 1].f = dq[Index(d) + 1].f
      BY <1>1, <3>1
    <3> QED
      BY <1>1, <1>5, <2>1, <3>2 DEF Inv, KeysDesignateOwnEntry
  <2>2. CASE ~Live(d)
    BY <1>1, <1>5, <2>2 DEF Inv, KeysDesignateOwnEntry
  <2> QED
    BY <2>1, <2>2
<1>7. HandlersAreOwned'
  BY <1>1, <1>5 DEF Inv, HandlersAreOwned, elapse
<1>8. OldestFirst'
  BY <1>1, <1>2 DEF Inv, OldestFirst
<1>9. NoConnectionNoKey'
  BY DEF elapse, Inv, NoConnectionNoKey
<1> QED
  BY <1>4, <1>6, <1>7, <1>8, <1>9 DEF Inv

\* One step of the worker, or a stuttering step, keeps the invariant.
LEMMA NextInv ==
  Inv /\ [Next]_vars => Inv'
<1> SUFFICES ASSUME Inv, [Next]_vars
             PROVE  Inv'
  OBVIOUS
<1>1. ASSUME NEW c \in Conn, accept(c) PROVE Inv'
  BY <1>1, AcceptInv
<1>2. ASSUME NEW c \in Conn, start_deadline(c) PROVE Inv'
  BY <1>2, StartInv
<1>3. ASSUME NEW c \in Conn, cancel_deadline_timer(c) PROVE Inv'
  BY <1>3, CancelInv DEF cancel_deadline_timer, Inv, TypeOK
<1>4. ASSUME NEW c \in Conn, destroy(c) PROVE Inv'
  <2>1. /\ sock' \in [Conn -> SocketState]
        /\ \A d \in Conn \ {c} : sock'[d] = sock[d]
    BY <1>4 DEF destroy, Inv, TypeOK, SocketState
  <2> QED
    BY <1>4, <2>1, CancelInv DEF destroy
<1>5. CASE process
  BY <1>5, ProcessInv
<1>6. CASE elapse
  BY <1>6, ElapseInv
<1>7. CASE UNCHANGED vars
  BY <1>7 DEF vars, Inv, TypeOK, QueueBounded, KeysDesignateOwnEntry, Live,
              Index, HandlersAreOwned, OldestFirst, NoConnectionNoKey
<1>8. ASSUME NEW c \in Conn, close(c) PROVE Inv'
  BY <1>8, CloseInv
<1> QED
  BY <1>1, <1>2, <1>3, <1>4, <1>5, <1>6, <1>7, <1>8 DEF Next

\* cancel() always hits the entry of its own connection or nothing, and
\* process() only calls handlers whose connection still holds their key
\* (dumb_timer_queue.h), whatever the number of connections and however
\* often the int counters wrap around.
THEOREM TimerQueueInvariant ==
  Spec => []Inv
<1>1. Init => Inv
  BY InitInv
<1>2. Inv /\ [Next]_vars => Inv'
  BY NextInv
<1> QED
  BY <1>1, <1>2, PTL DEF Spec

\* cancel() removes the deadline of the connection that calls it or nothing,
\* for every number of connections and however often the keys wrap around.
THEOREM CancelHitsOwnEntry == Spec => []KeysDesignateOwnEntry
  <1>1. Inv => KeysDesignateOwnEntry
    BY DEF Inv
  <1> QED
    BY <1>1, TimerQueueInvariant, PTL

\* process() never calls the handler of a connection that has cancelled its
\* deadline or was destroyed.
THEOREM NoCallAfterCancel == Spec => []HandlersAreOwned
  <1>1. Inv => HandlersAreOwned
    BY DEF Inv
  <1> QED
    BY <1>1, TimerQueueInvariant, PTL

\* process() may stop at the first entry that is not due.
THEOREM QueueIsSorted == Spec => []OldestFirst
  <1>1. Inv => OldestFirst
    BY DEF Inv
  <1> QED
    BY <1>1, TimerQueueInvariant, PTL

-----------------------------------------------------------------------------
(* The refinement: every step of the deque is a step of the abstract       *)
(* deadlines.                                                              *)

\* A queued deadline is an age, and no age is the mark for "no deadline".
LEMMA DeadlineOfLive ==
  ASSUME Inv, NEW d \in Conn
  PROVE  /\ Live(d) => /\ Index(d) + 1 \in 1 .. Len(dq)
                       /\ dq[Index(d) + 1].f = d
                       /\ Deadline(d) = dq[Index(d) + 1].age
                       /\ Deadline(d) \in 0 .. Tick
         /\ ~Live(d) => Deadline(d) = NoKey
         /\ NoKey \notin 0 .. Tick
<1>1. CASE Live(d)
  <2>1. Index(d) + 1 \in 1 .. Len(dq) /\ dq[Index(d) + 1].f = d
    BY <1>1, IndexRange DEF Inv, TypeOK, Live, KeysDesignateOwnEntry
  <2>2. dq[Index(d) + 1] \in Entry
    BY <2>1 DEF Inv, TypeOK
  <2> QED
    BY <1>1, <2>1, <2>2 DEF Deadline, Entry
<1> QED
  BY <1>1 DEF Deadline

\* At the beginning no deadline runs.
LEMMA InitRefines ==
  Init => DT!TimerInit
  BY DEF Init, DT!TimerInit, Deadline, Live

\* Cancelling (and destroying) switches off one deadline only.
LEMMA CancelDeadline ==
  ASSUME Inv, NEW c \in Conn, NEW d \in Conn,
         dq' = Cancelled(key[c]), key' = [key EXCEPT ![c] = NoKey], step' = step
  PROVE  Deadline(d)' = IF d = c THEN NoKey ELSE Deadline(d)
<1>0. /\ Len(dq') = Len(dq)
      /\ \A i \in 1 .. Len(dq) : dq'[i].age = dq[i].age
  BY CancelledQueue
<1>1. CASE d = c
  BY <1>1 DEF Deadline, Live, Inv, TypeOK
<1>2. CASE d # c
  <2>1. key'[d] = key[d] /\ Index(d)' = Index(d)
    BY <1>2 DEF Index, Inv, TypeOK
  <2>2. Live(d)' <=> Live(d)
    BY <1>0, <2>1 DEF Live
  <2>3. CASE Live(d)
    <3>1. Index(d) + 1 \in 1 .. Len(dq)
      BY <2>3, DeadlineOfLive
    <3> QED
      BY <1>0, <1>2, <2>1, <2>2, <2>3, <3>1 DEF Deadline
  <2>4. CASE ~Live(d)
    BY <1>2, <2>2, <2>4 DEF Deadline
  <2> QED
    BY <2>3, <2>4
<1> QED
  BY <1>1, <1>2

\* start_deadline() sets its own deadline to 0 and keeps the others.
LEMMA StartDeadline ==
  ASSUME Inv, NEW c \in Conn, NEW d \in Conn, start_deadline(c)
  PROVE  Deadline(d)' = IF d = c THEN 0 ELSE Deadline(d)
<1> DEFINE q == Cancelled(key[c])
<1> DEFINE e == [age |-> 0, f |-> c]
<1>a. q \in Seq(Entry) /\ Len(q) = Len(dq)
      /\ \A i \in 1 .. Len(dq) : q[i].age = dq[i].age
  BY CancelledQueue
<1>b. e \in Entry
  BY DEF Entry
<1>1. dq' = Append(q, e)
  BY DEF start_deadline, Added
<1>2. Len(dq) \in 0 .. (IntRange - 1) /\ step \in 0 .. (IntRange - 1)
  BY DEF start_deadline, KeyWindow, Inv, TypeOK
<1>3. e.age = 0
  OBVIOUS
<1> HIDE DEF q, e
<1>4. /\ Len(dq') = Len(dq) + 1
      /\ dq'[Len(dq) + 1].age = 0
      /\ \A i \in 1 .. Len(dq) : dq'[i].age = dq[i].age
  <2>1. /\ Len(Append(q, e)) = Len(q) + 1
        /\ Append(q, e)[Len(q) + 1] = e
        /\ \A i \in 1 .. Len(q) : Append(q, e)[i] = q[i]
    BY <1>a, <1>b, QueueOps
  <2> QED
    BY <1>a, <1>b, <1>1, <1>3, <2>1
<1>5. CASE d = c
  <2>1. key'[c] # NoKey /\ Index(c)' = Len(dq)
    BY <1>2, AddedIndex DEF start_deadline, AddedKey, Wrap, Inv, TypeOK, Index
  <2> QED
    BY <1>2, <1>4, <1>5, <2>1 DEF Deadline, Live
<1>6. CASE d # c
  <2>1. /\ key'[d] = key[d] /\ Index(d)' = Index(d)
        /\ key[d] # NoKey => since[d] + 2 <= IntRange
    BY <1>6 DEF start_deadline, KeyWindow, Index, Inv, TypeOK
  <2>2. CASE Live(d)
    <3>1. Index(d) + 1 \in 1 .. Len(dq)
      BY <2>2, DeadlineOfLive
    <3>2. Live(d)'
      <4>1. Index(d) < Len(dq) + 1
        BY <1>2, <2>2, <3>1, IndexRange DEF Live, Inv
      <4> QED
        BY <1>4, <2>1, <2>2, <4>1 DEF Live
    <3> QED
      BY <1>4, <1>6, <2>1, <2>2, <3>1, <3>2 DEF Deadline
  <2>3. CASE ~Live(d) /\ key[d] # NoKey
    <3>1. Index(d) + since[d] + 1 = Len(dq) + IntRange
      BY <2>3 DEF Inv, KeysDesignateOwnEntry
    <3>2. Index(d) \in 0 .. (IntRange - 1) /\ since[d] \in 0 .. IntRange
      BY <2>3, IndexRange DEF Inv, TypeOK
    <3>3. ~(Index(d) < Len(dq) + 1)
      BY <1>2, <2>1, <2>3, <3>1, <3>2
    <3>4. ~Live(d)'
      BY <1>4, <2>1, <3>3 DEF Live
    <3> QED
      BY <1>6, <2>3, <3>4 DEF Deadline
  <2>4. CASE key[d] = NoKey
    BY <1>6, <2>1, <2>4 DEF Deadline, Live
  <2> QED
    BY <2>2, <2>3, <2>4
<1> QED
  BY <1>5, <1>6

\* process() switches off exactly the deadlines that have run out, because
\* the deque is sorted by age.
LEMMA ProcessDeadline ==
  ASSUME Inv, NEW d \in Conn, NEW n \in 1 .. Len(dq), DuePrefix(n),
         dq' = SubSeq(dq, n + 1, Len(dq)), step' = Wrap(step + n),
         key' = key, since' = since
  PROVE  /\ Deadline(d)' = IF Deadline(d) = Tick THEN NoKey ELSE Deadline(d)
         /\ Deadline(d) = Tick <=> \E i \in 1 .. n : dq[i].f = d
<1>1. /\ Len(dq') = Len(dq) - n
      /\ \A i \in 1 .. (Len(dq) - n) : dq'[i] = dq[i + n]
  BY ProcessEffect
<1>2. Len(dq) \in 1 .. IntRange
  BY DEF Inv, TypeOK, QueueBounded
<1>3. \A i \in 1 .. Len(dq) : dq[i].age \in 0 .. Tick
  <2>1. \A i \in 1 .. Len(dq) : dq[i] \in Entry
    BY DEF Inv, TypeOK
  <2> QED
    BY <2>1 DEF Entry
<1>4. \A i \in 1 .. n : dq[i].age = Tick
  BY <1>2, <1>3 DEF DuePrefix, Due
<1>5. \A i \in (n + 1) .. Len(dq) : dq[i].age # Tick
  <2> SUFFICES ASSUME NEW i \in (n + 1) .. Len(dq)
               PROVE  dq[i].age # Tick
    OBVIOUS
  <2>1. n + 1 \in 1 .. Len(dq) /\ i \in 1 .. Len(dq) /\ n + 1 <= i /\ n < Len(dq)
    BY <1>2
  <2>2. dq[n + 1].age < Tick
    BY <1>3, <2>1 DEF DuePrefix, Due
  <2>3. dq[n + 1].age >= dq[i].age
    BY <2>1 DEF Inv, OldestFirst
  <2> QED
    BY <1>3, <2>1, <2>2, <2>3
<1>6. CASE key[d] = NoKey
  <2>1. \A i \in 1 .. n : dq[i].f # d
    BY <1>2, <1>6 DEF Inv, HandlersAreOwned
  <2>2. Deadline(d) = NoKey /\ Deadline(d)' = NoKey
    BY <1>6 DEF Deadline, Live
  <2> QED
    BY <2>1, <2>2
<1>7. CASE key[d] # NoKey
  <2>1. Index(d) \in 0 .. (IntRange - 1)
    BY <1>7, IndexRange DEF Inv
  <2>2. /\ Index(d) >= n => Index(d)' = Index(d) - n
        /\ ~(Index(d) >= n) => Index(d)' = Index(d) - n + IntRange
    BY <1>7, ProcessEffect
  <2>3. \A i \in 1 .. n : dq[i].f = d => Index(d) = i - 1
    BY <1>2 DEF Inv, HandlersAreOwned
  <2>4. CASE Live(d) /\ Index(d) >= n
    <3>1. /\ Index(d) + 1 \in (n + 1) .. Len(dq)
          /\ Deadline(d) = dq[Index(d) + 1].age
      BY <1>2, <2>1, <2>4, DeadlineOfLive
    <3>2. /\ Index(d)' < Len(dq')
          /\ Index(d)' + 1 \in 1 .. (Len(dq) - n)
          /\ (Index(d)' + 1) + n = Index(d) + 1
      <4>1. Index(d)' = Index(d) - n
        BY <2>2, <2>4
      <4>2. Len(dq') = Len(dq) - n /\ n \in Int /\ Index(d) \in Int
        BY <1>1, <1>2, <2>1
      <4>3. Index(d) < Len(dq) /\ Index(d) >= n
        BY <2>4 DEF Live
      <4> QED
        BY <1>2, <4>1, <4>2, <4>3
    <3>3. Live(d)'
      BY <1>7, <3>2 DEF Live
    <3>4. Deadline(d)' = dq'[Index(d)' + 1].age
      BY <3>3 DEF Deadline
    <3>5. Deadline(d)' = Deadline(d)
      BY <1>1, <3>1, <3>2, <3>4
    <3>6. Deadline(d) # Tick
      BY <1>5, <3>1
    <3>7. \A i \in 1 .. n : dq[i].f # d
      BY <1>2, <2>1, <2>3, <2>4
    <3> QED
      BY <3>5, <3>6, <3>7
  <2>5. CASE Live(d) /\ ~(Index(d) >= n)
    <3>1. /\ Index(d) + 1 \in 1 .. n
          /\ Deadline(d) = dq[Index(d) + 1].age
          /\ dq[Index(d) + 1].f = d
      BY <1>2, <2>1, <2>5, DeadlineOfLive
    <3>2. Deadline(d) = Tick
      BY <1>4, <3>1
    <3>3. ~(Index(d)' < Len(dq'))
      <4>1. Index(d)' = Index(d) - n + IntRange
        BY <2>2, <2>5
      <4>2. Len(dq') = Len(dq) - n /\ n \in Int
        BY <1>1, <1>2
      <4> QED
        BY <1>2, <2>1, <4>1, <4>2
    <3>4. Deadline(d)' = NoKey
      BY <3>3 DEF Deadline, Live
    <3> QED
      BY <3>1, <3>2, <3>4
  <2>6. CASE ~Live(d)
    <3>1. Index(d) >= Len(dq)
      BY <1>2, <1>7, <2>1, <2>6 DEF Live
    <3>2. ~(Index(d)' < Len(dq'))
      BY <1>1, <1>2, <2>1, <2>2, <3>1
    <3>3. Deadline(d) = NoKey /\ Deadline(d)' = NoKey
      BY <2>6, <3>2 DEF Deadline, Live
    <3>4. \A i \in 1 .. n : dq[i].f # d
      BY <1>2, <2>1, <2>3, <3>1
    <3> QED
      BY <3>3, <3>4
  <2> QED
    BY <2>4, <2>5, <2>6
<1> QED
  BY <1>6, <1>7

\* A second makes every running deadline one older, up to Tick.
LEMMA ElapseDeadline ==
  ASSUME Inv, NEW d \in Conn, elapse
  PROVE  Deadline(d)' = IF Deadline(d) \in 0 .. (Tick - 1)
                        THEN Deadline(d) + 1 ELSE Deadline(d)
<1>1. /\ Len(dq') = Len(dq)
      /\ \A i \in 1 .. Len(dq) :
           dq'[i].age = IF dq[i].age < Tick THEN dq[i].age + 1 ELSE Tick
  BY DEF elapse, Inv, TypeOK
<1>2. Index(d)' = Index(d) /\ (Live(d)' <=> Live(d))
  BY <1>1 DEF elapse, Index, Live
<1>3. CASE Live(d)
  <2>1. /\ Index(d) + 1 \in 1 .. Len(dq)
        /\ Deadline(d) = dq[Index(d) + 1].age
        /\ Deadline(d) \in 0 .. Tick
    BY <1>3, DeadlineOfLive
  <2>2. Deadline(d)' = dq'[Index(d) + 1].age
    BY <1>2, <1>3 DEF Deadline
  <2> QED
    BY <1>1, <2>1, <2>2
<1>4. CASE ~Live(d)
  BY <1>2, <1>4 DEF Deadline
<1> QED
  BY <1>3, <1>4

\* Every step of the queue is a step of the deadlines, or a stutter.
LEMMA StepRefines ==
  Inv /\ [Next]_vars => [DT!TimerNext]_(DT!timerVars)
<1> SUFFICES ASSUME Inv, [Next]_vars
             PROVE  [DT!TimerNext]_(DT!timerVars)
  OBVIOUS
<1>1. ASSUME NEW c \in Conn, accept(c) PROVE DT!Accept(c)
  <2>1. \A d \in Conn : Deadline(d)' = Deadline(d)
    BY <1>1 DEF accept, Deadline, Live, Index
  <2>2. Deadline(c) = NoKey
    BY <1>1 DEF accept, Deadline, Live, Inv, NoConnectionNoKey
  <2> QED
    BY <1>1, <2>1, <2>2 DEF accept, DT!Accept
<1>2. ASSUME NEW c \in Conn, start_deadline(c) PROVE DT!Start(c)
  <2>1. \A d \in Conn : Deadline(d)' = IF d = c THEN 0 ELSE Deadline(d)
    BY <1>2, StartDeadline
  <2> QED
    BY <1>2, <2>1 DEF start_deadline, DT!Start
<1>3. ASSUME NEW c \in Conn, cancel_deadline_timer(c) PROVE DT!Cancel(c)
  <2>1. \A d \in Conn : Deadline(d)' = IF d = c THEN NoKey ELSE Deadline(d)
    BY <1>3, CancelDeadline DEF cancel_deadline_timer
  <2> QED
    BY <1>3, <2>1 DEF cancel_deadline_timer, DT!Cancel
<1>4. ASSUME NEW c \in Conn, destroy(c) PROVE DT!Destroy(c)
  <2>1. \A d \in Conn : Deadline(d)' = IF d = c THEN NoKey ELSE Deadline(d)
    BY <1>4, CancelDeadline DEF destroy
  <2> QED
    BY <1>4, <2>1 DEF destroy, DT!Destroy
<1>5. ASSUME process PROVE DT!Fire
  <2>1. PICK n \in 1 .. Len(dq) :
          /\ DuePrefix(n)
          /\ sock' = [c \in Conn |->
                        IF sock[c] = "open" /\ \E i \in 1 .. n : dq[i].f = c
                        THEN "closed" ELSE sock[c]]
          /\ dq' = SubSeq(dq, n + 1, Len(dq))
          /\ step' = Wrap(step + n)
          /\ key' = key /\ since' = since
    BY <1>5 DEF process
  <2>2. \A d \in Conn :
          /\ Deadline(d)' = IF Deadline(d) = Tick THEN NoKey ELSE Deadline(d)
          /\ Deadline(d) = Tick <=> \E i \in 1 .. n : dq[i].f = d
    BY <2>1, ProcessDeadline
  <2>3. sock' = [d \in Conn |-> IF sock[d] = "open" /\ Deadline(d) = Tick
                                THEN "closed" ELSE sock[d]]
    BY <2>1, <2>2
  <2> QED
    BY <2>2, <2>3 DEF DT!Fire
<1>6. ASSUME elapse PROVE DT!Elapse
  <2>1. \A d \in Conn : Deadline(d)' = IF Deadline(d) \in 0 .. (Tick - 1)
                                       THEN Deadline(d) + 1 ELSE Deadline(d)
    BY <1>6, ElapseDeadline
  <2> QED
    BY <1>6, <2>1 DEF elapse, DT!Elapse
<1>7. ASSUME UNCHANGED vars PROVE UNCHANGED (DT!timerVars)
  BY <1>7 DEF vars, DT!timerVars, Deadline, Live, Index
<1>8. ASSUME NEW c \in Conn, close(c) PROVE DT!Close(c)
  <2>1. \A d \in Conn : Deadline(d)' = Deadline(d)
    BY <1>8 DEF close, Deadline, Live, Index
  <2> QED
    BY <1>8, <2>1 DEF close, DT!Close
<1> QED
  BY <1>1, <1>2, <1>3, <1>4, <1>5, <1>6, <1>7, <1>8 DEF Next, DT!TimerNext

\* The deque of cancelled slots and wrapping int keys gives every
\* connection a deadline of its own (http_connection.h relies on it): it
\* fires when it has run for Tick and not otherwise.
THEOREM TimerQueueRefinement ==
  Spec => ImplementsDeadlines
<1>1. Init => DT!TimerInit
  BY InitRefines
<1>2. Inv /\ [Next]_vars => [DT!TimerNext]_(DT!timerVars)
  BY StepRefines
<1> QED
  BY <1>1, <1>2, TimerQueueInvariant, PTL DEF Spec, ImplementsDeadlines, DT!TimerSpec
=============================================================================
