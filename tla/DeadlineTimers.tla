--------------------------- MODULE DeadlineTimers ---------------------------
(***************************************************************************)
(* What crow's Connection expects of its timer: one deadline per           *)
(* connection, which can be started (again), cancelled, and which closes   *)
(* the connection's socket when it has been running for Tick seconds.      *)
(* TimerQueue is the data structure that is meant to provide it.           *)
(***************************************************************************)
EXTENDS Integers

CONSTANTS Conn,   \* the connections served by one worker
          Tick,   \* dumb_timer_queue::tick: seconds a deadline runs
          Off     \* "no deadline is running"

VARIABLES timer,  \* timer[c]: seconds c's deadline has run (at most Tick), or Off
          sock    \* sock[c]: "none" (no Connection), "open" or "closed"

timerVars == <<timer, sock>>

TimerTypeOK ==
  /\ timer \in [Conn -> (0 .. Tick) \cup {Off}]
  /\ sock \in [Conn -> {"none", "open", "closed"}]

TimerInit ==
  /\ timer = [c \in Conn |-> Off]
  /\ sock = [c \in Conn |-> "none"]

\* A new Connection object on an accepted socket.
Accept(c) ==
  /\ sock[c] = "none"
  /\ timer[c] = Off
  /\ sock' = [sock EXCEPT ![c] = "open"]
  /\ UNCHANGED timer

Start(c) ==
  /\ sock[c] = "open"
  /\ timer' = [timer EXCEPT ![c] = 0]
  /\ UNCHANGED sock

Cancel(c) ==
  /\ sock[c] # "none"
  /\ timer' = [timer EXCEPT ![c] = Off]
  /\ UNCHANGED sock

\* The socket is closed while the Connection object stays.
Close(c) ==
  /\ sock[c] = "open"
  /\ sock' = [sock EXCEPT ![c] = "closed"]
  /\ UNCHANGED timer

\* The Connection object goes away, and its socket with it.
Destroy(c) ==
  /\ sock[c] # "none"
  /\ timer' = [timer EXCEPT ![c] = Off]
  /\ sock' = [sock EXCEPT ![c] = "none"]

\* One second passes.
Elapse ==
  /\ timer' = [c \in Conn |-> IF timer[c] \in 0 .. (Tick - 1)
                              THEN timer[c] + 1 ELSE timer[c]]
  /\ UNCHANGED sock

\* Every deadline that has run out fires, and no other one.
Fire ==
  /\ timer' = [c \in Conn |-> IF timer[c] = Tick THEN Off ELSE timer[c]]
  /\ sock' = [c \in Conn |-> IF sock[c] = "open" /\ timer[c] = Tick
                             THEN "closed" ELSE sock[c]]

TimerNext ==
  \/ \E c \in Conn : Accept(c) \/ Start(c) \/ Cancel(c) \/ Close(c) \/ Destroy(c)
  \/ Elapse
  \/ Fire

TimerSpec == TimerInit /\ [][TimerNext]_timerVars
=============================================================================
