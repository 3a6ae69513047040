---------------------------- MODULE MCTimerQueue ----------------------------
(* Two connections on one worker, deadlines of two seconds, and keys that  *)
(* wrap around after four timers.                                          *)
EXTENDS TimerQueue
=============================================================================
