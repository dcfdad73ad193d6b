----------------------------- MODULE EventLoop -----------------------------
(***************************************************************************)
(* The main thread of capyJs: it runs the script, then the callbacks of    *)
(* libuv's loop, one at a time, and the environment is torn down when the  *)
(* loop ends (main of src/capy_main.cc).  Timers and Servers share it.     *)
(***************************************************************************)
EXTENDS Integers

CONSTANT MaxCalls   \* how many calls of the API the script makes (a bound)

ASSUME CallBound == MaxCalls \in Nat

VARIABLES
  pc,         \* "js", "loop", "exit" (uv_run has returned), "end", "aborted"
  frame,      \* what the JavaScript code runs for: who, and which one
  calls,      \* the script's calls so far
  stop_flag,  \* uv_stop has been called
  events      \* history: SIGINT, and the misuses of libuv, that have happened

loop == <<pc, frame, calls, stop_flag, events>>

Frame(who, which) == [who |-> who, which |-> which]
Script == Frame("script", 0)
Nobody == Frame("nobody", 0)

EventLoopInit ==
  /\ pc = "js" /\ frame = Script /\ calls = 0
  /\ stop_flag = FALSE /\ events = {}

\* JavaScript code is running, called for fr.
Running(fr) == pc = "js" /\ frame = fr

\* A callback of the loop calls into JavaScript.
Call(fr) == pc = "loop" /\ pc' = "js" /\ frame' = fr /\ UNCHANGED calls

\* It returns to the loop.
Return == pc = "js" /\ pc' = "loop" /\ frame' = Nobody /\ UNCHANGED calls

\* JavaScript code calls a function of the API.
ApiCall ==
  /\ pc = "js" /\ calls < MaxCalls
  /\ calls' = calls + 1
  /\ UNCHANGED <<pc, frame>>

\* A callback of the loop that does not call JavaScript.
InLoop == pc = "loop" /\ UNCHANGED <<pc, frame, calls>>
=============================================================================
