------------------------------- MODULE Timers -------------------------------
(***************************************************************************)
(* setTimeout, setInterval and clearInterval: src/builtins/timer.cc and    *)
(* include/timer_context.h.  A timer handle of libuv counts down while the *)
(* loop runs; ticks of the model are the script's milliseconds.            *)
(***************************************************************************)
EXTENDS EventLoop

CONSTANTS
  MaxTimers,   \* how many timers the script makes (a bound)
  Delays,      \* the delays it asks for
  Ids          \* the identifiers that generate() may return

ASSUME TimerBound == MaxTimers \in Nat
ASSUME DelaysInt32 == \A d \in Delays : d \in Int /\ -2147483647 <= d /\ d <= 2147483647

Handles == 1 .. MaxTimers
Null == 0
Never == -1     \* later than any time that the process reaches

VARIABLES
  timer,                    \* the handles, in the order of creation
  made,                     \* how many have been made
  registered_interval_cb    \* TimerContext: the handle under each identifier

timers == <<timer, made, registered_interval_cb>>

\* kind of the callback, life of the handle, ticks until it is due, repeat of
\* uv_timer_start, identifier, references of registered_cb to its callback, and
\* whether the script has cleared the identifier it got for it.
Timer(kind, life, due, repeat, id, refs) ==
  [kind |-> kind, life |-> life, due |-> due, repeat |-> repeat, id |-> id,
   refs |-> refs, cleared |-> FALSE]

TimersInit ==
  /\ timer = [h \in Handles |-> Timer("none", "none", 0, 0, Null, 0)]
  /\ made = 0
  /\ registered_interval_cb = [i \in Ids |-> Null]

\* uv_timer_start takes uint64_t: a negative int32_t delay becomes a time of
\* more than 2^63 milliseconds.
AsUInt64(delay) == IF delay < 0 THEN Never ELSE delay

-----------------------------------------------------------------------------
(* The script's calls.                                                     *)

NewTimer(kind, due, repeat, id) ==
  /\ ApiCall /\ made < MaxTimers
  /\ made' = made + 1
  /\ timer' = [timer EXCEPT ![made + 1] = Timer(kind, "active", due, repeat, id, 1)]
  /\ UNCHANGED <<stop_flag, events>>

SetTimeOutFunc(delay) ==
  /\ NewTimer("timeout", AsUInt64(delay), 0, Null)
  /\ UNCHANGED registered_interval_cb

\* An identifier in use gets the new handle.
SetIntervalFunc(delay, id) ==
  /\ NewTimer("interval", AsUInt64(delay), AsUInt64(delay), id)
  /\ registered_interval_cb' = [registered_interval_cb EXCEPT ![id] = made + 1]

\* Mutant: the callback is freed here, though registered_cb still holds it.
clear_frees(h) ==
  LET target == registered_interval_cb[timer[h].id] IN
  /\ ApiCall
  /\ timer[h].kind = "interval" /\ ~ timer[h].cleared
  /\ timer' = [timer EXCEPT ![target].life = "closing", ![target].refs = @ - 1,
                            ![h].cleared = TRUE]
  /\ UNCHANGED <<made, registered_interval_cb, stop_flag, events>>

\* Mutant: the identifier is forgotten and the handle left running.
clear_forgets(h) ==
  /\ ApiCall
  /\ timer[h].kind = "interval" /\ ~ timer[h].cleared
  /\ timer' = [timer EXCEPT ![h].cleared = TRUE]
  /\ UNCHANGED <<made, registered_interval_cb, stop_flag, events>>

\* The script clears, once, the identifier that it got for h.  The entry stays
\* in the map.  uv_close wants a handle that has not been closed before.
clearIntervalFunc(h) ==
  LET target == registered_interval_cb[timer[h].id]
      open == timer[target].life \in {"active", "stopped"} IN
  /\ ApiCall
  /\ timer[h].kind = "interval" /\ ~ timer[h].cleared
  /\ timer' = [timer EXCEPT ![target].life = IF open THEN "closing" ELSE @,
                            ![h].cleared = TRUE]
  /\ events' = events \cup (IF open THEN {} ELSE {"closed twice"})
  /\ UNCHANGED <<made, registered_interval_cb, stop_flag>>

-----------------------------------------------------------------------------
(* The loop.                                                               *)

Due(h) == timer[h].life = "active" /\ timer[h].due = 0

\* uv__run_timers: the handle is stopped, started again if it repeats, and its
\* callback (timer_libuv_cb or set_interval_libuv_cb) calls the script.
Fire(h) ==
  LET repeats == timer[h].repeat # 0 IN
  /\ Due(h)
  /\ Call(Frame("timer", h))
  /\ timer' = [timer EXCEPT ![h].life = IF repeats THEN @ ELSE "stopped",
                            ![h].due = timer[h].repeat]
  /\ UNCHANGED <<made, registered_interval_cb, stop_flag, events>>

\* Mutant: an interval's callback closes the handle too.
libuv_cb_closes ==
  /\ frame.who = "timer" /\ Return
  /\ timer' = [timer EXCEPT ![frame.which].life = "closing"]
  /\ UNCHANGED <<made, registered_interval_cb, stop_flag, events>>

\* The call is over: timer_libuv_cb closes its handle, set_interval_libuv_cb
\* does nothing more.
timer_libuv_cb ==
  LET h == frame.which IN
  /\ frame.who = "timer" /\ Return
  /\ timer' = [timer EXCEPT ![h].life = IF timer[h].kind = "timeout" THEN "closing" ELSE @]
  /\ UNCHANGED <<made, registered_interval_cb, stop_flag, events>>

\* The handle and its Libuv_Cb are freed; the callback stays in registered_cb.
on_close(h) ==
  /\ InLoop
  /\ timer[h].life = "closing"
  /\ timer' = [timer EXCEPT ![h].life = "freed"]
  /\ UNCHANGED <<made, registered_interval_cb, stop_flag, events>>

\* A millisecond passes.
Counts(h) == timer[h].life = "active" /\ timer[h].due > 0
Tick ==
  /\ InLoop
  /\ \E h \in Handles : Counts(h)
  /\ timer' = [h \in Handles |-> IF Counts(h) THEN [timer[h] EXCEPT !.due = @ - 1] ELSE timer[h]]
  /\ UNCHANGED <<made, registered_interval_cb, stop_flag, events>>

\* The handles that uv__loop_alive counts.
TimersAlive == \E h \in Handles : timer[h].life \in {"active", "closing"}

\* The part of tear_down_runtime_env for timers.
FreeTimerCallbacks ==
  /\ timer' = [h \in Handles |-> [timer[h] EXCEPT !.refs = IF h <= made THEN @ - 1 ELSE @]]
  /\ UNCHANGED <<made, registered_interval_cb>>
=============================================================================
