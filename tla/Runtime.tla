------------------------------ MODULE Runtime ------------------------------
(***************************************************************************)
(* The process: the script, its Timers and Servers on one event loop, and  *)
(* the end of it, as main and tear_down_runtime_env of src/capy_main.cc    *)
(* put them together.                                                      *)
(***************************************************************************)
EXTENDS Timers, Servers

vars == <<loop, timers, servers>>

Init == EventLoopInit /\ TimersInit /\ ServersInit

TimerStep ==
  /\ \/ \E d \in Delays : SetTimeOutFunc(d) \/ \E i \in Ids : SetIntervalFunc(d, i)
     \/ \E h \in Handles : clearIntervalFunc(h) \/ Fire(h) \/ on_close(h)
     \/ timer_libuv_cb
     \/ Tick
  /\ UNCHANGED servers

ServerStep ==
  /\ \/ \E s \in ServerIds :
          \/ server_constructor(s) \/ server_finalizer(s)
          \/ \E outcome \in {"listening", "failed"} : server_listen(s, outcome)
     \/ \E u \in Uris :
          \/ register_get_url(u) \/ register_ws_url(u) \/ server_serve_static(u)
          \/ invoke_function(u) \/ invoke_ws_function(u)
     \/ static_file_missing
     \/ handler_returns
     \/ on_signal_cb \/ signal_closed
  /\ UNCHANGED timers

\* JS_Eval returns to main, which runs the loop.
ScriptEnds == Running(Script) /\ Return /\ UNCHANGED <<stop_flag, events, timers, servers>>

LoopAlive == TimersAlive \/ ServersAlive

\* uv_run returns.
LoopEnds ==
  /\ pc = "loop"
  /\ stop_flag \/ ~ LoopAlive
  /\ pc' = "exit"
  /\ UNCHANGED <<frame, calls, stop_flag, events, timers, servers>>

tear_down_runtime_env ==
  /\ pc = "exit" /\ pc' = "end"
  /\ FreeHandlerCallbacks
  /\ FreeTimerCallbacks
  /\ FreeServers
  /\ UNCHANGED <<frame, calls, stop_flag, registered, routes_, ws_routes_>>

\* The loop sleeps: a timer may be too far away, and nothing else need come.
Sleep == pc = "loop" /\ ~ stop_flag /\ LoopAlive /\ UNCHANGED vars

\* The process is over.
Over == pc \in {"end", "aborted"} /\ UNCHANGED vars

Next == TimerStep \/ ServerStep \/ ScriptEnds \/ LoopEnds \/ tear_down_runtime_env
        \/ Sleep \/ Over

Spec == Init /\ [][Next]_vars

Returns == ScriptEnds \/ (timer_libuv_cb /\ UNCHANGED servers) \/ (handler_returns /\ UNCHANGED timers)

\* JavaScript code returns; time passes; every turn of the loop runs the timers
\* that are due, whatever else it serves; uv_stop lets a turn be the last.
\* Nothing is assumed of clients, signals and what the script calls.
FairSpec ==
  /\ Spec
  /\ WF_vars(Returns)
  /\ SF_vars(Tick /\ UNCHANGED servers)
  /\ \A h \in Handles : SF_vars(Fire(h) /\ UNCHANGED servers)
  /\ SF_vars(LoopEnds)
  /\ WF_vars(tear_down_runtime_env)

-----------------------------------------------------------------------------
\* Whatever the loop may still call is held: the callback of a timer that counts
\* or runs, and that of a handler a route names.  When the process has ended,
\* nothing is held any more and nothing has been freed twice.
CallbacksHeld ==
  /\ pc \in {"js", "loop"} =>
       /\ \A h \in Handles :
            (timer[h].life = "active" \/ Running(Frame("timer", h))) => timer[h].refs = 1
       /\ \A u \in Uris : \A k \in {routes_[u], ws_routes_[u]} \ {None} :
            handler[k].kind \in {"get", "ws"} => handler[k].refs = 1
  /\ pc = "end" => (\A h \in Handles : timer[h].refs = 0) /\ (\A k \in Handlers : handler[k].refs = 0)

\* Two intervals have got the same identifier.
Collided ==
  \E g, h \in Handles : g # h /\ timer[g].kind = "interval" /\ timer[h].kind = "interval"
                        /\ timer[g].id = timer[h].id

\* A cleared interval is stopped for good ("Stops a repeating timer."), and a
\* script that clears an identifier once never makes clearInterval close a handle
\* again that is closing or freed, unless generate() repeated itself.
ClearStops ==
  \/ Collided
  \/ /\ \A h \in Handles : timer[h].cleared => timer[h].life \in {"closing", "freed"}
     /\ "closed twice" \notin events

\* The Servers that called listen and are not deleted.
Users == {s \in ServerIds : Alive(s) /\ server[s].stream # "none"}

\* The reference count of SIGINT is the number of these Servers, and as long as
\* there is one the process can be interrupted: on_signal_cb is installed and its
\* handle open.  Excepted: SIGINT has come, a Server that never listened has
\* deregistered, or the handle was started again while it was closing.
SignalAccounted ==
  "stray" \notin events /\ pc # "end" =>
    /\ sig.refcount = Cardinality(Users)
    /\ ~ stop_flag => (sig.active <=> Users # {})
    /\ (sig.active /\ "restart" \notin events) => sig.handle = "open"

\* No signal handle is stopped after uv_library_shutdown, when the Servers that
\* are left deregister, unless it was started again while the loop still had it.
NoLateCall == "late" \in events => "restart" \in events

\* A timer fires after its delay, and again and again if it is an interval of
\* at least a millisecond, unless it is cleared or the process stops.
Owes(h) ==
  \/ timer[h].kind = "timeout" /\ timer[h].life = "active" /\ timer[h].due # Never
  \/ timer[h].kind = "interval" /\ timer[h].repeat > 0
TimerFires ==
  \A h \in Handles : Owes(h) ~>
    (Running(Frame("timer", h)) \/ timer[h].cleared \/ Collided \/ stop_flag \/ pc = "aborted")

\* A process that gets SIGINT ends, whatever listens or counts.
InterruptEnds == ("SIGINT" \in events) ~> (pc \in {"end", "aborted"})
=============================================================================
