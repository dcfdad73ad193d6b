------------------------------ MODULE Servers ------------------------------
(***************************************************************************)
(* Server objects as the script sees them (src/builtins/server_js.cc), the *)
(* routes they share (src/http_context.cc), and the SIGINT handle they     *)
(* share (src/signal_context.cc, Server::run and ~Server).  What happens   *)
(* on a connection is in Connections; here a request is the call of the    *)
(* handler that its route names.                                           *)
(***************************************************************************)
EXTENDS EventLoop, FiniteSets

CONSTANTS
  MaxServers,  \* how many Servers the script makes (a bound)
  MaxRoutes,   \* how many handlers it registers (a bound)
  Uris         \* the paths

ASSUME ServerBounds == MaxServers \in Nat /\ MaxRoutes \in Nat

ServerIds == 1 .. MaxServers
Handlers == 1 .. MaxRoutes
None == 0

VARIABLES
  server,      \* per Server: its life, and how its listen went
  handler,     \* per registered handler: its kind, and the references held
  registered,  \* how many have been registered
  routes_,     \* HttpContext: the handler of GET on each path
  ws_routes_,  \* and that of an upgrade
  sig          \* SignalContext: the entry of SIGINT

servers == <<server, handler, registered, routes_, ws_routes_, sig>>

ServersInit ==
  /\ server = [s \in ServerIds |-> [life |-> "none", stream |-> "none"]]
  /\ handler = [k \in Handlers |-> [kind |-> "none", refs |-> 0]]
  /\ registered = 0
  /\ routes_ = [u \in Uris |-> None] /\ ws_routes_ = [u \in Uris |-> None]
  /\ sig = [exists |-> FALSE, refcount |-> 0, active |-> FALSE, handle |-> "none"]

Alive(s) == server[s].life = "alive"

-----------------------------------------------------------------------------
(* Registration.  The table is the environment's, not the Server's.        *)

server_constructor(s) ==
  /\ ApiCall
  /\ server[s].life = "none" /\ \A t \in 1 .. s - 1 : server[t].life # "none"
  /\ server' = [server EXCEPT ![s].life = "alive"]
  /\ UNCHANGED <<handler, registered, routes_, ws_routes_, sig, stop_flag, events>>

\* A handler of a kind, whose callback registerd_cb holds if it has one.
Register(kind, refs) ==
  /\ ApiCall /\ registered < MaxRoutes
  /\ \E s \in ServerIds : Alive(s)
  /\ registered' = registered + 1
  /\ handler' = [handler EXCEPT ![registered + 1] = [kind |-> kind, refs |-> refs]]
  /\ UNCHANGED <<server, sig, stop_flag, events>>

\* get(uri, callback): a handler registered before for uri is replaced.
register_get_url(uri) ==
  /\ Register("get", 1)
  /\ routes_' = [routes_ EXCEPT ![uri] = registered + 1]
  /\ UNCHANGED ws_routes_

\* ws(uri, callback)
register_ws_url(uri) ==
  /\ Register("ws", 1)
  /\ ws_routes_' = [ws_routes_ EXCEPT ![uri] = registered + 1]
  /\ UNCHANGED routes_

\* serveStatic(uri, file): the handler holds no callback.
server_serve_static(uri) ==
  /\ Register("static", 0)
  /\ routes_' = [routes_ EXCEPT ![uri] = registered + 1]
  /\ UNCHANGED ws_routes_

\* mmap_static_file throws if the file cannot be opened, and nobody catches.
static_file_missing ==
  /\ pc = "js" /\ \E s \in ServerIds : Alive(s)
  /\ pc' = "aborted"
  /\ UNCHANGED <<frame, calls, stop_flag, events, servers>>

-----------------------------------------------------------------------------
(* The SIGINT handle.                                                      *)

\* The entry after register_daemon: the first reference starts the handle.
Registered ==
  IF sig.refcount + 1 = 1
  THEN [exists |-> TRUE, refcount |-> 1, active |-> TRUE, handle |-> "open"]
  ELSE [sig EXCEPT !.exists = TRUE, !.refcount = @ + 1]

\* Mutant: the handle is closed whatever the count.
dereg_any(n) ==
  [sig EXCEPT !.refcount = @ - n, !.active = FALSE, !.handle = IF sig.active THEN "closing" ELSE @]

\* The entry after n calls of deregister_daemon: the one that takes the count
\* to zero stops and closes an active handle.
Deregistered(n) ==
  LET e == [sig EXCEPT !.refcount = @ - n] IN
  IF sig.active /\ sig.refcount \in 1 .. n
  THEN [e EXCEPT !.active = FALSE, !.handle = "closing"]
  ELSE e

\* Server::run: SIGINT is registered first, and stays if the port cannot be bound
\* or listened to.  A restart of the handle while it is in the loop, or when the
\* loop is about to end, is not foreseen.
Run(s, outcome) ==
  /\ server' = [server EXCEPT ![s].stream = outcome]
  /\ sig' = Registered
  /\ events' = events \cup
       (IF sig.refcount = 0 /\ (stop_flag \/ sig.handle \in {"open", "closing"})
        THEN {"restart"} ELSE {})

\* listen(port), once for a Server; the port is an int32_t in range.
server_listen(s, outcome) ==
  /\ ApiCall /\ Alive(s) /\ server[s].stream = "none"
  /\ Run(s, outcome)
  /\ UNCHANGED <<handler, registered, routes_, ws_routes_, stop_flag>>

\* The script drops its last reference to a Server that does not listen, and
\* ~Server deregisters, whether it had registered or not.
server_finalizer(s) ==
  /\ ApiCall /\ Alive(s) /\ server[s].stream # "listening"
  /\ server' = [server EXCEPT ![s].life = "deleted"]
  /\ sig' = IF sig.exists THEN Deregistered(1) ELSE sig
  /\ events' = events \cup
       (IF sig.exists /\ server[s].stream = "none" THEN {"stray"} ELSE {})
  /\ UNCHANGED <<handler, registered, routes_, ws_routes_, stop_flag>>

\* The handler has run: the handle is closing, and active is a.
Interrupt(a) ==
  /\ InLoop
  /\ sig.active /\ sig.handle = "open"
  /\ sig' = [sig EXCEPT !.active = a, !.handle = "closing"]
  /\ events' = events \cup {"SIGINT"}
  /\ UNCHANGED <<server, handler, registered, routes_, ws_routes_>>

\* Mutants: active stays set; the loop is not stopped.
interrupt_keeps_active == Interrupt(TRUE) /\ stop_flag' = TRUE
interrupt_no_stop == Interrupt(FALSE) /\ UNCHANGED stop_flag

\* SIGINT arrives.
on_signal_cb == Interrupt(FALSE) /\ stop_flag' = TRUE

\* uv_close of the handle, which has no callback, is completed by the loop.
signal_closed ==
  /\ InLoop
  /\ sig.handle = "closing"
  /\ sig' = [sig EXCEPT !.handle = "closed"]
  /\ UNCHANGED <<server, handler, registered, routes_, ws_routes_, stop_flag, events>>

-----------------------------------------------------------------------------
(* Requests.                                                               *)

Listening == \E s \in ServerIds : server[s].stream = "listening"

\* invoke_function: the handler of the route, which calls the script unless the
\* route is static or there is none (404).
invoke_function(uri) ==
  /\ Listening
  /\ IF routes_[uri] # None /\ handler[routes_[uri]].kind = "get"
     THEN Call(Frame("handler", routes_[uri]))
     ELSE InLoop
  /\ UNCHANGED <<stop_flag, events, servers>>

\* invoke_ws_function: without a route nothing is called.
invoke_ws_function(uri) ==
  /\ Listening
  /\ IF ws_routes_[uri] # None THEN Call(Frame("handler", ws_routes_[uri])) ELSE InLoop
  /\ UNCHANGED <<stop_flag, events, servers>>

handler_returns ==
  /\ frame.who = "handler" /\ Return
  /\ UNCHANGED <<stop_flag, events, servers>>

\* The handles that uv__loop_alive counts.
ServersAlive == Listening \/ sig.handle \in {"open", "closing"}

-----------------------------------------------------------------------------
(* The parts of tear_down_runtime_env.                                     *)

FreeHandlerCallbacks ==
  handler' = [k \in Handlers |->
    IF handler[k].kind \in {"get", "ws"} THEN [handler[k] EXCEPT !.refs = @ - 1] ELSE handler[k]]

\* JS_FreeContext finalizes the Servers that are left, after
\* uv_library_shutdown; a signal call would come too late.
FreeServers ==
  LET n == Cardinality({s \in ServerIds : Alive(s)}) IN
  /\ server' = [s \in ServerIds |-> IF Alive(s) THEN [server[s] EXCEPT !.life = "deleted"] ELSE server[s]]
  /\ sig' = IF sig.exists THEN Deregistered(n) ELSE sig
  /\ events' = events \cup
       (IF sig.exists /\ Deregistered(n).active # sig.active THEN {"late"} ELSE {})
=============================================================================
