----------------------------- MODULE Connections ----------------------------
(***************************************************************************)
(* The connections of a Server: src/server.cc, src/http_message.cc,        *)
(* src/ws.cc, with the pools of include/server_pool.h and the reference    *)
(* counted guard of include/conn_guard.h.  Everything runs on the event    *)
(* loop; an action is one callback, or one call from JavaScript into the   *)
(* native code.  The pools are SlotPools (MemPool implements them): which  *)
(* free slot acquire returns is left open.                                 *)
(*                                                                         *)
(* A connection is numbered by the order in which its peer was accepted.   *)
(* The numbers are not in the code: they tell one use of a recycled slot   *)
(* from the next.                                                          *)
(***************************************************************************)
EXTENDS Integers, Sequences, FiniteSets

CONSTANTS
  max_connections,  \* slots of the client pool and of the guard pool
  HEADROOM,         \* read buffers per connection
  MaxPeers,         \* how many peers connect (a bound)
  MaxReads,         \* how many reads deliver something (a bound)
  MaxWrites,        \* how many writes a script queues on one socket (a bound)
  Left              \* may the kernel leave part of a write? (no action but the
                    \* write itself looks at what is left)

ASSUME Sizes == max_connections \in Nat \ {0} /\ HEADROOM \in Nat \ {0}
ASSUME Bounds == MaxPeers \in Nat /\ MaxReads \in Nat /\ MaxWrites \in Nat
ASSUME Leaves == Left \subseteq BOOLEAN /\ Left # {}

Clients == 1 .. max_connections
Guards == 1 .. max_connections
NBuffers == max_connections * HEADROOM
None == 0

VARIABLES
  cli,      \* the client pool: per slot its connection (None for a free slot),
            \* its two handles, whether it reads, write_in_flight, closing,
            \* conn_protocol, the read buffers chained to it (recv), its guard,
            \* the writes libuv has accepted and not called back for, and
            \* whether a shutdown is under way
  guards,   \* the guard pool: connection, alive, ref_count
  res,      \* the response objects that JavaScript may still end
  buffers,  \* read buffers in use
  peers,    \* peers accepted so far
  reads,    \* reads so far
  crashed   \* did uv_close meet a handle that was closing?

vars == <<cli, guards, res, buffers, peers, reads, crashed>>

FreeSlot ==
  [conn |-> None, socket |-> "none", timer |-> "none", reading |-> FALSE,
   write_in_flight |-> FALSE, closing |-> FALSE, protocol |-> "http", recv |-> 0,
   guard |-> None, writes |-> <<>>, shutdown |-> FALSE]

FreeGuard == [conn |-> None, alive |-> FALSE, ref_count |-> 0]

Init ==
  /\ cli = [c \in Clients |-> FreeSlot]
  /\ guards = [g \in Guards |-> FreeGuard]
  /\ res = {}
  /\ buffers = 0 /\ peers = 0 /\ reads = 0
  /\ crashed = FALSE

-----------------------------------------------------------------------------
(* libuv, and the guard.                                                   *)

\* uv_close of an open socket: no further reads, the close callback follows.
uv_close(r) == [r EXCEPT !.socket = "closing", !.reading = FALSE]

\* The pattern  if (!uv_is_closing(...)) uv_close(...).
CloseOnce(r) == IF r.socket = "open" THEN uv_close(r) ELSE r

\* uv_write refuses a socket that is closing or shutting down.  What the kernel
\* does not take at once (left) is read from the caller's buffers later.
Writable(r) == r.socket = "open" /\ ~ r.shutdown
uv_write(r, kind, left) ==
  IF Writable(r)
  THEN [r EXCEPT !.writes = Append(@, [kind |-> kind, left |-> left])]
  ELSE r

\* uv_read_start, which refuses a socket that is closing.
uv_read_start(r) == [r EXCEPT !.reading = r.socket = "open"]

\* ConnGuard::release: the last reference returns the guard to its pool.
release(g) == IF g.ref_count = 1 THEN FreeGuard ELSE [g EXCEPT !.ref_count = @ - 1]

-----------------------------------------------------------------------------
(* on_peer_connected.                                                      *)

\* ok: uv_accept and uv_tcp_getpeername succeeded.  Otherwise nothing is read
\* and the connection waits for its idle timer.
Accept(c, g, ok) ==
  /\ peers < MaxPeers
  /\ cli[c].conn = None /\ guards[g].conn = None
  /\ peers' = peers + 1
  /\ cli' = [cli EXCEPT ![c] = [FreeSlot EXCEPT !.conn = peers + 1, !.socket = "open",
                                  !.timer = "running", !.reading = ok, !.guard = g]]
  /\ guards' = [guards EXCEPT ![g] = [conn |-> peers + 1, alive |-> TRUE, ref_count |-> 1]]
  /\ UNCHANGED <<res, buffers, reads, crashed>>

\* A pool is exhausted: the peer is accepted on a temporary socket and closed,
\* and a client slot already acquired goes back.  The temporary socket is no
\* state here: an accept that fails frees it although the loop has it.
Reject ==
  /\ peers < MaxPeers
  /\ (\A c \in Clients : cli[c].conn # None) \/ (\A g \in Guards : guards[g].conn # None)
  /\ peers' = peers + 1
  /\ UNCHANGED <<cli, guards, res, buffers, reads, crashed>>

-----------------------------------------------------------------------------
(* on_alloc_buffer_cb and on_read_cb.  Both belong to one read of libuv.   *)

Readable(c) ==
  /\ cli[c].reading
  /\ reads < MaxReads
  /\ reads' = reads + 1
  /\ UNCHANGED <<peers, crashed>>

\* No read buffer is left: UV_ENOBUFS.
ReadNoBufs(c) ==
  /\ Readable(c)
  /\ buffers = NBuffers
  /\ cli' = [cli EXCEPT ![c] = CloseOnce(@)]
  /\ UNCHANGED <<guards, res, buffers>>

\* UV_EOF, an error, or nread = 0: the buffer goes back and the socket closes.
ReadEnd(c) ==
  /\ Readable(c)
  /\ buffers < NBuffers
  /\ cli' = [cli EXCEPT ![c] = CloseOnce(@)]
  /\ UNCHANGED <<guards, res, buffers>>

\* Part of a request or of a frame: the buffer is chained to the client.
ReadPart(c) ==
  /\ Readable(c)
  /\ buffers < NBuffers
  /\ cli' = [cli EXCEPT ![c].recv = @ + 1]
  /\ buffers' = buffers + 1
  /\ UNCHANGED <<guards, res>>

\* The request does not parse.
ReadBad(c) ==
  /\ Readable(c)
  /\ buffers < NBuffers /\ cli[c].protocol = "http"
  /\ cli' = [cli EXCEPT ![c] = [CloseOnce(@) EXCEPT !.recv = cli[c].recv + 1]]
  /\ buffers' = buffers + 1
  /\ UNCHANGED <<guards, res>>

\* The last part of a request or frame: the new buffer joins the chain, and
\* clear_buffer returns the chain to the pool.
Complete(c, protocol) ==
  /\ Readable(c)
  /\ buffers < NBuffers /\ cli[c].protocol = protocol
  /\ buffers' = buffers - cli[c].recv

Cleared(r) == [r EXCEPT !.recv = 0]

\* A request arrives while a response is outstanding: it is dropped, and
\* reading stops until that response has been written.
ReadPipelined(c) ==
  /\ Complete(c, "http")
  /\ cli[c].write_in_flight \/ cli[c].closing
  /\ cli' = [cli EXCEPT ![c] = [Cleared(@) EXCEPT !.reading = FALSE]]
  /\ UNCHANGED <<guards, res>>

\* A request that will be answered.
ReadRequest(c) ==
  /\ Complete(c, "http")
  /\ ~ (cli[c].write_in_flight \/ cli[c].closing)

\* A route of the script: JavaScript receives a response object that holds a
\* reference to the guard, and may end it now or later.
RequestToScript(c) ==
  /\ ReadRequest(c)
  /\ cli' = [cli EXCEPT ![c] = [Cleared(@) EXCEPT !.write_in_flight = TRUE]]
  /\ res' = res \cup {[id |-> reads, cli |-> c, guard |-> cli[c].guard, conn |-> cli[c].conn]}
  /\ guards' = [guards EXCEPT ![cli[c].guard].ref_count = @ + 1]

\* A static file, or no route at all (404): answered before the callback ends.
RequestAnswered(c, kind, left) ==
  /\ ReadRequest(c)
  /\ cli' = [cli EXCEPT ![c] =
               uv_write([Cleared(@) EXCEPT !.write_in_flight = TRUE], kind, left)]
  /\ UNCHANGED <<guards, res>>

\* A WebSocket upgrade: the response object is deleted unused, the handshake is
\* written, and the connection changes its protocol.
RequestUpgrade(c, left) ==
  /\ ReadRequest(c)
  /\ cli' = [cli EXCEPT ![c] =
               uv_write([Cleared(@) EXCEPT !.write_in_flight = TRUE, !.protocol = "ws"],
                        "ws", left)]
  /\ UNCHANGED <<guards, res>>

\* A whole frame: onMessage has been called.
ReadFrame(c) ==
  /\ Complete(c, "ws")
  /\ cli' = [cli EXCEPT ![c] = Cleared(@)]
  /\ UNCHANGED <<guards, res>>

-----------------------------------------------------------------------------
(* JavaScript calling into the native code.                                *)

\* Whatever the connection has come to, the response gives up its reference to
\* the guard and is deleted.
EndResponse(r) ==
  /\ res' = res \ {r}
  /\ guards' = [guards EXCEPT ![r.guard] = release(@)]
  /\ UNCHANGED <<buffers, peers, reads>>

Gone(r) == ~ guards[r.guard].alive \/ cli[r.cli].closing

\* Mutant: send() does not look at the guard.
SendUnguarded(r, left) ==
  /\ EndResponse(r)
  /\ cli' = [cli EXCEPT ![r.cli] = uv_write(@, "dynamic", left)]
  /\ UNCHANGED crashed

\* res.end(body), ResponseObject::send: nothing is written for a connection that
\* is gone.  The copy of the body in pending_write_buffer belongs to the write, and
\* on_write_cb frees it; it is lost if uv_write refuses.
Send(r, left) ==
  /\ EndResponse(r)
  /\ cli' = IF Gone(r) THEN cli
            ELSE [cli EXCEPT ![r.cli] = uv_write(@, "dynamic", left)]
  /\ UNCHANGED crashed

\* res.end(body) without memory for the body, ResponseObject::abort: a 503, and
\* the socket is closed at once if it cannot be written.
Abort(r, left) ==
  /\ EndResponse(r)
  /\ LET writable == Writable(cli[r.cli]) IN
     /\ cli' = IF Gone(r) THEN cli
               ELSE [cli EXCEPT ![r.cli] = IF writable THEN uv_write(@, "abort", left)
                                           ELSE uv_close(@)]
     /\ crashed' = (~ Gone(r) /\ ~ writable /\ cli[r.cli].socket # "open")

\* ws.send(message) while the connection has its WebSocket.
WsSend(c, left) ==
  /\ cli[c].protocol = "ws" /\ Writable(cli[c])
  /\ Len(cli[c].writes) < MaxWrites
  /\ cli' = [cli EXCEPT ![c] = uv_write(@, "ws", left)]
  /\ UNCHANGED <<guards, res, buffers, peers, reads, crashed>>

-----------------------------------------------------------------------------
(* Callbacks of writes, shutdowns, timers and closed handles.              *)

\* The oldest write is done, or is cancelled because the socket is closing:
\* on_write_cb, on_static_write_cb, on_abort_write_cb, or a frame's callback.
Written(r) ==
  CASE Head(r.writes).kind \in {"dynamic", "static", "404"} ->
         uv_read_start([r EXCEPT !.write_in_flight = FALSE])
    [] Head(r.writes).kind = "abort" -> [r EXCEPT !.shutdown = Writable(r)]
    [] OTHER -> r

WriteDone(c) ==
  /\ cli[c].writes # <<>>
  /\ cli' = [cli EXCEPT ![c] = [Written(@) EXCEPT !.writes = Tail(cli[c].writes)]]
  /\ UNCHANGED <<guards, res, buffers, peers, reads, crashed>>

\* on_abort_shutdown_cb closes the socket without asking whether it is closing.
ShutdownDone(c) ==
  /\ cli[c].shutdown /\ cli[c].writes = <<>>
  /\ cli' = [cli EXCEPT ![c] = [uv_close(@) EXCEPT !.shutdown = FALSE]]
  /\ crashed' = (cli[c].socket # "open")
  /\ UNCHANGED <<guards, res, buffers, peers, reads>>

\* Mutant: the timeout also closes the timer it came from.
IdleTimeoutClosesTimer(c) ==
  /\ cli[c].timer = "running" /\ cli[c].socket = "open"
  /\ cli' = [cli EXCEPT ![c] = [uv_close(@) EXCEPT !.timer = "closing"]]
  /\ UNCHANGED <<guards, res, buffers, peers, reads, crashed>>

on_idle_timeout_cb(c) ==
  /\ cli[c].timer = "running" /\ cli[c].socket = "open"
  /\ cli' = [cli EXCEPT ![c] = uv_close(@)]
  /\ UNCHANGED <<guards, res, buffers, peers, reads, crashed>>

\* The body of on_client_closed_cb, with its parts as parameters so that the
\* mutants can leave one out: the buffers returned, the guard afterwards, and
\* the timer afterwards.
ClientClosed(c, returned, guard, timer) ==
  /\ cli[c].socket = "closing" /\ cli[c].writes = <<>> /\ ~ cli[c].shutdown
  /\ cli' = [cli EXCEPT ![c] = [Cleared(@) EXCEPT !.socket = "closed", !.closing = TRUE,
                                  !.guard = None, !.timer = timer]]
  /\ buffers' = buffers - returned
  /\ guards' = [guards EXCEPT ![cli[c].guard] = guard]
  /\ UNCHANGED <<res, peers, reads, crashed>>

Dead(g) == [g EXCEPT !.alive = FALSE]

ClosedKeepsBuffers(c) == ClientClosed(c, 0, release(Dead(guards[cli[c].guard])), "closing")
ClosedKeepsGuard(c) == ClientClosed(c, cli[c].recv, Dead(guards[cli[c].guard]), "closing")
ClosedGuardAlive(c) == ClientClosed(c, cli[c].recv, release(guards[cli[c].guard]), "closing")
ClosedKeepsTimer(c) ==
  ClientClosed(c, cli[c].recv, release(Dead(guards[cli[c].guard])), "running")

\* The socket is closed: the buffers go back, the WebSocket is told and freed,
\* the guard is marked dead and released, and the timer is closed in turn.
on_client_closed_cb(c) ==
  ClientClosed(c, cli[c].recv, release(Dead(guards[cli[c].guard])), "closing")

\* The timer is closed too: the slot goes back to the pool.
on_idle_timer_closed_cb(c) ==
  /\ cli[c].timer = "closing"
  /\ cli' = [cli EXCEPT ![c] = FreeSlot]
  /\ UNCHANGED <<guards, res, buffers, peers, reads, crashed>>

-----------------------------------------------------------------------------
Read(c) ==
  \/ ReadNoBufs(c)
  \/ ReadEnd(c)
  \/ ReadPart(c)
  \/ ReadBad(c)
  \/ ReadPipelined(c)
  \/ RequestToScript(c)
  \/ \E kind \in {"static", "404"}, left \in Left : RequestAnswered(c, kind, left)
  \/ \E left \in Left : RequestUpgrade(c, left)
  \/ ReadFrame(c)

\* What the loop does for connection c without its peer or the script.
Loop(c) ==
  \/ cli[c].socket = "closing" /\ (WriteDone(c) \/ ShutdownDone(c))
  \/ on_idle_timeout_cb(c)
  \/ on_client_closed_cb(c)
  \/ on_idle_timer_closed_cb(c)

Script ==
  \/ \E r \in res, left \in Left : Send(r, left) \/ Abort(r, left)
  \/ \E c \in Clients, left \in Left : WsSend(c, left)

\* Nobody is left to serve.
Idle ==
  /\ peers = MaxPeers \/ crashed
  /\ UNCHANGED vars

Next ==
  \/ /\ ~ crashed
     /\ \/ \E c \in Clients, g \in Guards, ok \in BOOLEAN : Accept(c, g, ok)
        \/ Reject
        \/ Script
        \/ \E c \in Clients : Read(c) \/ WriteDone(c) \/ ShutdownDone(c) \/ Loop(c)
  \/ Idle

Spec == Init /\ [][Next]_vars

\* The loop serves closed handles and the idle timer.  Nothing is assumed of the
\* peer (that it sends, or takes what is written to it) or of the script (that
\* it ends its responses).  Peers send finitely often here (MaxReads), so the
\* timer, which each read sets anew, does fire.
FairSpec == Spec /\ \A c \in Clients : WF_vars(~ crashed /\ Loop(c))

-----------------------------------------------------------------------------
\* Every slot, guard and counter has its type, and no pool is overdrawn.
TypeOK ==
  /\ cli \in [Clients ->
       [conn : 0 .. MaxPeers, socket : {"none", "open", "closing", "closed"},
        timer : {"none", "running", "closing"}, reading : BOOLEAN,
        write_in_flight : BOOLEAN, closing : BOOLEAN, protocol : {"http", "ws"},
        recv : 0 .. NBuffers, guard : Guards \cup {None},
        writes : Seq([kind : {"dynamic", "static", "404", "abort", "ws"}, left : BOOLEAN]),
        shutdown : BOOLEAN]]
  /\ guards \in [Guards -> [conn : 0 .. MaxPeers, alive : BOOLEAN, ref_count : Nat]]
  /\ \A r \in res : r \in [id : Nat, cli : Clients, guard : Guards, conn : 1 .. MaxPeers]
  /\ buffers \in 0 .. NBuffers
  /\ peers \in 0 .. MaxPeers /\ reads \in 0 .. MaxReads /\ crashed \in BOOLEAN

\* The reference count of a guard is the number of its holders, the client and
\* the responses not yet ended, and a guard without holders is in its pool: none
\* leaks and none is released early.
GuardsAccounted ==
  \A g \in Guards :
    /\ guards[g].ref_count =
         Cardinality({c \in Clients : cli[c].guard = g}) + Cardinality({r \in res : r.guard = g})
    /\ guards[g].conn = None <=> guards[g].ref_count = 0

\* A response ended late never writes to the peer that has since been given its
\* slot: while the guard a response holds is alive, the slot still serves the
\* connection the response was made for ("any inflight ResponseObject will see
\* alive=false").
NoStaleResponse ==
  \A r \in res :
    /\ guards[r.guard].conn = r.conn
    /\ guards[r.guard].alive => cli[r.cli].conn = r.conn

\* What is being done about the request of client c: a response not yet ended, a
\* response being written, or a 503 being shut down.
Exchanges(c) ==
  Cardinality({r \in res : r.conn = cli[c].conn})
    + Cardinality({i \in DOMAIN cli[c].writes : cli[c].writes[i].kind # "ws"})
    + (IF cli[c].shutdown THEN 1 ELSE 0)

\* An open HTTP connection is write_in_flight exactly while one request is being
\* answered: the one write_handle and the one pending_write_buffer of a client
\* are never in use twice, and a connection does not stay paused for nothing.
OneExchange ==
  \A c \in Clients : (cli[c].socket = "open" /\ cli[c].protocol = "http") =>
    Exchanges(c) = IF cli[c].write_in_flight THEN 1 ELSE 0

\* A slot goes back to the pool only when libuv is done with the memory in it:
\* the socket is closed, no write or shutdown will call back, and nothing of the
\* connection is left in the slot.
ReleasedQuiet ==
  [][\A c \in Clients : (cli[c].conn # None /\ cli'[c].conn = None) =>
       /\ cli[c].socket = "closed" /\ cli[c].writes = <<>> /\ ~ cli[c].shutdown
       /\ cli[c].recv = 0 /\ cli[c].guard = None]_vars

\* The read buffers that some client's recv chain holds: a client and a place.
Chained == UNION {{c} \X (1 .. cli[c].recv) : c \in Clients}

\* Every read buffer in use is chained to a client: each path through on_read_cb
\* and the close callbacks returns what on_alloc_buffer_cb took.
BuffersAccounted == buffers = Cardinality(Chained)

\* Every connection gives its slot back, even if the peer falls silent, takes no
\* data, or the script never ends its response.
SlotReclaimed ==
  \A c \in Clients : (cli[c].conn # None) ~> (cli[c].conn = None \/ crashed)

\* libuv on writes: "the memory pointed to by the buffers must remain valid until
\* the callback gets called".  Only the fixed 404 and 503 texts do; the headers of
\* send(), the handshake and a frame are locals of functions that have returned.
BuffersOutliveWrites ==
  \A c \in Clients : \A i \in DOMAIN cli[c].writes :
    cli[c].writes[i].left => cli[c].writes[i].kind \in {"404", "abort"}
=============================================================================
