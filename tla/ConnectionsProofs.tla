-------------------------- MODULE ConnectionsProofs -------------------------
(***************************************************************************)
(* Proofs about Connections, for every number of slots, peers and reads.   *)
(*                                                                         *)
(* IInv is about guards: Slot(r) says what the fields of one client slot   *)
(* owe to each other, Linked and Single how a client and its guard belong  *)
(* together, Owed(r) what a response knows of them, and Accounted(g)       *)
(* counts the holders of a guard.  On top of it XInv says that what is     *)
(* being done about a client's request is one thing at a time, and BInv    *)
(* that the read buffers in use are those chained to the clients.          *)
(***************************************************************************)
EXTENDS Connections, FiniteSetTheorems, TLAPS

Kinds == {"dynamic", "static", "404", "abort", "ws"}
Write == [kind : Kinds, left : BOOLEAN]

ClientState ==
  [conn : Nat, socket : {"none", "open", "closing", "closed"},
   timer : {"none", "running", "closing"}, reading : BOOLEAN, write_in_flight : BOOLEAN,
   closing : BOOLEAN, protocol : {"http", "ws"}, recv : Nat, guard : Guards \cup {None},
   writes : Seq(Write), shutdown : BOOLEAN]

GuardState == [conn : Nat, alive : BOOLEAN, ref_count : Nat]

Response == [id : Nat, cli : Clients, guard : Guards, conn : Nat \ {None}]

Shape ==
  /\ cli \in [Clients -> ClientState]
  /\ guards \in [Guards -> GuardState]
  /\ res \subseteq Response /\ IsFiniteSet(res)
  /\ peers \in Nat /\ reads \in Nat
  /\ \A r \in res : r.id < reads

\* A slot in use has a guard until its socket is closed, reads only from an open
\* socket, and is quiet once it is closed.
Slot(r) ==
  /\ r.socket = "none" <=> r.conn = None
  /\ r.guard # None <=> r.socket \in {"open", "closing"}
  /\ r.closing => r.socket = "closed"
  /\ r.reading => r.socket = "open"
  /\ r.timer = "running" <=> r.socket \in {"open", "closing"}
  /\ r.timer = "closing" <=> r.socket = "closed"
  /\ r.socket \in {"none", "closed"} => r.writes = <<>> /\ ~ r.shutdown /\ r.recv = 0

\* A client's guard is alive and of the same connection.
Linked ==
  \A c \in Clients, g \in Guards : cli[c].guard = g =>
    guards[g].conn = cli[c].conn /\ guards[g].alive

\* No two clients have the same guard.
Single ==
  \A c, d \in Clients : (cli[c].guard = cli[d].guard /\ cli[c].guard # None) => c = d

\* A response's guard is that of its connection, and while it is alive the
\* response's slot holds it too.
Owed(r) ==
  /\ guards[r.guard].conn = r.conn
  /\ guards[r.guard].alive => cli[r.cli].guard = r.guard

ClientsOf(g) == {c \in Clients : cli[c].guard = g}
ResponsesOf(g) == {r \in res : r.guard = g}

Accounted(g) ==
  /\ guards[g].ref_count = Cardinality(ClientsOf(g)) + Cardinality(ResponsesOf(g))
  /\ guards[g].conn = None <=> guards[g].ref_count = 0

IInv ==
  /\ Shape
  /\ \A c \in Clients : Slot(cli[c])
  /\ Linked /\ Single
  /\ \A r \in res : Owed(r)
  /\ \A g \in Guards : Accounted(g)

\* What ReleasedQuiet asks of a step.
Quiet ==
  \A c \in Clients : (cli[c].conn # None /\ cli'[c].conn = None) =>
    /\ cli[c].socket = "closed" /\ cli[c].writes = <<>> /\ ~ cli[c].shutdown
    /\ cli[c].recv = 0 /\ cli[c].guard = None

-----------------------------------------------------------------------------
(* What the calls into libuv do to a slot.                                 *)

\* n is the slot r after something that leaves it to its connection.
Same(n, r) == n \in ClientState /\ Slot(n) /\ n.guard = r.guard /\ n.conn = r.conn

LEMMA NoneIsNoGuard == None \notin Guards /\ None \in Nat
BY Sizes DEF None, Guards

LEMMA CloseOnceSame ==
  ASSUME NEW r \in ClientState, Slot(r)
  PROVE  Same(CloseOnce(r), r)
<1>1. CASE r.socket = "open"
  <2> DEFINE n == [r EXCEPT !.socket = "closing", !.reading = FALSE]
  <2>1. CloseOnce(r) = n
    BY <1>1, Zenon DEF CloseOnce, uv_close
  <2>2. n \in ClientState /\ n.socket = "closing" /\ ~ n.reading
        /\ n.conn = r.conn /\ n.guard = r.guard /\ n.closing = r.closing /\ n.timer = r.timer
    BY Zenon DEF ClientState
  <2> HIDE DEF n
  <2> QED
    BY <1>1, <2>1, <2>2, Zenon DEF Same, Slot
<1>2. CASE r.socket # "open"
  BY <1>2, Zenon DEF CloseOnce, Same
<1> QED
  BY <1>1, <1>2, Zenon

LEMMA CloseSame ==
  ASSUME NEW r \in ClientState, Slot(r), r.socket \in {"open", "closing"}
  PROVE  Same(uv_close(r), r) /\ uv_close(r).socket = "closing" /\ uv_close(r).recv = r.recv
<1> DEFINE n == [r EXCEPT !.socket = "closing", !.reading = FALSE]
<1>1. uv_close(r) = n
  BY Zenon DEF uv_close
<1>2. n \in ClientState /\ n.socket = "closing" /\ ~ n.reading /\ n.recv = r.recv
      /\ n.conn = r.conn /\ n.guard = r.guard /\ n.closing = r.closing /\ n.timer = r.timer
  BY Zenon DEF ClientState
<1> HIDE DEF n
<1> QED
  BY <1>1, <1>2, Zenon DEF Same, Slot

LEMMA WriteSame ==
  ASSUME NEW r \in ClientState, Slot(r), NEW kind \in Kinds, NEW left \in BOOLEAN
  PROVE  Same(uv_write(r, kind, left), r)
<1>1. CASE Writable(r)
  <2>1. PICK q \in Seq(Write) : q = Append(r.writes, [kind |-> kind, left |-> left])
    <3>1. PICK e \in Write : e = [kind |-> kind, left |-> left]
      BY Zenon DEF Write
    <3>2. r.writes \in Seq(Write)
      BY Zenon DEF ClientState
    <3>3. Append(r.writes, e) \in Seq(Write)
      BY <3>2
    <3> QED
      BY <3>1, <3>3, Zenon
  <2> DEFINE n == [r EXCEPT !.writes = q]
  <2>2. uv_write(r, kind, left) = n
    BY <1>1, <2>1, Zenon DEF uv_write
  <2>3. n \in ClientState /\ n.socket = r.socket /\ n.reading = r.reading
        /\ n.conn = r.conn /\ n.guard = r.guard /\ n.closing = r.closing /\ n.timer = r.timer
    BY Zenon DEF ClientState
  <2> HIDE DEF n
  <2> QED
    BY <1>1, <2>2, <2>3, Zenon DEF Same, Slot, Writable
<1>2. CASE ~ Writable(r)
  BY <1>2, Zenon DEF uv_write, Same
<1> QED
  BY <1>1, <1>2, Zenon

\* Other fields of a slot whose socket is not closed yet say nothing of the
\* connection.
LEMMA FieldsSame ==
  ASSUME NEW r \in ClientState, Slot(r), r.socket \in {"open", "closing"},
         NEW n \in ClientState, n.socket = r.socket, n.reading => n.socket = "open",
         n.conn = r.conn, n.guard = r.guard, n.closing = r.closing, n.timer = r.timer
  PROVE  Same(n, r)
BY Zenon DEF Same, Slot

-----------------------------------------------------------------------------
(* Steps that change one slot and leave it to its connection.              *)

LEMMA KeepStep ==
  ASSUME IInv, NEW c \in Clients, NEW n, Same(n, cli[c]), cli' = [cli EXCEPT ![c] = n],
         UNCHANGED <<guards, res, peers>>, reads' \in {reads, reads + 1}
  PROVE  IInv' /\ Quiet
<1>1. /\ cli' \in [Clients -> ClientState]
      /\ \A d \in Clients : /\ cli'[d].guard = cli[d].guard /\ cli'[d].conn = cli[d].conn
                            /\ Slot(cli'[d])
  BY Zenon DEF IInv, Shape, Same
<1>2. Shape'
  <2>1. reads \in Nat /\ reads' \in Nat /\ reads <= reads'
    BY DEF IInv, Shape
  <2>2. \A r \in res : r.id \in Nat /\ r.id < reads
    BY Zenon DEF IInv, Shape, Response
  <2>3. \A r \in res' : r.id < reads'
    BY <2>1, <2>2
  <2> QED
    BY <1>1, <2>1, <2>3, Zenon DEF IInv, Shape
<1>3. \A d \in Clients : Slot(cli[d])'
  BY <1>1, Zenon DEF Slot
<1>4. Linked' /\ Single'
  BY <1>1 DEF IInv, Linked, Single
<1>5. ASSUME NEW r \in res' PROVE Owed(r)'
  <2>1. r \in Response /\ Owed(r)
    BY Zenon DEF IInv, Shape
  <2>2. r.cli \in Clients
    BY <2>1, Zenon DEF Response
  <2> QED
    BY <1>1, <2>1, <2>2, Zenon DEF Owed
<1>6. ASSUME NEW g \in Guards PROVE Accounted(g)'
  <2>1. ClientsOf(g)' = ClientsOf(g) /\ ResponsesOf(g)' = ResponsesOf(g)
    BY <1>1, Zenon DEF ClientsOf, ResponsesOf
  <2> QED
    BY <2>1, Zenon DEF IInv, Accounted
<1>7. Quiet
  BY <1>1, Zenon DEF Quiet
<1> QED
  BY <1>2, <1>3, <1>4, <1>5, <1>6, <1>7, Zenon DEF IInv

\* on_read_cb, as far as the script sees nothing of it.
LEMMA ReadStep ==
  ASSUME IInv, NEW c \in Clients, Read(c), ~ RequestToScript(c)
  PROVE  IInv' /\ Quiet
<1>1. cli[c] \in ClientState /\ Slot(cli[c])
  BY Zenon DEF IInv, Shape
<1>2. cli[c].reading /\ reads' = reads + 1 /\ UNCHANGED <<guards, res, peers>>
  BY Zenon DEF Read, ReadNoBufs, ReadEnd, ReadPart, ReadBad, ReadPipelined, RequestToScript,
         RequestAnswered, RequestUpgrade, ReadFrame, ReadRequest, Complete, Readable
<1>3. cli[c].socket = "open"
  BY <1>1, <1>2, Zenon DEF Slot
<1>4. PICK k \in Nat : k = cli[c].recv + 1
  BY <1>1 DEF ClientState
<1>5. PICK r : r = cli[c]
  BY Zenon
<1>6. r \in ClientState /\ Slot(r) /\ r.socket = "open"
  BY <1>1, <1>3, <1>5, Zenon
<1>7. SUFFICES \E n : Same(n, r) /\ cli' = [cli EXCEPT ![c] = n]
  BY <1>2, <1>5, KeepStep, Zenon
<1>8. CASE ReadNoBufs(c) \/ ReadEnd(c)
  BY <1>5, <1>6, <1>8, CloseOnceSame, Zenon DEF ReadNoBufs, ReadEnd
<1>9. CASE ReadPart(c)
  <2> DEFINE n == [r EXCEPT !.recv = k]
  <2>1. /\ n \in ClientState /\ n.socket = r.socket /\ n.reading = r.reading
        /\ n.conn = r.conn /\ n.guard = r.guard /\ n.closing = r.closing /\ n.timer = r.timer
    BY <1>6, Zenon DEF ClientState
  <2>2. cli' = [cli EXCEPT ![c] = n]
    BY <1>4, <1>5, <1>9, Zenon DEF ReadPart
  <2> HIDE DEF n
  <2> QED
    BY <1>6, <2>1, <2>2, FieldsSame, Zenon
<1>10. CASE ReadBad(c)
  <2>1. PICK m : m = uv_close(r)
    BY Zenon
  <2>2. Same(m, r) /\ m.socket = "closing" /\ m.recv = r.recv
    BY <1>6, <2>1, CloseSame, Zenon
  <2> DEFINE n == [m EXCEPT !.recv = k]
  <2>3. /\ n \in ClientState /\ n.socket = m.socket /\ n.reading = m.reading
        /\ n.conn = m.conn /\ n.guard = m.guard /\ n.closing = m.closing /\ n.timer = m.timer
    BY <2>2, Zenon DEF ClientState, Same
  <2>4. cli' = [cli EXCEPT ![c] = n]
    <3>1. cli' = [cli EXCEPT ![c] = [CloseOnce(cli[c]) EXCEPT !.recv = cli[c].recv + 1]]
      BY <1>10, Zenon DEF ReadBad
    <3>2. CloseOnce(cli[c]) = m
      BY <1>5, <1>6, <2>1, Zenon DEF CloseOnce
    <3> QED
      BY <1>4, <3>1, <3>2, Zenon
  <2> HIDE DEF n
  <2>5. Same(n, m)
    BY <2>2, <2>3, FieldsSame, Zenon DEF Same, Slot
  <2> QED
    BY <2>2, <2>4, <2>5, Zenon DEF Same
<1>11. CASE ReadPipelined(c)
  <2> DEFINE n == [r EXCEPT !.recv = 0, !.reading = FALSE]
  <2>1. /\ n \in ClientState /\ n.socket = r.socket /\ ~ n.reading
        /\ n.conn = r.conn /\ n.guard = r.guard /\ n.closing = r.closing /\ n.timer = r.timer
    BY <1>6, Zenon DEF ClientState
  <2>2. cli' = [cli EXCEPT ![c] = n]
    BY <1>5, <1>6, <1>11, Zenon DEF ReadPipelined, Cleared
  <2> HIDE DEF n
  <2> QED
    BY <1>6, <2>1, <2>2, FieldsSame, Zenon
<1>12. ASSUME NEW kind \in Kinds, NEW left \in BOOLEAN, NEW p \in {"http", "ws"},
              cli' = [cli EXCEPT ![c] =
                uv_write([r EXCEPT !.recv = 0, !.write_in_flight = TRUE, !.protocol = p], kind, left)]
       PROVE  \E n : Same(n, r) /\ cli' = [cli EXCEPT ![c] = n]
  <2> DEFINE m == [r EXCEPT !.recv = 0, !.write_in_flight = TRUE, !.protocol = p]
  <2>1. /\ m \in ClientState /\ m.socket = r.socket /\ m.reading = r.reading
        /\ m.conn = r.conn /\ m.guard = r.guard /\ m.closing = r.closing /\ m.timer = r.timer
    BY <1>6, Zenon DEF ClientState
  <2>2. cli' = [cli EXCEPT ![c] = uv_write(m, kind, left)]
    BY <1>12, Zenon
  <2> HIDE DEF m
  <2>3. Same(m, r)
    BY <1>6, <2>1, FieldsSame, Zenon
  <2>4. Same(uv_write(m, kind, left), m)
    BY <2>3, WriteSame, Zenon DEF Same
  <2> QED
    BY <2>2, <2>3, <2>4, Zenon DEF Same
<1>13. ASSUME NEW kind \in {"static", "404"}, NEW left \in Left, RequestAnswered(c, kind, left)
       PROVE  \E n : Same(n, r) /\ cli' = [cli EXCEPT ![c] = n]
  <2>1. r.protocol = "http"
    BY <1>5, <1>13, Zenon DEF RequestAnswered, ReadRequest, Complete
  <2>2. [Cleared(r) EXCEPT !.write_in_flight = TRUE]
          = [r EXCEPT !.recv = 0, !.write_in_flight = TRUE, !.protocol = "http"]
    BY <1>6, <2>1, Zenon DEF Cleared, ClientState
  <2>3. cli' = [cli EXCEPT ![c] = uv_write([Cleared(r) EXCEPT !.write_in_flight = TRUE], kind, left)]
    BY <1>5, <1>13, Zenon DEF RequestAnswered
  <2>4. kind \in Kinds /\ left \in BOOLEAN
    BY Leaves, Zenon DEF Kinds
  <2> QED
    BY <1>12, <2>2, <2>3, <2>4, Zenon
<1>14. ASSUME NEW left \in Left, RequestUpgrade(c, left)
       PROVE  \E n : Same(n, r) /\ cli' = [cli EXCEPT ![c] = n]
  <2>1. [Cleared(r) EXCEPT !.write_in_flight = TRUE, !.protocol = "ws"]
          = [r EXCEPT !.recv = 0, !.write_in_flight = TRUE, !.protocol = "ws"]
    BY <1>6, Zenon DEF Cleared, ClientState
  <2>2. cli' = [cli EXCEPT ![c] =
          uv_write([Cleared(r) EXCEPT !.write_in_flight = TRUE, !.protocol = "ws"], "ws", left)]
    BY <1>5, <1>14, Zenon DEF RequestUpgrade
  <2>3. "ws" \in Kinds /\ left \in BOOLEAN /\ "ws" \in {"http", "ws"}
    BY Leaves, Zenon DEF Kinds
  <2> QED
    BY <1>12, <2>1, <2>2, <2>3, Zenon
<1>15. CASE ReadFrame(c)
  <2> DEFINE n == [r EXCEPT !.recv = 0]
  <2>1. /\ n \in ClientState /\ n.socket = r.socket /\ n.reading = r.reading
        /\ n.conn = r.conn /\ n.guard = r.guard /\ n.closing = r.closing /\ n.timer = r.timer
    BY <1>6, Zenon DEF ClientState
  <2>2. cli' = [cli EXCEPT ![c] = n]
    BY <1>5, <1>15, Zenon DEF ReadFrame, Cleared
  <2> HIDE DEF n
  <2> QED
    BY <1>6, <2>1, <2>2, FieldsSame, Zenon
<1> QED
  BY <1>8, <1>9, <1>10, <1>11, <1>13, <1>14, <1>15, Zenon DEF Read

\* ws.send, the callbacks of writes and shutdowns, and the idle timeout.
LEMMA CallbackStep ==
  ASSUME IInv, NEW c \in Clients,
         (\E left \in Left : WsSend(c, left)) \/ WriteDone(c) \/ ShutdownDone(c)
           \/ on_idle_timeout_cb(c)
  PROVE  IInv' /\ Quiet
<1>1. PICK r : r = cli[c]
  BY Zenon
<1>2. r \in ClientState /\ Slot(r)
  BY <1>1, Zenon DEF IInv, Shape
<1>3. UNCHANGED <<guards, res, peers, reads>>
  BY Zenon DEF WsSend, WriteDone, ShutdownDone, on_idle_timeout_cb
<1>4. SUFFICES \E n : Same(n, r) /\ cli' = [cli EXCEPT ![c] = n]
  BY <1>1, <1>3, KeepStep, Zenon
<1>5. ASSUME NEW left \in Left, WsSend(c, left)
      PROVE  \E n : Same(n, r) /\ cli' = [cli EXCEPT ![c] = n]
  <2>1. cli' = [cli EXCEPT ![c] = uv_write(r, "ws", left)]
    BY <1>1, <1>5, Zenon DEF WsSend
  <2>2. "ws" \in Kinds /\ left \in BOOLEAN
    BY Leaves, Zenon DEF Kinds
  <2> QED
    BY <1>2, <2>1, <2>2, WriteSame, Zenon
<1>6. CASE WriteDone(c)
  <2>1. r.socket \in {"open", "closing"} /\ r.writes # <<>>
    BY <1>1, <1>2, <1>6, Zenon DEF WriteDone, Slot, ClientState
  <2>2. PICK k \in Kinds : k = Head(r.writes).kind
    <3>1. r.writes \in Seq(Write)
      BY <1>2, Zenon DEF ClientState
    <3>2. Head(r.writes) \in Write
      BY <2>1, <3>1
    <3> QED
      BY <3>2, Zenon DEF Write
  <2>3. ASSUME NEW f \in BOOLEAN
        PROVE  Same(uv_read_start([r EXCEPT !.write_in_flight = f]), r)
               /\ uv_read_start([r EXCEPT !.write_in_flight = f]).socket = r.socket
    <3>1. PICK d \in BOOLEAN : d = (r.socket = "open")
      BY Zenon
    <3> DEFINE n == [r EXCEPT !.write_in_flight = f, !.reading = d]
    <3>2. uv_read_start([r EXCEPT !.write_in_flight = f]) = n
      BY <1>2, <3>1, Zenon DEF uv_read_start, ClientState
    <3>3. /\ n \in ClientState /\ n.socket = r.socket /\ n.reading = d
          /\ n.conn = r.conn /\ n.guard = r.guard /\ n.closing = r.closing /\ n.timer = r.timer
      BY <1>2, Zenon DEF ClientState
    <3> HIDE DEF n
    <3> QED
      BY <1>2, <2>1, <3>1, <3>2, <3>3, FieldsSame, Zenon
  <2>4. PICK m : m = Written(r)
    BY Zenon
  <2>5. Same(m, r) /\ m.socket = r.socket
    <3>1. CASE k \in {"dynamic", "static", "404"}
      <4>1. m = uv_read_start([r EXCEPT !.write_in_flight = FALSE])
        BY <2>2, <2>4, <3>1, Zenon DEF Written
      <4>2. FALSE \in BOOLEAN
        OBVIOUS
      <4> QED
        BY <2>3, <4>1, <4>2, Zenon
    <3>2. CASE k = "abort"
      <4>1. PICK d \in BOOLEAN : d = Writable(r)
        BY Zenon DEF Writable
      <4> DEFINE n == [r EXCEPT !.shutdown = d]
      <4>2. m = n
        BY <2>2, <2>4, <3>2, <4>1, Zenon DEF Written
      <4>3. /\ n \in ClientState /\ n.socket = r.socket /\ n.reading = r.reading
            /\ n.conn = r.conn /\ n.guard = r.guard /\ n.closing = r.closing /\ n.timer = r.timer
        BY <1>2, Zenon DEF ClientState
      <4> HIDE DEF n
      <4> QED
        BY <1>2, <2>1, <4>2, <4>3, FieldsSame, Zenon DEF Slot
    <3>3. CASE k = "ws"
      BY <1>2, <2>2, <2>4, <3>3, Zenon DEF Written, Same
    <3> QED
      BY <3>1, <3>2, <3>3, Zenon DEF Kinds
  <2>6. PICK q \in Seq(Write) : q = Tail(r.writes)
    <3>1. r.writes \in Seq(Write)
      BY <1>2, Zenon DEF ClientState
    <3>2. Tail(r.writes) \in Seq(Write)
      BY <2>1, <3>1
    <3> QED
      BY <3>2, Zenon
  <2> DEFINE n == [m EXCEPT !.writes = q]
  <2>7. /\ n \in ClientState /\ n.socket = m.socket /\ n.reading = m.reading
        /\ n.conn = m.conn /\ n.guard = m.guard /\ n.closing = m.closing /\ n.timer = m.timer
    BY <2>5, Zenon DEF Same, ClientState
  <2>8. cli' = [cli EXCEPT ![c] = n]
    <3>1. cli' = [cli EXCEPT ![c] = [Written(cli[c]) EXCEPT !.writes = Tail(cli[c].writes)]]
      BY <1>6, Zenon DEF WriteDone
    <3> QED
      BY <1>1, <2>4, <2>6, <3>1, Zenon
  <2> HIDE DEF n
  <2>9. Same(n, m)
    BY <2>1, <2>5, <2>7, FieldsSame, Zenon DEF Same, Slot
  <2> QED
    BY <2>5, <2>8, <2>9, Zenon DEF Same
<1>7. CASE ShutdownDone(c)
  <2>1. r.socket \in {"open", "closing"}
    BY <1>1, <1>2, <1>7, Zenon DEF ShutdownDone, Slot, ClientState
  <2>2. PICK m : m = uv_close(r)
    BY Zenon
  <2>3. Same(m, r) /\ m.socket = "closing"
    BY <1>2, <2>1, <2>2, CloseSame, Zenon
  <2> DEFINE n == [m EXCEPT !.shutdown = FALSE]
  <2>4. /\ n \in ClientState /\ n.socket = m.socket /\ n.reading = m.reading
        /\ n.conn = m.conn /\ n.guard = m.guard /\ n.closing = m.closing /\ n.timer = m.timer
    BY <2>3, Zenon DEF Same, ClientState
  <2>5. cli' = [cli EXCEPT ![c] = n]
    BY <1>1, <1>7, <2>2, Zenon DEF ShutdownDone
  <2> HIDE DEF n
  <2>6. Same(n, m)
    BY <2>3, <2>4, FieldsSame, Zenon DEF Same, Slot
  <2> QED
    BY <2>3, <2>5, <2>6, Zenon DEF Same
<1>8. CASE on_idle_timeout_cb(c)
  BY <1>1, <1>2, <1>8, CloseSame, Zenon DEF on_idle_timeout_cb
<1> QED
  BY <1>5, <1>6, <1>7, <1>8, Zenon

-----------------------------------------------------------------------------
(* Steps that change the holders of a guard.                               *)

LEMMA Finite ==
  ASSUME IInv, NEW g
  PROVE  /\ IsFiniteSet(ClientsOf(g)) /\ IsFiniteSet(ResponsesOf(g))
         /\ Cardinality(ClientsOf(g)) \in Nat /\ Cardinality(ResponsesOf(g)) \in Nat
<1>1. IsFiniteSet(Clients)
  BY Sizes, FS_Interval DEF Clients
<1>2. ClientsOf(g) \in SUBSET Clients /\ ResponsesOf(g) \in SUBSET res
  BY Zenon DEF ClientsOf, ResponsesOf
<1>3. IsFiniteSet(ClientsOf(g)) /\ IsFiniteSet(ResponsesOf(g))
  BY <1>1, <1>2, FS_Subset, Zenon DEF IInv, Shape
<1> QED
  BY <1>3, FS_CardinalityType, Zenon

\* ConnGuard::release of a guard with k other holders.
LEMMA ReleaseGuard ==
  ASSUME NEW x \in GuardState, x.conn # None, NEW k \in Nat, x.ref_count = k + 1
  PROVE  /\ release(x) \in GuardState /\ release(x).ref_count = k
         /\ release(x).conn = None <=> k = 0
         /\ k # 0 => release(x).conn = x.conn /\ release(x).alive = x.alive
<1>1. CASE k = 0
  <2>1. x.ref_count = 1
    BY <1>1
  <2>2. release(x) = [conn |-> None, alive |-> FALSE, ref_count |-> 0]
    BY <2>1, Zenon DEF release, FreeGuard
  <2> QED
    BY <1>1, <2>2, NoneIsNoGuard DEF GuardState
<1>2. CASE k # 0
  <2>1. x.ref_count # 1 /\ x.ref_count - 1 = k
    BY <1>2
  <2>2. release(x) = [x EXCEPT !.ref_count = k]
    BY <2>1, Zenon DEF release
  <2> QED
    BY <1>2, <2>2, Zenon DEF GuardState
<1> QED
  BY <1>1, <1>2, Zenon

\* A client's guard has just that client.
LEMMA OneClient ==
  ASSUME IInv, NEW c \in Clients, NEW g, g = cli[c].guard, g # None
  PROVE  g \in Guards /\ ClientsOf(g) = {c} /\ Cardinality(ClientsOf(g)) = 1
<1>1. g \in Guards
  BY Zenon DEF IInv, Shape, ClientState
<1>2. ClientsOf(g) = {c}
  BY Zenon DEF IInv, Single, ClientsOf
<1> QED
  BY <1>1, <1>2, FS_Singleton, Zenon

\* A request goes to the script: its response is one more holder of the guard.
LEMMA RequestStep ==
  ASSUME IInv, NEW c \in Clients, RequestToScript(c)
  PROVE  IInv' /\ Quiet
<1>1. PICK r, g : r = cli[c] /\ g = cli[c].guard
  BY Zenon
<1>2. r \in ClientState /\ Slot(r) /\ r.guard = g
  BY <1>1, Zenon DEF IInv, Shape
<1>3. r.reading /\ reads' = reads + 1 /\ peers' = peers
  BY <1>1, Zenon DEF RequestToScript, ReadRequest, Complete, Readable
<1>4. r.socket = "open" /\ g # None /\ r.conn \in Nat \ {None}
  BY <1>2, <1>3, Zenon DEF Slot, ClientState
<1>5. g \in Guards
  BY <1>1, <1>4, OneClient, Zenon
<1> DEFINE n == [r EXCEPT !.recv = 0, !.write_in_flight = TRUE]
<1>6. /\ n \in ClientState /\ n.socket = r.socket /\ n.reading = r.reading
      /\ n.conn = r.conn /\ n.guard = r.guard /\ n.closing = r.closing /\ n.timer = r.timer
  BY <1>2, Zenon DEF ClientState
<1>7. cli' = [cli EXCEPT ![c] = n]
  BY <1>1, <1>2, Zenon DEF RequestToScript, Cleared
<1> HIDE DEF n
<1>8. Same(n, r)
  BY <1>2, <1>4, <1>6, FieldsSame, Zenon
<1>9. /\ cli' \in [Clients -> ClientState]
      /\ \A d \in Clients : /\ cli'[d].guard = cli[d].guard /\ cli'[d].conn = cli[d].conn
                            /\ Slot(cli'[d])
  BY <1>1, <1>7, <1>8, Zenon DEF IInv, Shape, Same
<1>10. guards[g] \in GuardState /\ reads \in Nat
  BY <1>5, Zenon DEF IInv, Shape
<1>11. PICK k \in Nat : k = guards[g].ref_count + 1
  BY <1>10 DEF GuardState
<1> DEFINE x == [guards[g] EXCEPT !.ref_count = k]
<1>12. guards' = [guards EXCEPT ![g] = x]
  BY <1>1, <1>5, <1>11, Zenon DEF RequestToScript, IInv, Shape
<1>13. x \in GuardState /\ x.ref_count = k /\ x.conn = guards[g].conn /\ x.alive = guards[g].alive
  BY <1>10, Zenon DEF GuardState
<1> HIDE DEF x
<1>14. /\ guards' \in [Guards -> GuardState] /\ guards'[g].ref_count = k
       /\ \A h \in Guards : /\ guards'[h].conn = guards[h].conn /\ guards'[h].alive = guards[h].alive
                            /\ h # g => guards'[h] = guards[h]
  BY <1>5, <1>12, <1>13, Zenon DEF IInv, Shape
<1>15. PICK e \in Response : e = [id |-> reads, cli |-> c, guard |-> g, conn |-> r.conn]
  BY <1>4, <1>5, <1>10, Zenon DEF Response
<1>16. res' = res \cup {e} /\ e.id = reads /\ e.cli = c /\ e.guard = g /\ e.conn = r.conn
  BY <1>1, <1>15, Zenon DEF RequestToScript
<1>17. e \notin res
  BY <1>10, <1>16 DEF IInv, Shape
<1>18. Shape'
  <2>1. \A q \in res : q.id \in Nat /\ q.id < reads
    BY Zenon DEF IInv, Shape, Response
  <2>2. \A q \in res' : q.id < reads'
    BY <1>3, <1>10, <1>16, <2>1
  <2>3. res' \subseteq Response
    BY <1>16, Zenon DEF IInv, Shape
  <2>4. IsFiniteSet(res')
    BY <1>16, FS_AddElement, Zenon DEF IInv, Shape
  <2> QED
    BY <1>3, <1>9, <1>10, <1>14, <2>2, <2>3, <2>4 DEF IInv, Shape
<1>19. \A d \in Clients : Slot(cli[d])'
  BY <1>9, Zenon DEF Slot
<1>20. Linked' /\ Single'
  BY <1>9, <1>14 DEF IInv, Linked, Single
<1>21. ASSUME NEW q \in res' PROVE Owed(q)'
  <2>1. CASE q = e
    <3>1. guards[g].conn = r.conn
      BY <1>1, <1>5, Zenon DEF IInv, Linked
    <3> QED
      BY <1>1, <1>5, <1>9, <1>14, <1>16, <2>1, <3>1, Zenon DEF Owed
  <2>2. CASE q \in res
    <3>1. q \in Response /\ Owed(q)
      BY <2>2, Zenon DEF IInv, Shape
    <3>2. q.cli \in Clients /\ q.guard \in Guards
      BY <3>1, Zenon DEF Response
    <3> QED
      BY <1>9, <1>14, <3>1, <3>2, Zenon DEF Owed
  <2> QED
    BY <1>16, <2>1, <2>2, Zenon
<1>22. ASSUME NEW h \in Guards PROVE Accounted(h)'
  <2>1. ClientsOf(h)' = ClientsOf(h)
    BY <1>9, Zenon DEF ClientsOf
  <2>2. CASE h # g
    <3>1. ResponsesOf(h)' = ResponsesOf(h)
      BY <1>16, <2>2, Zenon DEF ResponsesOf
    <3> QED
      BY <1>14, <2>1, <2>2, <3>1, Zenon DEF IInv, Accounted
  <2>3. CASE h = g
    <3>1. ResponsesOf(g)' = ResponsesOf(g) \cup {e} /\ e \notin ResponsesOf(g)
      BY <1>16, <1>17, Zenon DEF ResponsesOf
    <3>2. Cardinality(ResponsesOf(g)') = Cardinality(ResponsesOf(g)) + 1
      BY <3>1, Finite, FS_AddElement, Zenon
    <3>3. /\ guards[g].ref_count = Cardinality(ClientsOf(g)) + Cardinality(ResponsesOf(g))
          /\ guards[g].conn = None <=> guards[g].ref_count = 0
      BY <1>5, Zenon DEF IInv, Accounted
    <3>4. Cardinality(ClientsOf(g)) = 1
      BY <1>1, <1>4, OneClient, Zenon
    <3>5. Cardinality(ResponsesOf(g)) \in Nat
      BY Finite, Zenon
    <3>6. k = Cardinality(ClientsOf(g)') + Cardinality(ResponsesOf(g)')
      BY <1>11, <2>1, <2>3, <3>2, <3>3, <3>4, <3>5
    <3>7. guards[g].conn # None /\ k # 0
      BY <1>11, <3>3, <3>4, <3>5
    <3> QED
      BY <1>5, <1>14, <2>3, <3>6, <3>7, Zenon DEF Accounted
  <2> QED
    BY <2>2, <2>3, Zenon
<1>23. Quiet
  BY <1>9, Zenon DEF Quiet
<1> QED
  BY <1>18, <1>19, <1>20, <1>21, <1>22, <1>23, Zenon DEF IInv

-----------------------------------------------------------------------------
(* The ends of responses and of connections, and accepting.                *)


\* A response is ended: it gives up its reference to the guard.
LEMMA EndStep ==
  ASSUME IInv, NEW r \in res, NEW n, Same(n, cli[r.cli]), EndResponse(r),
         cli' = [cli EXCEPT ![r.cli] = n]
  PROVE  IInv' /\ Quiet
<1>1. r \in Response /\ Owed(r) /\ UNCHANGED <<peers, reads>>
  BY Zenon DEF IInv, Shape, EndResponse
<1>2. PICK g \in Guards, k \in Nat, x \in GuardState : /\ g = r.guard /\ x = guards[g]
        /\ k = Cardinality(ClientsOf(g)) + Cardinality(ResponsesOf(g) \ {r})
        /\ Cardinality(ResponsesOf(g) \ {r}) \in Nat /\ x.ref_count = k + 1
  <2>1. r.guard \in Guards
    BY <1>1, Zenon DEF Response
  <2>2. PICK g \in Guards : g = r.guard
    BY <2>1, Zenon
  <2>3. r \in ResponsesOf(g)
    BY <2>2, Zenon DEF ResponsesOf
  <2>4. /\ Cardinality(ResponsesOf(g) \ {r}) = Cardinality(ResponsesOf(g)) - 1
        /\ IsFiniteSet(ResponsesOf(g) \ {r})
    BY <2>3, Finite, FS_RemoveElement, Zenon
  <2>5. Cardinality(ResponsesOf(g) \ {r}) \in Nat
    BY <2>4, FS_CardinalityType, Zenon
  <2>6. guards[g].ref_count = Cardinality(ClientsOf(g)) + Cardinality(ResponsesOf(g))
    BY Zenon DEF IInv, Accounted
  <2>7. Cardinality(ClientsOf(g)) \in Nat /\ Cardinality(ResponsesOf(g)) \in Nat
    BY Finite, Zenon
  <2>8. PICK k \in Nat : k = Cardinality(ClientsOf(g)) + Cardinality(ResponsesOf(g) \ {r})
    BY <2>5, <2>7
  <2>9. guards[g].ref_count = k + 1
    BY <2>4, <2>6, <2>7, <2>8
  <2>10. guards[g] \in GuardState
    BY Zenon DEF IInv, Shape
  <2> QED
    BY <2>2, <2>5, <2>8, <2>9, <2>10, Zenon
<1>3. x \in GuardState /\ x.conn = r.conn /\ x.conn # None
  BY <1>1, <1>2, Zenon DEF IInv, Shape, Owed, Response
<1>4. PICK y : y = release(x)
  BY Zenon
<1>5. /\ y \in GuardState /\ y.ref_count = k
      /\ y.conn = None <=> k = 0
      /\ k # 0 => y.conn = x.conn /\ y.alive = x.alive
  BY <1>2, <1>3, <1>4, ReleaseGuard, Zenon
<1>6. guards' = [guards EXCEPT ![g] = y] /\ res' = res \ {r}
  BY <1>2, <1>4, Zenon DEF EndResponse
<1>7. /\ guards' \in [Guards -> GuardState] /\ guards'[g] = y
      /\ \A h \in Guards : h # g => guards'[h] = guards[h]
  BY <1>2, <1>5, <1>6, Zenon DEF IInv, Shape
<1>8. r.cli \in Clients
  BY <1>1, Zenon DEF Response
<1>9. /\ cli' \in [Clients -> ClientState]
      /\ \A d \in Clients : /\ cli'[d].guard = cli[d].guard /\ cli'[d].conn = cli[d].conn
                            /\ Slot(cli'[d])
  BY <1>8, Zenon DEF IInv, Shape, Same
<1>10. Shape'
  BY <1>1, <1>6, <1>7, <1>9, FS_RemoveElement, Zenon DEF IInv, Shape
<1>11. \A d \in Clients : Slot(cli[d])'
  BY <1>9, Zenon DEF Slot
<1>12. /\ (\E d \in Clients : cli[d].guard = g) => k # 0
       /\ (\E q \in res' : q.guard = g) => k # 0
  <2>1. ASSUME NEW d \in Clients, cli[d].guard = g PROVE k # 0
    <3>1. Cardinality(ClientsOf(g)) = 1
      BY <2>1, NoneIsNoGuard, OneClient, Zenon
    <3> QED
      BY <1>2, <3>1
  <2>2. ASSUME NEW q \in res', q.guard = g PROVE k # 0
    <3>1. q \in ResponsesOf(g) \ {r}
      BY <1>6, <2>2, Zenon DEF ResponsesOf
    <3>2. IsFiniteSet(ResponsesOf(g) \ {r})
      BY Finite, FS_RemoveElement, Zenon
    <3>3. Cardinality(ResponsesOf(g) \ {r}) # 0
      BY <3>1, <3>2, FS_EmptySet, Zenon
    <3>4. Cardinality(ClientsOf(g)) \in Nat
      BY Finite, Zenon
    <3> QED
      BY <1>2, <3>3, <3>4
  <2> QED
    BY <2>1, <2>2, Zenon
<1>13. Linked' /\ Single'
  <2>0. Linked /\ Single
    BY Zenon DEF IInv
  <2>1. ASSUME NEW d \in Clients, NEW h \in Guards, cli[d].guard = h
        PROVE  guards'[h].conn = guards[h].conn /\ guards'[h].alive = guards[h].alive
    BY <1>2, <1>5, <1>7, <1>12, <2>1, Zenon
  <2>2. Linked'
    <3>1. ASSUME NEW d \in Clients, NEW h \in Guards, cli'[d].guard = h
          PROVE  guards'[h].conn = cli'[d].conn /\ guards'[h].alive
      <4>1. cli[d].guard = h /\ cli'[d].conn = cli[d].conn
        BY <1>9, <3>1, Zenon
      <4>2. guards[h].conn = cli[d].conn /\ guards[h].alive
        BY <2>0, <4>1, Zenon DEF Linked
      <4> QED
        BY <2>1, <4>1, <4>2, Zenon
    <3> QED
      BY <3>1, Zenon DEF Linked
  <2>3. Single'
    <3>1. ASSUME NEW d \in Clients, NEW e \in Clients,
                 cli'[d].guard = cli'[e].guard, cli'[d].guard # None
          PROVE  d = e
      BY <2>0, <3>1, <1>9 DEF Single
    <3> QED
      BY <3>1, Zenon DEF Single
  <2> QED
    BY <2>2, <2>3, Zenon
<1>14. ASSUME NEW q \in res' PROVE Owed(q)'
  <2>1. q \in res /\ q \in Response /\ Owed(q)
    BY <1>6, Zenon DEF IInv, Shape
  <2>2. q.cli \in Clients /\ q.guard \in Guards
    BY <2>1, Zenon DEF Response
  <2>3. guards'[q.guard].conn = guards[q.guard].conn /\ guards'[q.guard].alive = guards[q.guard].alive
    BY <1>2, <1>5, <1>7, <1>12, <2>2, Zenon
  <2> QED
    BY <1>9, <2>1, <2>2, <2>3, Zenon DEF Owed
<1>15. ASSUME NEW h \in Guards PROVE Accounted(h)'
  <2>1. ClientsOf(h)' = ClientsOf(h)
    BY <1>9, Zenon DEF ClientsOf
  <2>2. CASE h # g
    <3>1. ResponsesOf(h)' = ResponsesOf(h)
      BY <1>2, <1>6, <2>2, Zenon DEF ResponsesOf
    <3> QED
      BY <1>7, <2>1, <2>2, <3>1, Zenon DEF IInv, Accounted
  <2>3. CASE h = g
    <3>1. ResponsesOf(g)' = ResponsesOf(g) \ {r}
      BY <1>6, Zenon DEF ResponsesOf
    <3> QED
      BY <1>2, <1>5, <1>7, <2>1, <2>3, <3>1, Zenon DEF Accounted
  <2> QED
    BY <2>2, <2>3, Zenon
<1>16. Quiet
  BY <1>9, Zenon DEF Quiet
<1> QED
  BY <1>10, <1>11, <1>13, <1>14, <1>15, <1>16, Zenon DEF IInv

\* send() and abort().
LEMMA AnswerStep ==
  ASSUME IInv, NEW r \in res, NEW left \in Left, Send(r, left) \/ Abort(r, left)
  PROVE  IInv' /\ Quiet
<1>1. r \in Response /\ Owed(r) /\ EndResponse(r)
  BY Zenon DEF IInv, Shape, Send, Abort
<1>2. PICK d \in Clients, m \in ClientState : d = r.cli /\ m = cli[d]
  <2>1. r.cli \in Clients
    BY <1>1, Zenon DEF Response
  <2>2. cli[r.cli] \in ClientState
    BY <2>1, Zenon DEF IInv, Shape
  <2> QED
    BY <2>1, <2>2, Zenon
<1>3. m \in ClientState /\ Slot(m) /\ cli = [cli EXCEPT ![d] = m]
  BY <1>2, Zenon DEF IInv, Shape
<1>4. left \in BOOLEAN
  BY Leaves, Zenon
<1>5. SUFFICES \E n : Same(n, m) /\ cli' = [cli EXCEPT ![d] = n]
  BY <1>1, <1>2, EndStep, Zenon
<1>6. CASE Gone(r)
  <2>1. Same(m, m)
    BY <1>3, Zenon DEF Same
  <2>2. cli' = cli
    BY <1>6, Zenon DEF Send, Abort
  <2> QED
    BY <1>3, <2>1, <2>2, Zenon
<1>7. CASE ~ Gone(r)
  <2>1. m.guard = r.guard /\ r.guard # None
    BY <1>1, <1>2, <1>7, NoneIsNoGuard, Zenon DEF Gone, Owed, Response
  <2>2. m.socket \in {"open", "closing"}
    BY <1>3, <2>1, Zenon DEF Slot
  <2>3. CASE Send(r, left)
    <3>1. cli' = [cli EXCEPT ![d] = uv_write(m, "dynamic", left)]
      BY <1>2, <1>7, <2>3, Zenon DEF Send
    <3>2. Same(uv_write(m, "dynamic", left), m)
      BY <1>3, <1>4, WriteSame, Zenon DEF Kinds
    <3> QED
      BY <3>1, <3>2, Zenon
  <2>4. CASE Abort(r, left)
    <3>1. cli' = [cli EXCEPT ![d] = IF Writable(m) THEN uv_write(m, "abort", left) ELSE uv_close(m)]
      BY <1>2, <1>7, <2>4, Zenon DEF Abort
    <3>2. Same(uv_write(m, "abort", left), m) /\ Same(uv_close(m), m)
      BY <1>3, <1>4, <2>2, WriteSame, CloseSame, Zenon DEF Kinds
    <3> QED
      BY <3>1, <3>2, Zenon
  <2> QED
    BY <2>3, <2>4, Zenon
<1> QED
  BY <1>6, <1>7, Zenon

\* The socket is closed: the guard dies, and the client gives up its reference.
LEMMA ClosedStep ==
  ASSUME IInv, NEW c \in Clients, on_client_closed_cb(c)
  PROVE  IInv' /\ Quiet
<1>1. PICK r, g : r = cli[c] /\ g = cli[c].guard
  BY Zenon
<1>2. r \in ClientState /\ Slot(r) /\ r.guard = g
  BY <1>1, Zenon DEF IInv, Shape
<1>3. r.socket = "closing" /\ r.writes = <<>> /\ ~ r.shutdown /\ UNCHANGED <<res, peers, reads>>
  BY <1>1, Zenon DEF on_client_closed_cb, ClientClosed
<1>4. g # None /\ r.conn # None /\ ~ r.reading
  BY <1>2, <1>3, Zenon DEF Slot
<1>5. g \in Guards /\ ClientsOf(g) = {c} /\ Cardinality(ClientsOf(g)) = 1
  BY <1>1, <1>4, OneClient, Zenon
<1> DEFINE n == [r EXCEPT !.recv = 0, !.socket = "closed", !.closing = TRUE, !.guard = None,
                          !.timer = "closing"]
<1>6. /\ n \in ClientState /\ n.socket = "closed" /\ n.reading = r.reading /\ n.recv = 0
      /\ n.conn = r.conn /\ n.guard = None /\ n.closing /\ n.timer = "closing"
      /\ n.writes = r.writes /\ n.shutdown = r.shutdown
  BY <1>2, Zenon DEF ClientState
<1>7. cli' = [cli EXCEPT ![c] = n]
  BY <1>1, <1>2, Zenon DEF on_client_closed_cb, ClientClosed, Cleared
<1> HIDE DEF n
<1>8. Slot(n)
  BY <1>3, <1>4, <1>6, Zenon DEF Slot
<1>9. /\ cli' \in [Clients -> ClientState] /\ cli'[c] = n
      /\ \A d \in Clients : Slot(cli'[d]) /\ cli'[d].conn = cli[d].conn
      /\ \A d \in Clients : d # c => cli'[d] = cli[d]
  BY <1>1, <1>6, <1>7, <1>8, Zenon DEF IInv, Shape
<1>10. guards[g] \in GuardState /\ guards[g].conn = r.conn
  BY <1>1, <1>4, <1>5, Zenon DEF IInv, Shape, Linked
<1>11. PICK x : x = Dead(guards[g])
  BY Zenon
<1>12. x \in GuardState /\ x.conn = r.conn /\ ~ x.alive /\ x.ref_count = guards[g].ref_count
  BY <1>10, <1>11, Zenon DEF Dead, GuardState
<1>13. PICK k \in Nat : k = Cardinality(ResponsesOf(g)) /\ x.ref_count = k + 1
  <2>1. guards[g].ref_count = 1 + Cardinality(ResponsesOf(g))
    BY <1>5, Zenon DEF IInv, Accounted
  <2>2. Cardinality(ResponsesOf(g)) \in Nat
    BY Finite, Zenon
  <2> QED
    BY <1>12, <2>1, <2>2
<1>14. PICK y : y = release(x)
  BY Zenon
<1>15. /\ y \in GuardState /\ y.ref_count = k
       /\ y.conn = None <=> k = 0
       /\ k # 0 => y.conn = x.conn /\ y.alive = x.alive
  BY <1>4, <1>12, <1>13, <1>14, ReleaseGuard, Zenon
<1>16. guards' = [guards EXCEPT ![g] = y]
  BY <1>1, <1>11, <1>14, Zenon DEF on_client_closed_cb, ClientClosed
<1>17. /\ guards' \in [Guards -> GuardState] /\ guards'[g] = y
       /\ \A h \in Guards : h # g => guards'[h] = guards[h]
  BY <1>5, <1>15, <1>16, Zenon DEF IInv, Shape
<1>18. Shape'
  BY <1>3, <1>9, <1>17, Zenon DEF IInv, Shape
<1>19. \A d \in Clients : Slot(cli[d])'
  BY <1>9, Zenon DEF Slot
<1>20. Linked' /\ Single'
  <2>0. Linked /\ Single
    BY Zenon DEF IInv
  <2>1. ASSUME NEW d \in Clients, NEW h \in Guards, cli'[d].guard = h
        PROVE  d # c /\ guards'[h] = guards[h]
    <3>1. d # c
      BY <1>6, <1>9, <2>1, NoneIsNoGuard, Zenon
    <3>2. h # g
      BY <1>5, <1>9, <2>1, <3>1, Zenon DEF ClientsOf
    <3> QED
      BY <1>17, <3>1, <3>2, Zenon
  <2>2. Linked'
    <3>1. ASSUME NEW d \in Clients, NEW h \in Guards, cli'[d].guard = h
          PROVE  guards'[h].conn = cli'[d].conn /\ guards'[h].alive
      BY <2>0, <3>1, <1>9, <2>1 DEF Linked
    <3> QED
      BY <3>1, Zenon DEF Linked
  <2>3. Single'
    <3>1. ASSUME NEW d \in Clients, NEW e \in Clients,
                 cli'[d].guard = cli'[e].guard, cli'[d].guard # None
          PROVE  d = e
      BY <2>0, <3>1, <1>6, <1>9 DEF Single
    <3> QED
      BY <3>1, Zenon DEF Single
  <2> QED
    BY <2>2, <2>3, Zenon
<1>21. ASSUME NEW q \in res' PROVE Owed(q)'
  <2>1. q \in res /\ q \in Response /\ Owed(q)
    BY <1>3, Zenon DEF IInv, Shape
  <2>2. q.cli \in Clients /\ q.guard \in Guards
    BY <2>1, Zenon DEF Response
  <2>3. CASE q.guard = g
    <3>1. q \in ResponsesOf(g)
      BY <2>1, <2>3, Zenon DEF ResponsesOf
    <3>2. k # 0
      BY <1>13, <3>1, Finite, FS_EmptySet, Zenon
    <3>3. guards[g].conn = q.conn
      BY <2>1, <2>3, Zenon DEF Owed
    <3> QED
      BY <1>10, <1>12, <1>15, <1>17, <2>3, <3>2, <3>3, Zenon DEF Owed
  <2>4. CASE q.guard # g
    <3>1. guards[q.guard].alive => q.cli # c
      BY <1>1, <2>1, <2>4, Zenon DEF Owed
    <3> QED
      BY <1>9, <1>17, <2>1, <2>2, <2>4, <3>1, Zenon DEF Owed
  <2> QED
    BY <2>3, <2>4, Zenon
<1>22. ASSUME NEW h \in Guards PROVE Accounted(h)'
  <2>1. ResponsesOf(h)' = ResponsesOf(h)
    BY <1>3, Zenon DEF ResponsesOf
  <2>2. CASE h # g
    <3>1. ClientsOf(h)' = ClientsOf(h)
      BY <1>1, <1>6, <1>9, <2>2, NoneIsNoGuard, Zenon DEF ClientsOf
    <3> QED
      BY <1>17, <2>1, <2>2, <3>1, Zenon DEF IInv, Accounted
  <2>3. CASE h = g
    <3>1. ClientsOf(g)' = {}
      BY <1>4, <1>5, <1>6, <1>9 DEF ClientsOf
    <3>2. Cardinality(ClientsOf(g)') = 0
      BY <3>1, FS_EmptySet, Zenon
    <3> QED
      BY <1>13, <1>15, <1>17, <2>1, <2>3, <3>2 DEF Accounted
  <2> QED
    BY <2>2, <2>3, Zenon
<1>23. Quiet
  BY <1>9, Zenon DEF Quiet
<1> QED
  BY <1>18, <1>19, <1>20, <1>21, <1>22, <1>23, Zenon DEF IInv

LEMMA FreeSlotOK ==
  FreeSlot \in ClientState /\ Slot(FreeSlot) /\ FreeSlot.conn = None /\ FreeSlot.guard = None
<1>1. PICK q \in Seq(Write) : q = <<>>
  <2>1. <<>> \in Seq(Write)
    OBVIOUS
  <2> QED
    BY <2>1, Zenon
<1> DEFINE n == [conn |-> None, socket |-> "none", timer |-> "none", reading |-> FALSE,
                 write_in_flight |-> FALSE, closing |-> FALSE, protocol |-> "http", recv |-> 0,
                 guard |-> None, writes |-> q, shutdown |-> FALSE]
<1>2. FreeSlot = n
  BY <1>1, Zenon DEF FreeSlot
<1>3. n \in ClientState /\ n.conn = None /\ n.guard = None
  BY NoneIsNoGuard, Zenon DEF ClientState
<1>4. Slot(n)
  BY <1>1, Zenon DEF Slot
<1> QED
  BY <1>2, <1>3, <1>4, Zenon

\* The timer is closed: the slot goes back to the pool.
LEMMA TimerStep ==
  ASSUME IInv, NEW c \in Clients, on_idle_timer_closed_cb(c)
  PROVE  IInv' /\ Quiet
<1>1. cli[c] \in ClientState /\ Slot(cli[c]) /\ cli[c].timer = "closing"
      /\ UNCHANGED <<guards, res, peers, reads>>
  BY Zenon DEF IInv, Shape, on_idle_timer_closed_cb
<1>2. /\ cli[c].socket = "closed" /\ cli[c].guard = None /\ cli[c].writes = <<>>
      /\ ~ cli[c].shutdown /\ cli[c].recv = 0
  BY <1>1, Zenon DEF Slot
<1>3. /\ cli' \in [Clients -> ClientState]
      /\ \A d \in Clients : Slot(cli'[d]) /\ cli'[d].guard = cli[d].guard
      /\ \A d \in Clients : d # c => cli'[d] = cli[d]
  BY <1>2, FreeSlotOK, Zenon DEF on_idle_timer_closed_cb, IInv, Shape
<1>4. Shape'
  BY <1>1, <1>3, Zenon DEF IInv, Shape
<1>5. \A d \in Clients : Slot(cli[d])'
  BY <1>3, Zenon DEF Slot
<1>6. Linked' /\ Single'
  <2>0. Linked /\ Single
    BY Zenon DEF IInv
  <2>1. \A d \in Clients : \A g \in Guards : cli'[d].guard = g => d # c
    BY <1>2, <1>3, NoneIsNoGuard, Zenon
  <2>2. Linked'
    <3>1. ASSUME NEW d \in Clients, NEW h \in Guards, cli'[d].guard = h
          PROVE  guards'[h].conn = cli'[d].conn /\ guards'[h].alive
      <4>1. cli'[d] = cli[d] /\ guards'[h] = guards[h]
        BY <1>1, <1>3, <2>1, <3>1, Zenon
      <4>2. guards[h].conn = cli[d].conn /\ guards[h].alive
        BY <2>0, <3>1, <4>1, Zenon DEF Linked
      <4> QED
        BY <4>1, <4>2, Zenon
    <3> QED
      BY <3>1, Zenon DEF Linked
  <2>3. Single'
    <3>1. ASSUME NEW d \in Clients, NEW e \in Clients,
                 cli'[d].guard = cli'[e].guard, cli'[d].guard # None
          PROVE  d = e
      BY <2>0, <3>1, <1>3, Zenon DEF Single
    <3> QED
      BY <3>1, Zenon DEF Single
  <2> QED
    BY <2>2, <2>3, Zenon
<1>7. ASSUME NEW q \in res' PROVE Owed(q)'
  <2>1. q \in Response /\ Owed(q)
    BY <1>1, Zenon DEF IInv, Shape
  <2>2. q.cli \in Clients
    BY <2>1, Zenon DEF Response
  <2> QED
    BY <1>1, <1>3, <2>1, <2>2, Zenon DEF Owed
<1>8. ASSUME NEW g \in Guards PROVE Accounted(g)'
  <2>1. ClientsOf(g)' = ClientsOf(g) /\ ResponsesOf(g)' = ResponsesOf(g)
    BY <1>1, <1>3, Zenon DEF ClientsOf, ResponsesOf
  <2> QED
    BY <1>1, <2>1, Zenon DEF IInv, Accounted
<1>9. Quiet
  BY <1>2, <1>3, Zenon DEF Quiet
<1> QED
  BY <1>4, <1>5, <1>6, <1>7, <1>8, <1>9, Zenon DEF IInv

\* A peer is given a free slot and a free guard.
LEMMA AcceptStep ==
  ASSUME IInv, NEW c \in Clients, NEW g \in Guards, NEW ok \in BOOLEAN, Accept(c, g, ok)
  PROVE  IInv' /\ Quiet
<1>1. cli[c] \in ClientState /\ Slot(cli[c]) /\ cli[c].conn = None /\ guards[g].conn = None
      /\ UNCHANGED <<res, reads>> /\ peers \in Nat
  BY Zenon DEF IInv, Shape, Accept
<1>2. cli[c].guard = None
  BY <1>1, Zenon DEF Slot
<1>3. PICK p \in Nat \ {None} : p = peers + 1
  BY <1>1 DEF None
<1> DEFINE n == [FreeSlot EXCEPT !.conn = p, !.socket = "open", !.timer = "running",
                                 !.reading = ok, !.guard = g]
           x == [conn |-> p, alive |-> TRUE, ref_count |-> 1]
<1>4. cli' = [cli EXCEPT ![c] = n] /\ guards' = [guards EXCEPT ![g] = x] /\ peers' = p
  BY <1>3, Zenon DEF Accept
<1>5. /\ n \in ClientState /\ n.conn = p /\ n.socket = "open" /\ n.timer = "running"
      /\ n.guard = g /\ n.closing = FreeSlot.closing
  BY FreeSlotOK, Zenon DEF ClientState
<1>6. x \in GuardState /\ x.conn = p /\ x.alive /\ x.ref_count = 1
  BY Zenon DEF GuardState
<1> HIDE DEF n, x
<1>7. Slot(n)
  BY <1>3, <1>5, NoneIsNoGuard, FreeSlotOK, Zenon DEF Slot
<1>8. /\ cli' \in [Clients -> ClientState] /\ cli'[c] = n
      /\ \A d \in Clients : Slot(cli'[d])
      /\ \A d \in Clients : d # c => cli'[d] = cli[d]
  BY <1>4, <1>5, <1>7, Zenon DEF IInv, Shape
<1>9. /\ guards' \in [Guards -> GuardState] /\ guards'[g] = x
      /\ \A h \in Guards : h # g => guards'[h] = guards[h]
  BY <1>4, <1>6, Zenon DEF IInv, Shape
<1>10. ASSUME NEW d \in Clients PROVE cli[d].guard # g
  <2>1. SUFFICES ASSUME cli[d].guard = g PROVE FALSE
    BY Zenon
  <2>2. cli[d].conn = None
    BY <1>1, <2>1, Zenon DEF IInv, Linked
  <2>3. cli[d].guard = None
    BY <2>2, Zenon DEF IInv, Slot
  <2> QED
    BY <2>1, <2>3, NoneIsNoGuard, Zenon
<1>11. ASSUME NEW q \in res PROVE q.guard # g
  <2>1. q \in Response /\ Owed(q)
    BY Zenon DEF IInv, Shape
  <2> QED
    BY <1>1, <2>1, Zenon DEF Owed, Response
<1>12. Shape'
  BY <1>1, <1>3, <1>4, <1>8, <1>9, Zenon DEF IInv, Shape
<1>13. \A d \in Clients : Slot(cli[d])'
  BY <1>8, Zenon DEF Slot
<1>14. Linked' /\ Single'
  <2>0. Linked /\ Single
    BY Zenon DEF IInv
  <2>1. ASSUME NEW d \in Clients, NEW h \in Guards, cli'[d].guard = h
        PROVE  guards'[h].conn = cli'[d].conn /\ guards'[h].alive
    <3>1. CASE d = c
      BY <1>5, <1>6, <1>8, <1>9, <2>1, <3>1, Zenon
    <3>2. CASE d # c
      <4>1. cli'[d] = cli[d] /\ h # g
        BY <1>8, <1>10, <2>1, <3>2, Zenon
      <4>2. guards[h].conn = cli[d].conn /\ guards[h].alive
        BY <2>0, <2>1, <4>1, Zenon DEF Linked
      <4> QED
        BY <1>9, <4>1, <4>2, Zenon
    <3> QED
      BY <3>1, <3>2, Zenon
  <2>2. Linked'
    BY <2>1, Zenon DEF Linked
  <2>3. Single'
    <3>1. ASSUME NEW d \in Clients, NEW e \in Clients,
                 cli'[d].guard = cli'[e].guard, cli'[d].guard # None
          PROVE  d = e
      <4>1. d = c <=> e = c
        BY <1>5, <1>8, <1>10, <3>1, Zenon
      <4>2. CASE d # c
        BY <1>8, <2>0, <3>1, <4>1, <4>2, Zenon DEF Single
      <4> QED
        BY <4>1, <4>2, Zenon
    <3> QED
      BY <3>1, Zenon DEF Single
  <2> QED
    BY <2>2, <2>3, Zenon
<1>15. ASSUME NEW q \in res' PROVE Owed(q)'
  <2>1. q \in res /\ q \in Response /\ Owed(q)
    BY <1>1, Zenon DEF IInv, Shape
  <2>2. q.cli \in Clients /\ q.guard \in Guards /\ q.guard # g
    BY <1>11, <2>1, Zenon DEF Response
  <2>3. guards[q.guard].alive => q.cli # c
    BY <1>2, <2>1, <2>2, NoneIsNoGuard, Zenon DEF Owed
  <2> QED
    BY <1>8, <1>9, <2>1, <2>2, <2>3, Zenon DEF Owed
<1>16. ASSUME NEW h \in Guards PROVE Accounted(h)'
  <2>1. ResponsesOf(h)' = ResponsesOf(h)
    BY <1>1, Zenon DEF ResponsesOf
  <2>2. CASE h # g
    <3>1. ClientsOf(h)' = ClientsOf(h)
      BY <1>2, <1>5, <1>8, <2>2, NoneIsNoGuard, Zenon DEF ClientsOf
    <3>2. Accounted(h)
      BY Zenon DEF IInv
    <3>3. guards'[h] = guards[h]
      BY <1>9, <2>2, Zenon
    <3> QED
      BY <2>1, <3>1, <3>2, <3>3, Zenon DEF Accounted
  <2>3. CASE h = g
    <3>1. ClientsOf(g)' = {c} /\ ResponsesOf(g)' = {}
      BY <1>1, <1>5, <1>8, <1>10, <1>11, Zenon DEF ClientsOf, ResponsesOf
    <3>2. Cardinality(ClientsOf(g)') = 1 /\ Cardinality(ResponsesOf(g)') = 0
      BY <3>1, FS_EmptySet, FS_Singleton, Zenon
    <3> QED
      BY <1>3, <1>6, <1>9, <2>3, <3>2 DEF Accounted
  <2> QED
    BY <2>2, <2>3, Zenon
<1>17. Quiet
  BY <1>1, <1>8, Zenon DEF Quiet
<1> QED
  BY <1>12, <1>13, <1>14, <1>15, <1>16, <1>17, Zenon DEF IInv

-----------------------------------------------------------------------------
(* Every step.                                                             *)

LEMMA InitIInv == Init => IInv
<1> SUFFICES ASSUME Init PROVE IInv
  BY Zenon
<1>1. /\ cli \in [Clients -> ClientState]
      /\ \A d \in Clients : Slot(cli[d]) /\ cli[d].guard = None
  BY FreeSlotOK, Zenon DEF Init
<1>2. /\ guards \in [Guards -> GuardState]
      /\ \A g \in Guards : guards[g].conn = None /\ guards[g].ref_count = 0
  BY NoneIsNoGuard, Zenon DEF Init, FreeGuard, GuardState
<1>3. res = {} /\ peers \in Nat /\ reads \in Nat
  BY Zenon DEF Init
<1>4. Shape
  BY <1>1, <1>2, <1>3, FS_EmptySet, Zenon DEF Shape
<1>5. ASSUME NEW g \in Guards PROVE Accounted(g)
  <2>1. ClientsOf(g) = {} /\ ResponsesOf(g) = {}
    BY <1>1, <1>3, NoneIsNoGuard, Zenon DEF ClientsOf, ResponsesOf
  <2>2. Cardinality(ClientsOf(g)) = 0 /\ Cardinality(ResponsesOf(g)) = 0
    BY <2>1, FS_EmptySet, Zenon
  <2> QED
    BY <1>2, <2>2 DEF Accounted
<1> QED
  BY <1>1, <1>3, <1>4, <1>5, NoneIsNoGuard, Zenon DEF IInv, Linked, Single

LEMMA StutterStep ==
  ASSUME IInv, UNCHANGED <<cli, guards, res, reads>>, peers' \in Nat
  PROVE  IInv' /\ Quiet
<1>1. Shape' /\ Linked' /\ Single' /\ Quiet
  BY Zenon DEF IInv, Shape, Linked, Single, Quiet
<1>2. \A d \in Clients : Slot(cli[d])'
  BY Zenon DEF IInv, Slot
<1>3. \A r \in res' : Owed(r)'
  BY Zenon DEF IInv, Owed
<1>4. ASSUME NEW g \in Guards PROVE Accounted(g)'
  <2>1. ClientsOf(g)' = ClientsOf(g) /\ ResponsesOf(g)' = ResponsesOf(g)
    BY Zenon DEF ClientsOf, ResponsesOf
  <2> QED
    BY <2>1, Zenon DEF IInv, Accounted
<1> QED
  BY <1>1, <1>2, <1>3, <1>4, Zenon DEF IInv

LEMMA NextIInv ==
  ASSUME IInv, [Next]_vars
  PROVE  IInv' /\ Quiet
<1>1. CASE Reject \/ Idle \/ UNCHANGED vars
  <2>1. peers \in Nat
    BY Zenon DEF IInv, Shape
  <2>2. UNCHANGED <<cli, guards, res, reads>> /\ peers' \in Nat
    BY <1>1, <2>1 DEF Reject, Idle, vars
  <2> QED
    BY <2>2, StutterStep, Zenon
<1>2. ASSUME NEW c \in Clients, NEW g \in Guards, NEW ok \in BOOLEAN, Accept(c, g, ok)
      PROVE  IInv' /\ Quiet
  BY <1>2, AcceptStep, Zenon
<1>3. CASE Script
  BY <1>3, AnswerStep, CallbackStep, Zenon DEF Script
<1>4. ASSUME NEW c \in Clients, Read(c) \/ WriteDone(c) \/ ShutdownDone(c) \/ Loop(c)
      PROVE  IInv' /\ Quiet
  <2>1. CASE Read(c)
    BY <2>1, ReadStep, RequestStep, Zenon
  <2>2. CASE WriteDone(c) \/ ShutdownDone(c) \/ on_idle_timeout_cb(c)
    BY <2>2, CallbackStep, Zenon
  <2>3. CASE on_client_closed_cb(c) \/ on_idle_timer_closed_cb(c)
    BY <2>3, ClosedStep, TimerStep, Zenon
  <2> QED
    BY <1>4, <2>1, <2>2, <2>3, Zenon DEF Loop
<1> QED
  BY <1>1, <1>2, <1>3, <1>4, Zenon DEF Next

-----------------------------------------------------------------------------
(* What is proved.                                                         *)

\* The invariant holds in every reachable state.
THEOREM Invariant == Spec => []IInv
<1>1. IInv /\ [Next]_vars => IInv'
  BY NextIInv, Zenon
<1> QED
  BY <1>1, InitIInv, PTL DEF Spec

\* For every number of slots, a guard's ref_count is the number of its holders and
\* a guard without holders is in its pool (ConnGuard::retain and release).
THEOREM GuardsAlwaysAccounted == Spec => []GuardsAccounted
<1>1. IInv => GuardsAccounted
  BY Zenon DEF IInv, Accounted, GuardsAccounted, ClientsOf, ResponsesOf
<1> QED
  BY <1>1, Invariant, PTL

\* For every number of slots, peers and reads, a response that is ended late never
\* reaches the peer that has since been given its slot (ResponseObject::send looks
\* at the guard's alive flag).
THEOREM ResponsesNeverStale == Spec => []NoStaleResponse
<1>1. ASSUME IInv PROVE NoStaleResponse
  <2>1. ASSUME NEW r \in res
        PROVE  guards[r.guard].conn = r.conn /\ (guards[r.guard].alive => cli[r.cli].conn = r.conn)
    <3>1. r \in Response /\ Owed(r)
      BY <1>1, Zenon DEF IInv, Shape
    <3>2. r.cli \in Clients /\ r.guard \in Guards
      BY <3>1, Zenon DEF Response
    <3>3. guards[r.guard].conn = r.conn /\ (guards[r.guard].alive => cli[r.cli].guard = r.guard)
      BY <3>1, Zenon DEF Owed
    <3>4. cli[r.cli].guard = r.guard => guards[r.guard].conn = cli[r.cli].conn
      BY <1>1, <3>2, Zenon DEF IInv, Linked
    <3> QED
      BY <3>3, <3>4, Zenon
  <2> QED
    BY <2>1, Zenon DEF NoStaleResponse
<1> QED
  BY <1>1, Invariant, PTL

\* A slot goes back to the pool only when libuv is done with the memory in it
\* (on_client_closed_cb, then on_idle_timer_closed_cb).
THEOREM SlotsReleasedQuiet == Spec => ReleasedQuiet
<1>1. IInv /\ [Next]_vars => [Quiet]_vars
  BY NextIInv, Zenon
<1>2. Spec => [][Quiet]_vars
  BY <1>1, Invariant, PTL DEF Spec
<1>3. [][Quiet]_vars => ReleasedQuiet
  BY PTL DEF Quiet, ReleasedQuiet
<1> QED
  BY <1>2, <1>3, Zenon


-----------------------------------------------------------------------------
(* One exchange at a time.                                                 *)

Bit(b) == IF b THEN 1 ELSE 0

\* What is being done about the request of an open client with slot r, whose
\* guard has k holders: all but one of them are responses.
Exchange(r, k) ==
  r.socket = "open" =>
    /\ r.protocol = "http" =>
         /\ \A i \in DOMAIN r.writes : r.writes[i].kind # "ws"
         /\ (k - 1) + Len(r.writes) + Bit(r.shutdown) = Bit(r.write_in_flight)
    /\ r.protocol = "ws" =>
         /\ \A i \in DOMAIN r.writes : r.writes[i].kind = "ws"
         /\ k = 1 /\ ~ r.shutdown

Busy(c) == cli[c].guard # None => Exchange(cli[c], guards[cli[c].guard].ref_count)

\* A connection's number is new when it is given out, so no two guards have it.
Fresh == \A g \in Guards : guards[g].conn <= peers
Distinct ==
  \A g, h \in Guards : (guards[g].conn = guards[h].conn /\ guards[g].conn # None) => g = h

XInv == Fresh /\ Distinct /\ \A c \in Clients : Busy(c)

LEMMA BitValue ==
  ASSUME NEW b \in BOOLEAN
  PROVE  Bit(b) \in {0, 1} /\ (b => Bit(b) = 1) /\ (~ b => Bit(b) = 0)
BY Zenon DEF Bit

\* The numbers, in a step that accepts nobody.
LEMMA NumbersStep ==
  ASSUME IInv, IInv', Fresh, Distinct, peers <= peers',
         \A g \in Guards : guards'[g].conn \in {None, guards[g].conn}
  PROVE  Fresh' /\ Distinct'
<1>1. /\ \A g \in Guards : guards[g].conn \in Nat /\ guards'[g].conn \in Nat
      /\ peers \in Nat /\ peers' \in Nat
  BY Zenon DEF IInv, Shape, GuardState
<1>2. Fresh'
  <2>1. ASSUME NEW g \in Guards PROVE guards'[g].conn <= peers'
    BY <1>1 DEF Fresh, None
  <2> QED
    BY <2>1, Zenon DEF Fresh
<1>3. Distinct'
  BY Zenon DEF Distinct
<1> QED
  BY <1>2, <1>3, Zenon

\* The other clients, in a step that is about client c.
LEMMA OthersBusy ==
  ASSUME \A d \in Clients : Busy(d), NEW c \in Clients, Busy(c)',
         \A d \in Clients : d # c =>
           /\ cli'[d] = cli[d]
           /\ cli[d].guard # None => guards'[cli[d].guard] = guards[cli[d].guard]
  PROVE  \A d \in Clients : Busy(d)'
BY Zenon DEF Busy

\* The guard of a client whose socket is not closed.
LEMMA HeldGuard ==
  ASSUME IInv, XInv, NEW c \in Clients, cli[c].guard # None
  PROVE  \E g \in Guards, k \in Nat :
           /\ g = cli[c].guard /\ k = guards[g].ref_count /\ k >= 1 /\ Exchange(cli[c], k)
           /\ k = 1 + Cardinality(ResponsesOf(g))
<1>1. PICK g \in Guards : g = cli[c].guard
  BY OneClient, Zenon
<1>2. Cardinality(ClientsOf(g)) = 1 /\ Cardinality(ResponsesOf(g)) \in Nat
  BY <1>1, OneClient, Finite, Zenon
<1>3. PICK k \in Nat : k = guards[g].ref_count /\ k = 1 + Cardinality(ResponsesOf(g))
  BY <1>2 DEF IInv, Accounted
<1>4. Exchange(cli[c], k)
  BY <1>1, <1>3, Zenon DEF XInv, Busy
<1>5. k >= 1
  BY <1>2, <1>3
<1> QED
  BY <1>1, <1>3, <1>4, <1>5, Zenon

\* A step that changes slot c only, and leaves it its guard.
LEMMA BusyStep ==
  ASSUME IInv, IInv', XInv, NEW c \in Clients, NEW n, cli' = [cli EXCEPT ![c] = n],
         n.guard = cli[c].guard, UNCHANGED guards, peers <= peers',
         n.guard # None => Exchange(n, guards[n.guard].ref_count)
  PROVE  XInv'
<1>1. Fresh' /\ Distinct'
  BY NumbersStep, Zenon DEF XInv
<1>2. cli'[c] = n /\ \A d \in Clients : d # c => cli'[d] = cli[d]
  BY Zenon DEF IInv, Shape
<1>3. Busy(c)'
  BY <1>2, Zenon DEF Busy
<1>4. \A d \in Clients : Busy(d)'
  BY <1>2, <1>3, OthersBusy, Zenon DEF XInv
<1> QED
  BY <1>1, <1>4, Zenon DEF XInv

\* What an exchange looks at.
LEMMA SameExchange ==
  ASSUME NEW r \in ClientState, NEW n \in ClientState, NEW k \in Nat, Exchange(r, k),
         n.socket = r.socket, n.protocol = r.protocol, n.writes = r.writes,
         n.shutdown = r.shutdown, n.write_in_flight = r.write_in_flight
  PROVE  Exchange(n, k)
BY Zenon DEF Exchange

LEMMA ClosedExchange ==
  ASSUME NEW n, NEW k, n.socket # "open"
  PROVE  Exchange(n, k)
BY Zenon DEF Exchange

\* The state of an open HTTP connection that is asked nothing, or that waits for
\* the script.
LEMMA IdleExchange ==
  ASSUME NEW r \in ClientState, NEW k \in Nat, k >= 1, Exchange(r, k), r.socket = "open",
         r.protocol = "http"
  PROVE  /\ ~ r.write_in_flight => k = 1 /\ r.writes = <<>> /\ ~ r.shutdown
         /\ r.write_in_flight => k <= 2 /\ (k = 2 => r.writes = <<>> /\ ~ r.shutdown)
         /\ r.writes # <<>> => k = 1 /\ Len(r.writes) = 1 /\ ~ r.shutdown /\ r.write_in_flight
         /\ k = 2 => r.write_in_flight
<1>1. r.writes \in Seq(Write) /\ r.shutdown \in BOOLEAN /\ r.write_in_flight \in BOOLEAN
  BY Zenon DEF ClientState
<1>2. PICK s \in {0, 1}, w \in {0, 1}, l \in Nat :
        /\ s = Bit(r.shutdown) /\ w = Bit(r.write_in_flight) /\ l = Len(r.writes)
        /\ (s = 0 <=> ~ r.shutdown) /\ (w = 0 <=> ~ r.write_in_flight)
        /\ (l = 0 <=> r.writes = <<>>)
  BY <1>1, BitValue
<1>3. (k - 1) + l + s = w
  BY <1>2, Zenon DEF Exchange
<1>4. /\ w = 0 => k = 1 /\ l = 0 /\ s = 0
      /\ w = 1 => k <= 2 /\ (k = 2 => l = 0 /\ s = 0)
      /\ l # 0 => k = 1 /\ l = 1 /\ s = 0 /\ w = 1
      /\ k = 2 => w = 1
  BY <1>3
<1> QED
  BY <1>2, <1>4

\* A write that libuv accepts.
LEMMA WriteFields ==
  ASSUME NEW r \in ClientState, Writable(r), NEW kind \in Kinds, NEW left \in BOOLEAN
  PROVE  \E n \in ClientState, e \in Write :
           /\ n = uv_write(r, kind, left) /\ e.kind = kind /\ n.writes = Append(r.writes, e)
           /\ n.socket = r.socket /\ n.protocol = r.protocol /\ n.shutdown = r.shutdown
           /\ n.write_in_flight = r.write_in_flight /\ n.guard = r.guard
<1>1. PICK e \in Write : e = [kind |-> kind, left |-> left]
  BY Zenon DEF Write
<1>2. e.kind = kind
  BY <1>1, Zenon
<1>3. PICK q \in Seq(Write) : q = Append(r.writes, e)
  <2>1. r.writes \in Seq(Write)
    BY Zenon DEF ClientState
  <2>2. Append(r.writes, e) \in Seq(Write)
    BY <2>1
  <2> QED
    BY <2>2, Zenon
<1> DEFINE n == [r EXCEPT !.writes = q]
<1>4. uv_write(r, kind, left) = n
  BY <1>1, <1>3, Zenon DEF uv_write
<1>5. /\ n \in ClientState /\ n.writes = q /\ n.socket = r.socket /\ n.protocol = r.protocol
      /\ n.shutdown = r.shutdown /\ n.write_in_flight = r.write_in_flight /\ n.guard = r.guard
  BY Zenon DEF ClientState
<1> HIDE DEF n
<1> QED
  BY <1>2, <1>3, <1>4, <1>5, Zenon

\* The answer to a request is the only thing being written.
LEMMA AnswerExchange ==
  ASSUME NEW r \in ClientState, NEW kind \in Kinds, NEW left \in BOOLEAN, Writable(r)
  PROVE  (/\ kind # "ws" /\ r.socket = "open" /\ r.protocol = "http" /\ r.writes = <<>>
          /\ ~ r.shutdown /\ r.write_in_flight)
         => Exchange(uv_write(r, kind, left), 1) /\ uv_write(r, kind, left).guard = r.guard
<1>1. PICK n \in ClientState, e \in Write :
        /\ n = uv_write(r, kind, left) /\ e.kind = kind /\ n.writes = Append(r.writes, e)
        /\ n.socket = r.socket /\ n.protocol = r.protocol /\ n.shutdown = r.shutdown
        /\ n.write_in_flight = r.write_in_flight /\ n.guard = r.guard
  BY WriteFields, Zenon
<1> SUFFICES ASSUME kind # "ws", r.socket = "open", r.protocol = "http", r.writes = <<>>,
                    ~ r.shutdown, r.write_in_flight
             PROVE  Exchange(uv_write(r, kind, left), 1) /\ uv_write(r, kind, left).guard = r.guard
  BY Zenon
<1>2. n.writes = <<e>>
  BY <1>1
<1>3. Len(n.writes) = 1 /\ \A i \in DOMAIN n.writes : n.writes[i].kind # "ws"
  BY <1>1, <1>2
<1>4. Bit(n.shutdown) = 0 /\ Bit(n.write_in_flight) = 1
  BY <1>1, Zenon DEF Bit
<1> QED
  <2>1. (1 - 1) + Len(n.writes) + Bit(n.shutdown) = Bit(n.write_in_flight)
    BY <1>3, <1>4
  <2>2. n.protocol # "ws"
    BY <1>1, Zenon
  <2> QED
    BY <1>1, <1>3, <2>1, <2>2, Zenon DEF Exchange

\* The handshake and the frames of a WebSocket.
LEMMA FrameExchange ==
  ASSUME NEW r \in ClientState, NEW left \in BOOLEAN, r.socket = "open", r.protocol = "ws",
         \A i \in DOMAIN r.writes : r.writes[i].kind = "ws", ~ r.shutdown
  PROVE  Exchange(uv_write(r, "ws", left), 1) /\ uv_write(r, "ws", left).guard = r.guard
<1>0. "ws" \in Kinds /\ Writable(r)
  BY Zenon DEF Writable, Kinds
<1>1. PICK n \in ClientState, e \in Write :
        /\ n = uv_write(r, "ws", left) /\ e.kind = "ws" /\ n.writes = Append(r.writes, e)
        /\ n.socket = r.socket /\ n.protocol = r.protocol /\ n.shutdown = r.shutdown
        /\ n.write_in_flight = r.write_in_flight /\ n.guard = r.guard
  BY <1>0, WriteFields, Zenon
<1>2. r.writes \in Seq(Write)
  BY Zenon DEF ClientState
<1>3. \A i \in DOMAIN n.writes : n.writes[i].kind = "ws"
  BY <1>1, <1>2, SMTT(40)
<1>4. ~ n.shutdown
  BY <1>1, Zenon
<1> QED
  BY <1>1, <1>3, <1>4, Zenon DEF Exchange

\* on_read_cb, as far as the script sees nothing of it.
LEMMA ReadBusy ==
  ASSUME IInv, IInv', XInv, NEW c \in Clients, Read(c), ~ RequestToScript(c)
  PROVE  XInv'
<1>1. PICK r : r = cli[c]
  BY Zenon
<1>2. r \in ClientState /\ Slot(r)
  BY <1>1, Zenon DEF IInv, Shape
<1>3. r.reading /\ UNCHANGED <<guards, res, peers>>
  BY <1>1, Zenon DEF Read, ReadNoBufs, ReadEnd, ReadPart, ReadBad, ReadPipelined, RequestToScript,
         RequestAnswered, RequestUpgrade, ReadFrame, ReadRequest, Complete, Readable
<1>4. r.socket = "open" /\ peers <= peers'
  <2>1. peers \in Nat /\ peers' = peers
    BY <1>3, Zenon DEF IInv, Shape
  <2>2. peers <= peers'
    BY <2>1
  <2> QED
    BY <1>2, <1>3, <2>2, Zenon DEF Slot
<1>5. PICK k1 \in Nat : k1 = r.recv + 1
  BY <1>2 DEF ClientState
<1>0. PICK k \in Nat : k = guards[r.guard].ref_count /\ k >= 1 /\ Exchange(r, k)
  BY <1>1, <1>2, <1>4, HeldGuard, Zenon DEF Slot
<1>6. SUFFICES \E n : cli' = [cli EXCEPT ![c] = n] /\ n.guard = r.guard /\ Exchange(n, k)
  BY <1>1, <1>3, <1>4, <1>0, BusyStep, Zenon
<1>7. ASSUME NEW n \in ClientState, n.socket = r.socket, n.protocol = r.protocol,
             n.writes = r.writes, n.shutdown = r.shutdown, n.write_in_flight = r.write_in_flight
      PROVE  Exchange(n, k)
  BY <1>2, <1>7, <1>0, SameExchange, Zenon
<1>8. CASE ReadNoBufs(c) \/ ReadEnd(c)
  <2> DEFINE n == [r EXCEPT !.socket = "closing", !.reading = FALSE]
  <2>1. cli' = [cli EXCEPT ![c] = n]
    BY <1>1, <1>4, <1>8, Zenon DEF ReadNoBufs, ReadEnd, CloseOnce, uv_close
  <2>2. n.socket = "closing" /\ n.guard = r.guard
    BY <1>2, Zenon DEF ClientState
  <2> HIDE DEF n
  <2> QED
    BY <2>1, <2>2, ClosedExchange, Zenon
<1>9. CASE ReadBad(c)
  <2> DEFINE n == [r EXCEPT !.socket = "closing", !.reading = FALSE, !.recv = k1]
  <2>1. cli' = [cli EXCEPT ![c] = n]
    <3>1. CloseOnce(r) = [r EXCEPT !.socket = "closing", !.reading = FALSE]
      BY <1>4, Zenon DEF CloseOnce, uv_close
    <3>2. cli' = [cli EXCEPT ![c] = [CloseOnce(r) EXCEPT !.recv = r.recv + 1]]
      BY <1>1, <1>9, Zenon DEF ReadBad
    <3>3. [[r EXCEPT !.socket = "closing", !.reading = FALSE] EXCEPT !.recv = k1] = n
      BY <1>2, Zenon DEF ClientState
    <3> QED
      BY <1>5, <3>1, <3>2, <3>3, Zenon
  <2>2. n.socket = "closing" /\ n.guard = r.guard
    BY <1>2, Zenon DEF ClientState
  <2> HIDE DEF n
  <2> QED
    BY <2>1, <2>2, ClosedExchange, Zenon
<1>10. CASE ReadPart(c)
  <2> DEFINE n == [r EXCEPT !.recv = k1]
  <2>1. cli' = [cli EXCEPT ![c] = n]
    BY <1>1, <1>5, <1>10, Zenon DEF ReadPart
  <2>2. /\ n \in ClientState /\ n.socket = r.socket /\ n.protocol = r.protocol
        /\ n.writes = r.writes /\ n.shutdown = r.shutdown
        /\ n.write_in_flight = r.write_in_flight /\ n.guard = r.guard
    BY <1>2, Zenon DEF ClientState
  <2> HIDE DEF n
  <2> QED
    BY <1>7, <2>1, <2>2, Zenon
<1>11. CASE ReadPipelined(c)
  <2> DEFINE n == [r EXCEPT !.recv = 0, !.reading = FALSE]
  <2>1. cli' = [cli EXCEPT ![c] = n]
    BY <1>1, <1>2, <1>11, Zenon DEF ReadPipelined, Cleared
  <2>2. /\ n \in ClientState /\ n.socket = r.socket /\ n.protocol = r.protocol
        /\ n.writes = r.writes /\ n.shutdown = r.shutdown
        /\ n.write_in_flight = r.write_in_flight /\ n.guard = r.guard
    BY <1>2, Zenon DEF ClientState
  <2> HIDE DEF n
  <2> QED
    BY <1>7, <2>1, <2>2, Zenon
<1>12. CASE ReadFrame(c)
  <2> DEFINE n == [r EXCEPT !.recv = 0]
  <2>1. cli' = [cli EXCEPT ![c] = n]
    BY <1>1, <1>12, Zenon DEF ReadFrame, Cleared
  <2>2. /\ n \in ClientState /\ n.socket = r.socket /\ n.protocol = r.protocol
        /\ n.writes = r.writes /\ n.shutdown = r.shutdown
        /\ n.write_in_flight = r.write_in_flight /\ n.guard = r.guard
    BY <1>2, Zenon DEF ClientState
  <2> HIDE DEF n
  <2> QED
    BY <1>7, <2>1, <2>2, Zenon
<1>13. ASSUME NEW kind \in {"static", "404"}, NEW left \in Left, RequestAnswered(c, kind, left)
       PROVE  \E n : cli' = [cli EXCEPT ![c] = n] /\ n.guard = r.guard /\ Exchange(n, k)
  <2>1. r.protocol = "http" /\ ~ r.write_in_flight
    BY <1>1, <1>13, Zenon DEF RequestAnswered, ReadRequest, Complete
  <2> DEFINE m == [r EXCEPT !.recv = 0, !.write_in_flight = TRUE]
  <2>2. cli' = [cli EXCEPT ![c] = uv_write(m, kind, left)]
    BY <1>1, <1>2, <1>13, Zenon DEF RequestAnswered, Cleared
  <2>3. /\ m \in ClientState /\ m.socket = r.socket /\ m.protocol = r.protocol
        /\ m.writes = r.writes /\ m.shutdown = r.shutdown /\ m.write_in_flight /\ m.guard = r.guard
    BY <1>2, Zenon DEF ClientState
  <2> HIDE DEF m
  <2>4. left \in BOOLEAN /\ kind \in Kinds /\ kind # "ws"
    BY Leaves, Zenon DEF Kinds
  <2>5. k = 1 /\ r.writes = <<>> /\ ~ r.shutdown
    BY <1>2, <1>4, <1>0, <2>1, IdleExchange, Zenon
  <2>6. Exchange(uv_write(m, kind, left), 1) /\ uv_write(m, kind, left).guard = m.guard
    <3>1. Writable(m)
      BY <1>4, <2>3, <2>5, Zenon DEF Writable
    <3> QED
      BY <1>4, <2>1, <2>3, <2>4, <2>5, <3>1, AnswerExchange, Zenon
  <2> QED
    BY <2>2, <2>3, <2>5, <2>6, Zenon
<1>14. ASSUME NEW left \in Left, RequestUpgrade(c, left)
       PROVE  \E n : cli' = [cli EXCEPT ![c] = n] /\ n.guard = r.guard /\ Exchange(n, k)
  <2>1. r.protocol = "http" /\ ~ r.write_in_flight
    BY <1>1, <1>14, Zenon DEF RequestUpgrade, ReadRequest, Complete
  <2> DEFINE m == [r EXCEPT !.recv = 0, !.write_in_flight = TRUE, !.protocol = "ws"]
  <2>2. cli' = [cli EXCEPT ![c] = uv_write(m, "ws", left)]
    BY <1>1, <1>2, <1>14, Zenon DEF RequestUpgrade, Cleared
  <2>3. /\ m \in ClientState /\ m.socket = r.socket /\ m.protocol = "ws"
        /\ m.writes = r.writes /\ m.shutdown = r.shutdown /\ m.guard = r.guard
    BY <1>2, Zenon DEF ClientState
  <2> HIDE DEF m
  <2>4. left \in BOOLEAN
    BY Leaves, Zenon
  <2>5. k = 1 /\ r.writes = <<>> /\ ~ r.shutdown
    BY <1>2, <1>4, <1>0, <2>1, IdleExchange, Zenon
  <2>6. \A i \in DOMAIN m.writes : m.writes[i].kind = "ws"
    BY <2>3, <2>5
  <2>7. Exchange(uv_write(m, "ws", left), 1) /\ uv_write(m, "ws", left).guard = m.guard
    BY <1>4, <2>3, <2>4, <2>5, <2>6, FrameExchange, Zenon
  <2> QED
    BY <2>2, <2>3, <2>5, <2>7, Zenon
<1> QED
  BY <1>8, <1>9, <1>10, <1>11, <1>12, <1>13, <1>14, Zenon DEF Read

\* The callback of a write: what is left of the exchange.
LEMMA WrittenExchange ==
  ASSUME NEW r \in ClientState, NEW k \in Nat, k >= 1, Exchange(r, k), r.socket = "open",
         r.writes # <<>>
  PROVE  Exchange([Written(r) EXCEPT !.writes = Tail(r.writes)], k)
<1>1. r.writes \in Seq(Write) /\ r.protocol \in {"http", "ws"}
  BY Zenon DEF ClientState
<1>2. PICK q \in Seq(Write) : q = Tail(r.writes) /\ Len(q) = Len(r.writes) - 1
                              /\ \A i \in DOMAIN q : i + 1 \in DOMAIN r.writes /\ q[i] = r.writes[i + 1]
  <2> DEFINE q == Tail(r.writes)
  <2>1. q \in Seq(Write) /\ Len(q) = Len(r.writes) - 1
    BY <1>1
  <2>2. \A i \in DOMAIN q : i + 1 \in DOMAIN r.writes /\ q[i] = r.writes[i + 1]
    BY <1>1
  <2> QED
    BY <2>1, <2>2, Zenon
<1>3. PICK t \in Kinds : t = Head(r.writes).kind /\ t = r.writes[1].kind /\ 1 \in DOMAIN r.writes
  <2>1. r.writes[1] \in Write /\ Head(r.writes) = r.writes[1] /\ 1 \in DOMAIN r.writes
    BY <1>1
  <2> QED
    BY <2>1, Zenon DEF Write
<1>4. CASE r.protocol = "ws"
  <2>1. t = "ws" /\ k = 1 /\ ~ r.shutdown /\ \A i \in DOMAIN q : q[i].kind = "ws"
    BY <1>2, <1>3, <1>4, Zenon DEF Exchange
  <2> DEFINE n == [r EXCEPT !.writes = q]
  <2>2. [Written(r) EXCEPT !.writes = Tail(r.writes)] = n
    BY <1>2, <1>3, <2>1, Zenon DEF Written
  <2>3. n.protocol = "ws" /\ n.writes = q /\ n.shutdown = r.shutdown
    BY <1>4, Zenon DEF ClientState
  <2> HIDE DEF n
  <2>4. Exchange(n, k)
    BY <2>1, <2>3, Zenon DEF Exchange
  <2> QED
    BY <2>2, <2>4, Zenon
<1>5. CASE r.protocol = "http"
  <2>1. k = 1 /\ Len(r.writes) = 1 /\ ~ r.shutdown /\ r.write_in_flight
    BY <1>5, IdleExchange, Zenon
  <2>2. t # "ws"
    BY <1>3, <1>5, Zenon DEF Exchange
  <2>3. q = <<>> /\ Len(q) = 0 /\ DOMAIN q = {}
    BY <1>2, <2>1
  <2>4. CASE t = "abort"
    <3> DEFINE n == [r EXCEPT !.shutdown = TRUE, !.writes = q]
    <3>1. [Written(r) EXCEPT !.writes = Tail(r.writes)] = n
      <4>1. Written(r) = [r EXCEPT !.shutdown = TRUE]
        BY <1>3, <2>1, <2>4, Zenon DEF Written, Writable
      <4>2. [[r EXCEPT !.shutdown = TRUE] EXCEPT !.writes = q] = n
        BY Zenon DEF ClientState
      <4> QED
        BY <1>2, <4>1, <4>2, Zenon
    <3>2. /\ n.protocol = "http" /\ n.writes = q /\ n.shutdown
          /\ n.write_in_flight = r.write_in_flight
      BY <1>5, Zenon DEF ClientState
    <3> HIDE DEF n
    <3>3. Bit(n.shutdown) = 1 /\ Bit(n.write_in_flight) = 1
      BY <2>1, <3>2, Zenon DEF Bit
    <3>4. (k - 1) + Len(q) + Bit(n.shutdown) = Bit(n.write_in_flight)
      BY <2>1, <2>3, <3>3
    <3>5. n.protocol # "ws"
      BY <3>2, Zenon
    <3>6. Exchange(n, k)
      BY <2>3, <3>2, <3>4, <3>5, Zenon DEF Exchange
    <3> QED
      BY <3>1, <3>6, Zenon
  <2>5. CASE t # "abort"
    <3>1. Written(r) = [r EXCEPT !.write_in_flight = FALSE, !.reading = TRUE]
      <4>1. t \in {"dynamic", "static", "404"}
        BY <2>2, <2>5, Zenon DEF Kinds
      <4> QED
        BY <1>3, <4>1, Zenon DEF Written, uv_read_start, ClientState
    <3> DEFINE n == [r EXCEPT !.write_in_flight = FALSE, !.reading = TRUE, !.writes = q]
    <3>2. [Written(r) EXCEPT !.writes = Tail(r.writes)] = n
      BY <1>2, <3>1, Zenon DEF ClientState
    <3>3. /\ n.protocol = "http" /\ n.writes = q /\ n.shutdown = r.shutdown
          /\ ~ n.write_in_flight
      BY <1>5, Zenon DEF ClientState
    <3> HIDE DEF n
    <3>4. Bit(n.shutdown) = 0 /\ Bit(n.write_in_flight) = 0
      BY <2>1, <3>3, Zenon DEF Bit
    <3>5. (k - 1) + Len(q) + Bit(n.shutdown) = Bit(n.write_in_flight)
      BY <2>1, <2>3, <3>4
    <3>6. n.protocol # "ws"
      BY <3>3, Zenon
    <3>7. Exchange(n, k)
      BY <2>3, <3>3, <3>5, <3>6, Zenon DEF Exchange
    <3> QED
      BY <3>2, <3>7, Zenon
  <2> QED
    BY <2>4, <2>5, Zenon
<1> QED
  BY <1>1, <1>4, <1>5, Zenon

\* ws.send, the callbacks of writes and shutdowns, and the idle timeout.
LEMMA CallbackBusy ==
  ASSUME IInv, IInv', XInv, NEW c \in Clients,
         (\E left \in Left : WsSend(c, left)) \/ WriteDone(c) \/ ShutdownDone(c)
           \/ on_idle_timeout_cb(c)
  PROVE  XInv'
<1>1. PICK r : r = cli[c]
  BY Zenon
<1>2. r \in ClientState /\ Slot(r)
  BY <1>1, Zenon DEF IInv, Shape
<1>3. UNCHANGED guards /\ peers <= peers'
  BY DEF WsSend, WriteDone, ShutdownDone, on_idle_timeout_cb, IInv, Shape
<1>4. r.socket \in {"open", "closing"}
  BY <1>1, <1>2, Zenon DEF WsSend, WriteDone, ShutdownDone, on_idle_timeout_cb, Slot, Writable,
     ClientState
<1>5. PICK k \in Nat : k = guards[r.guard].ref_count /\ k >= 1 /\ Exchange(r, k)
  BY <1>1, <1>2, <1>4, HeldGuard, Zenon DEF Slot
<1>6. SUFFICES \E n : cli' = [cli EXCEPT ![c] = n] /\ n.guard = r.guard /\ Exchange(n, k)
  BY <1>1, <1>3, <1>5, BusyStep, Zenon
<1>7. ASSUME NEW left \in Left, WsSend(c, left)
      PROVE  \E n : cli' = [cli EXCEPT ![c] = n] /\ n.guard = r.guard /\ Exchange(n, k)
  <2>1. /\ cli' = [cli EXCEPT ![c] = uv_write(r, "ws", left)]
        /\ r.protocol = "ws" /\ r.socket = "open" /\ left \in BOOLEAN
    BY <1>1, <1>7, Leaves, Zenon DEF WsSend, Writable
  <2>2. k = 1 /\ ~ r.shutdown /\ \A i \in DOMAIN r.writes : r.writes[i].kind = "ws"
    BY <1>5, <2>1, Zenon DEF Exchange
  <2> QED
    BY <1>2, <2>1, <2>2, FrameExchange, Zenon
<1>8. CASE WriteDone(c)
  <2> DEFINE n == [Written(r) EXCEPT !.writes = Tail(r.writes)]
  <2>1. cli' = [cli EXCEPT ![c] = n] /\ r.writes # <<>>
    BY <1>1, <1>8, Zenon DEF WriteDone
  <2>2. n.guard = r.guard
    BY <1>2, Zenon DEF Written, uv_read_start, ClientState
  <2>3. CASE r.socket = "open"
    <3>1. Exchange(n, k)
      BY <1>2, <1>5, <2>1, <2>3, WrittenExchange, Zenon
    <3> QED
      BY <2>1, <2>2, <3>1, Zenon
  <2>4. CASE r.socket # "open"
    <3>1. n.socket = r.socket
      BY <1>2, Zenon DEF Written, uv_read_start, ClientState
    <3> HIDE DEF n
    <3> QED
      BY <2>1, <2>2, <2>4, <3>1, ClosedExchange, Zenon
  <2> QED
    BY <2>3, <2>4, Zenon
<1>9. CASE ShutdownDone(c) \/ on_idle_timeout_cb(c)
  <2>1. PICK n : /\ n \in {[uv_close(r) EXCEPT !.shutdown = FALSE], uv_close(r)}
                 /\ cli' = [cli EXCEPT ![c] = n]
    BY <1>1, <1>9, Zenon DEF ShutdownDone, on_idle_timeout_cb
  <2>2. n.socket = "closing" /\ n.guard = r.guard
    BY <1>2, <2>1, Zenon DEF uv_close, ClientState
  <2> QED
    BY <2>1, <2>2, ClosedExchange, Zenon
<1> QED
  BY <1>7, <1>8, <1>9, Zenon

\* A request goes to the script: one more response, and write_in_flight.
LEMMA RequestBusy ==
  ASSUME IInv, IInv', XInv, NEW c \in Clients, RequestToScript(c)
  PROVE  XInv'
<1>1. PICK r : r = cli[c]
  BY Zenon
<1>2. r \in ClientState /\ Slot(r)
  BY <1>1, Zenon DEF IInv, Shape
<1>3. r.reading /\ r.protocol = "http" /\ ~ r.write_in_flight /\ peers' = peers
  BY <1>1, Zenon DEF RequestToScript, ReadRequest, Complete, Readable
<1>4. r.socket = "open" /\ r.guard # None
  BY <1>2, <1>3, Zenon DEF Slot
<1>5. PICK g \in Guards, k \in Nat : g = r.guard /\ k = guards[g].ref_count /\ k >= 1 /\ Exchange(r, k)
  BY <1>1, <1>4, HeldGuard, Zenon
<1>6. k = 1 /\ r.writes = <<>> /\ ~ r.shutdown
  BY <1>2, <1>3, <1>4, <1>5, IdleExchange, Zenon
<1> DEFINE n == [r EXCEPT !.recv = 0, !.write_in_flight = TRUE]
<1>7. cli' = [cli EXCEPT ![c] = n]
  BY <1>1, <1>2, Zenon DEF RequestToScript, Cleared
<1>8. /\ n.protocol = r.protocol /\ n.writes = r.writes /\ n.shutdown = r.shutdown
      /\ n.write_in_flight /\ n.guard = r.guard
  BY <1>2, Zenon DEF ClientState
<1> HIDE DEF n
<1>9. cli'[c] = n /\ \A d \in Clients : d # c => cli'[d] = cli[d]
  BY <1>7, Zenon DEF IInv, Shape
<1>10. guards' = [guards EXCEPT ![g].ref_count = 2]
  BY <1>1, <1>5, <1>6 DEF RequestToScript
<1>11. /\ \A h \in Guards : h # g => guards'[h] = guards[h]
       /\ guards'[g].ref_count = 2 /\ guards'[g].conn = guards[g].conn
  BY <1>5, <1>10, Zenon DEF IInv, Shape, GuardState
<1>12. Exchange(n, 2)
  <2>1. Bit(n.shutdown) = 0 /\ Bit(n.write_in_flight) = 1
    BY <1>6, <1>8, Zenon DEF Bit
  <2>2. Len(n.writes) = 0 /\ DOMAIN n.writes = {}
    BY <1>6, <1>8
  <2>3. (2 - 1) + Len(n.writes) + Bit(n.shutdown) = Bit(n.write_in_flight)
    BY <2>1, <2>2
  <2>4. n.protocol # "ws"
    BY <1>3, <1>8, Zenon
  <2> QED
    BY <2>2, <2>3, <2>4, Zenon DEF Exchange
<1>13. Busy(c)'
  BY <1>5, <1>8, <1>9, <1>11, <1>12, Zenon DEF Busy
<1>14. \A d \in Clients : d # c => cli[d].guard # g
  BY <1>1, <1>4, <1>5, Zenon DEF IInv, Single
<1>15. \A d \in Clients : (d # c /\ cli[d].guard # None) => cli[d].guard \in Guards
  BY Zenon DEF IInv, Shape, ClientState
<1>16. \A d \in Clients : Busy(d)'
  BY <1>9, <1>11, <1>13, <1>14, <1>15, OthersBusy, Zenon DEF XInv
<1>17. Fresh' /\ Distinct'
  <2>1. peers <= peers' /\ \A h \in Guards : guards'[h].conn \in {None, guards[h].conn}
    BY <1>3, <1>11 DEF IInv, Shape
  <2> QED
    BY <2>1, NumbersStep, Zenon DEF XInv
<1> QED
  BY <1>16, <1>17, Zenon DEF XInv

\* send() and abort(): the response makes way for its write.
LEMMA AnswerBusy ==
  ASSUME IInv, IInv', XInv, NEW r \in res, NEW left \in Left, Send(r, left) \/ Abort(r, left)
  PROVE  XInv'
<1>1. r \in Response /\ Owed(r) /\ EndResponse(r) /\ left \in BOOLEAN
  BY Leaves, Zenon DEF IInv, Shape, Send, Abort
<1>2. PICK c \in Clients, g \in Guards, m \in ClientState : c = r.cli /\ g = r.guard /\ m = cli[c]
  <2>1. r.cli \in Clients /\ r.guard \in Guards
    BY <1>1, Zenon DEF Response
  <2>2. cli[r.cli] \in ClientState
    BY <2>1, Zenon DEF IInv, Shape
  <2> QED
    BY <2>1, <2>2, Zenon
<1>3. guards' = [guards EXCEPT ![g] = release(@)] /\ peers' = peers
  BY <1>1, <1>2, Zenon DEF EndResponse
<1>4. /\ guards[g] \in GuardState /\ guards'[g] = release(guards[g])
      /\ \A h \in Guards : h # g => guards'[h] = guards[h]
  BY <1>3, Zenon DEF IInv, Shape
<1>5. Fresh' /\ Distinct'
  <2>1. release(guards[g]).conn \in {None, guards[g].conn}
    BY <1>4, Zenon DEF release, FreeGuard, GuardState
  <2>2. peers <= peers' /\ \A h \in Guards : guards'[h].conn \in {None, guards[h].conn}
    BY <1>3, <1>4, <2>1 DEF IInv, Shape
  <2> QED
    BY <2>2, NumbersStep, Zenon DEF XInv
<1>6. \A d \in Clients : cli[d].guard # None => cli[d].guard \in Guards
  BY Zenon DEF IInv, Shape, ClientState
<1>7. CASE ~ guards[g].alive
  <2>1. \A d \in Clients : cli[d].guard # g
    BY <1>7, Zenon DEF IInv, Linked
  <2>2. cli' = cli
    BY <1>2, <1>7, Zenon DEF Send, Abort, Gone
  <2>3. \A d \in Clients : cli[d].guard # None => guards'[cli[d].guard] = guards[cli[d].guard]
    BY <1>4, <1>6, <2>1, Zenon
  <2>4. \A d \in Clients : Busy(d)'
    BY <2>2, <2>3, Zenon DEF XInv, Busy
  <2> QED
    BY <1>5, <2>4, Zenon DEF XInv
<1>8. CASE guards[g].alive
  <2>1. m.guard = g /\ g # None
    BY <1>1, <1>2, <1>8, NoneIsNoGuard, Zenon DEF Owed
  <2>2. Slot(m) /\ m.socket \in {"open", "closing"} /\ ~ m.closing
    BY <1>2, <2>1, Zenon DEF IInv, Slot
  <2>3. PICK k \in Nat : /\ k = guards[g].ref_count /\ Exchange(m, k)
                         /\ k = 1 + Cardinality(ResponsesOf(g))
    BY <1>2, <2>1, HeldGuard, Zenon
  <2>4. k >= 2
    <3>1. r \in ResponsesOf(g)
      BY <1>2, Zenon DEF ResponsesOf
    <3>2. Cardinality(ResponsesOf(g)) # 0 /\ Cardinality(ResponsesOf(g)) \in Nat
      BY <3>1, Finite, FS_EmptySet, Zenon
    <3> QED
      BY <2>3, <3>2
  <2>5. guards'[g].ref_count = k - 1
    BY <1>4, <2>3, <2>4 DEF release, GuardState
  <2>6. ~ Gone(r)
    BY <1>2, <1>8, <2>2, Zenon DEF Gone
  <2>7. m.socket = "open" => /\ k = 2 /\ m.protocol = "http" /\ m.write_in_flight
                             /\ m.writes = <<>> /\ ~ m.shutdown
    <3>1. SUFFICES ASSUME m.socket = "open"
                   PROVE  /\ k = 2 /\ m.protocol = "http" /\ m.write_in_flight
                          /\ m.writes = <<>> /\ ~ m.shutdown
      BY Zenon
    <3>2. m.protocol = "http"
      BY <2>3, <2>4, <3>1 DEF Exchange, ClientState
    <3>3. k = 2
      BY <2>3, <2>4, <3>1, <3>2, IdleExchange
    <3> QED
      BY <2>3, <2>4, <3>1, <3>2, <3>3, IdleExchange
  <2>8. \E n : cli' = [cli EXCEPT ![c] = n] /\ n.guard = g /\ Exchange(n, k - 1)
    <3>1. CASE Send(r, left)
      <4>1. cli' = [cli EXCEPT ![c] = uv_write(m, "dynamic", left)]
        BY <1>2, <2>6, <3>1, Zenon DEF Send
      <4>2. CASE m.socket = "open"
        <5>1. Writable(m) /\ "dynamic" \in Kinds /\ "dynamic" # "ws" /\ k - 1 = 1
          BY <2>7, <4>2 DEF Writable, Kinds
        <5>2. Exchange(uv_write(m, "dynamic", left), 1) /\ uv_write(m, "dynamic", left).guard = m.guard
          BY <1>1, <2>7, <4>2, <5>1, AnswerExchange, Zenon
        <5> QED
          BY <2>1, <4>1, <5>1, <5>2, Zenon
      <4>3. CASE m.socket # "open"
        <5>1. uv_write(m, "dynamic", left) = m
          BY <4>3, Zenon DEF uv_write, Writable
        <5> QED
          BY <2>1, <4>1, <4>3, <5>1, ClosedExchange, Zenon
      <4> QED
        BY <4>2, <4>3, Zenon
    <3>2. CASE Abort(r, left)
      <4>1. cli' = [cli EXCEPT ![c] = IF Writable(m) THEN uv_write(m, "abort", left) ELSE uv_close(m)]
        BY <1>2, <2>6, <3>2, Zenon DEF Abort
      <4>2. CASE m.socket = "open"
        <5>1. Writable(m) /\ "abort" \in Kinds /\ "abort" # "ws" /\ k - 1 = 1
          BY <2>7, <4>2 DEF Writable, Kinds
        <5>2. Exchange(uv_write(m, "abort", left), 1) /\ uv_write(m, "abort", left).guard = m.guard
          BY <1>1, <2>7, <4>2, <5>1, AnswerExchange, Zenon
        <5> QED
          BY <2>1, <4>1, <5>1, <5>2, Zenon
      <4>3. CASE m.socket # "open"
        <5>1. ~ Writable(m)
          BY <4>3, Zenon DEF Writable
        <5>2. uv_close(m).socket = "closing" /\ uv_close(m).guard = m.guard
          BY Zenon DEF uv_close, ClientState
        <5>3. uv_close(m).socket # "open"
          BY <5>2, Zenon
        <5> QED
          BY <2>1, <4>1, <5>1, <5>2, <5>3, ClosedExchange, Zenon
      <4> QED
        BY <4>2, <4>3, Zenon
    <3> QED
      BY <3>1, <3>2, Zenon
  <2>9. PICK n : cli' = [cli EXCEPT ![c] = n] /\ n.guard = g /\ Exchange(n, k - 1)
    BY <2>8, Zenon
  <2>10. cli'[c] = n /\ \A d \in Clients : d # c => cli'[d] = cli[d]
    BY <2>9, Zenon DEF IInv, Shape
  <2>11. Busy(c)'
    BY <2>5, <2>9, <2>10, Zenon DEF Busy
  <2>12. \A d \in Clients : d # c => cli[d].guard # g
    BY <1>2, <2>1, Zenon DEF IInv, Single
  <2>13. \A d \in Clients : Busy(d)'
    BY <1>4, <1>6, <2>10, <2>11, <2>12, OthersBusy, Zenon DEF XInv
  <2> QED
    BY <1>5, <2>13, Zenon DEF XInv
<1> QED
  BY <1>7, <1>8, Zenon

\* The socket or the timer is closed: the slot has no guard any more.
LEMMA ClosedBusy ==
  ASSUME IInv, IInv', XInv, NEW c \in Clients,
         on_client_closed_cb(c) \/ on_idle_timer_closed_cb(c)
  PROVE  XInv'
<1>1. cli[c] \in ClientState /\ Slot(cli[c]) /\ peers' = peers /\ peers \in Nat
  BY Zenon DEF IInv, Shape, on_client_closed_cb, ClientClosed, on_idle_timer_closed_cb
<1>2. cli'[c].guard = None /\ \A d \in Clients : d # c => cli'[d] = cli[d]
  <2>1. CASE on_client_closed_cb(c)
    BY <1>1, <2>1, Zenon DEF on_client_closed_cb, ClientClosed, Cleared, IInv, Shape, ClientState
  <2>2. CASE on_idle_timer_closed_cb(c)
    BY <2>2, FreeSlotOK, Zenon DEF on_idle_timer_closed_cb, IInv, Shape
  <2> QED
    BY <2>1, <2>2, Zenon
<1>3. Busy(c)'
  BY <1>2, Zenon DEF Busy
<1>4. /\ \A h \in Guards : h # cli[c].guard => guards'[h] = guards[h]
      /\ \A h \in Guards : guards'[h].conn \in {None, guards[h].conn}
  <2>1. CASE on_client_closed_cb(c)
    <3>1. PICK g \in Guards : g = cli[c].guard
      BY <1>1, <2>1, OneClient, Zenon DEF Slot, on_client_closed_cb, ClientClosed
    <3>2. guards' = [guards EXCEPT ![g] = release(Dead(guards[g]))] /\ guards[g] \in GuardState
      BY <2>1, <3>1, Zenon DEF on_client_closed_cb, ClientClosed, IInv, Shape
    <3>3. release(Dead(guards[g])).conn \in {None, guards[g].conn}
      BY <3>2, Zenon DEF release, Dead, FreeGuard, GuardState
    <3> QED
      BY <3>1, <3>2, <3>3, Zenon DEF IInv, Shape
  <2>2. CASE on_idle_timer_closed_cb(c)
    BY <2>2, Zenon DEF on_idle_timer_closed_cb
  <2> QED
    BY <2>1, <2>2, Zenon
<1>5. \A d \in Clients : (d # c /\ cli[d].guard # None) =>
        cli[d].guard \in Guards /\ cli[d].guard # cli[c].guard
  BY Zenon DEF IInv, Shape, ClientState, Single
<1>6. \A d \in Clients : Busy(d)'
  BY <1>2, <1>3, <1>4, <1>5, OthersBusy, Zenon DEF XInv
<1>7. Fresh' /\ Distinct'
  <2>1. peers <= peers'
    BY <1>1
  <2> QED
    BY <1>4, <2>1, NumbersStep, Zenon DEF XInv
<1> QED
  BY <1>6, <1>7, Zenon DEF XInv

\* A peer is accepted: its number is new, and nothing has been asked yet.
LEMMA AcceptBusy ==
  ASSUME IInv, IInv', XInv, NEW c \in Clients, NEW g \in Guards, NEW ok \in BOOLEAN, Accept(c, g, ok)
  PROVE  XInv'
<1>1. peers \in Nat /\ peers' = peers + 1 /\ guards[g].conn = None
  BY Zenon DEF IInv, Shape, Accept
<1> DEFINE n == [FreeSlot EXCEPT !.conn = peers + 1, !.socket = "open", !.timer = "running",
                                 !.reading = ok, !.guard = g]
<1>2. cli'[c] = n /\ \A d \in Clients : d # c => cli'[d] = cli[d]
  BY Zenon DEF Accept, IInv, Shape
<1>3. /\ n.guard = g /\ n.protocol = "http" /\ n.writes = <<>>
      /\ ~ n.shutdown /\ ~ n.write_in_flight
  BY Zenon DEF FreeSlot
<1> HIDE DEF n
<1>4. /\ guards'[g] = [conn |-> peers + 1, alive |-> TRUE, ref_count |-> 1]
      /\ \A h \in Guards : h # g => guards'[h] = guards[h]
  BY Zenon DEF Accept, IInv, Shape
<1>5. guards'[g].conn = peers + 1 /\ guards'[g].ref_count = 1
  BY <1>4
<1>6. Exchange(n, 1)
  <2>1. Bit(n.shutdown) = 0 /\ Bit(n.write_in_flight) = 0
    BY <1>3, Zenon DEF Bit
  <2>2. Len(n.writes) = 0 /\ DOMAIN n.writes = {}
    BY <1>3
  <2>3. (1 - 1) + Len(n.writes) + Bit(n.shutdown) = Bit(n.write_in_flight)
    BY <2>1, <2>2
  <2>4. n.protocol # "ws"
    BY <1>3, Zenon
  <2> QED
    BY <2>2, <2>3, <2>4, Zenon DEF Exchange
<1>7. Busy(c)'
  BY <1>2, <1>3, <1>5, <1>6, Zenon DEF Busy
<1>8. \A d \in Clients : cli[d].guard # None => cli[d].guard \in Guards /\ cli[d].guard # g
  <2>1. ASSUME NEW d \in Clients, cli[d].guard # None, cli[d].guard = g PROVE FALSE
    <3>1. cli[d].conn = None
      BY <1>1, <2>1, Zenon DEF IInv, Linked
    <3>2. cli[d].guard = None
      BY <3>1, Zenon DEF IInv, Slot
    <3> QED
      BY <2>1, <3>2, Zenon
  <2>2. \A d \in Clients : cli[d].guard # None => cli[d].guard \in Guards
    BY Zenon DEF IInv, Shape, ClientState
  <2> QED
    BY <2>1, <2>2, Zenon
<1>9. \A d \in Clients : Busy(d)'
  BY <1>2, <1>4, <1>7, <1>8, OthersBusy, Zenon DEF XInv
<1>10. \A h \in Guards : guards[h].conn \in Nat /\ guards[h].conn <= peers
  BY Zenon DEF XInv, Fresh, IInv, Shape, GuardState
<1>11. Fresh'
  <2>1. ASSUME NEW h \in Guards PROVE guards'[h].conn <= peers'
    BY <1>1, <1>4, <1>5, <1>10
  <2> QED
    BY <2>1, Zenon DEF Fresh
<1>12. Distinct'
  <2>1. ASSUME NEW h \in Guards, NEW i \in Guards, guards'[h].conn = guards'[i].conn,
               guards'[h].conn # None
        PROVE  h = i
    <3>1. h = g <=> i = g
      BY <1>1, <1>4, <1>5, <1>10, <2>1
    <3>2. CASE h # g
      BY <1>4, <2>1, <3>1, <3>2, Zenon DEF XInv, Distinct
    <3> QED
      BY <3>1, <3>2, Zenon
  <2> QED
    BY <2>1, Zenon DEF Distinct
<1> QED
  BY <1>9, <1>11, <1>12, Zenon DEF XInv

LEMMA InitXInv == Init => XInv
<1> SUFFICES ASSUME Init PROVE XInv
  BY Zenon
<1>1. \A d \in Clients : cli[d].guard = None
  BY FreeSlotOK, Zenon DEF Init
<1>2. peers = 0 /\ \A g \in Guards : guards[g].conn = None
  BY Zenon DEF Init, FreeGuard
<1> QED
  BY <1>1, <1>2 DEF XInv, Busy, Fresh, Distinct, None

LEMMA NextXInv ==
  ASSUME IInv, IInv', XInv, [Next]_vars
  PROVE  XInv'
<1>1. CASE Reject \/ Idle \/ UNCHANGED vars
  <2>1. UNCHANGED <<cli, guards>> /\ peers <= peers'
    <3>1. UNCHANGED <<cli, guards>> /\ (peers' = peers \/ peers' = peers + 1)
      BY <1>1, Zenon DEF Reject, Idle, vars
    <3>2. peers \in Nat
      BY Zenon DEF IInv, Shape
    <3> QED
      BY <3>1, <3>2
  <2>2. \A d \in Clients : Busy(d)'
    BY <2>1, Zenon DEF XInv, Busy
  <2>3. Fresh' /\ Distinct'
    BY <2>1, NumbersStep, Zenon DEF XInv
  <2> QED
    BY <2>2, <2>3, Zenon DEF XInv
<1>2. ASSUME NEW c \in Clients, NEW g \in Guards, NEW ok \in BOOLEAN, Accept(c, g, ok)
      PROVE  XInv'
  BY <1>2, AcceptBusy, Zenon
<1>3. CASE Script
  BY <1>3, AnswerBusy, CallbackBusy, Zenon DEF Script
<1>4. ASSUME NEW c \in Clients, Read(c) \/ WriteDone(c) \/ ShutdownDone(c) \/ Loop(c)
      PROVE  XInv'
  <2>1. CASE Read(c)
    BY <2>1, ReadBusy, RequestBusy, Zenon
  <2>2. CASE WriteDone(c) \/ ShutdownDone(c) \/ on_idle_timeout_cb(c)
    BY <2>2, CallbackBusy, Zenon
  <2>3. CASE on_client_closed_cb(c) \/ on_idle_timer_closed_cb(c)
    BY <2>3, ClosedBusy, Zenon
  <2> QED
    BY <1>4, <2>1, <2>2, <2>3, Zenon DEF Loop
<1> QED
  BY <1>1, <1>2, <1>3, <1>4, Zenon DEF Next

\* The responses of an open connection are the ones that hold its guard.
LEMMA ResponsesOfOpen ==
  ASSUME IInv, XInv, NEW c \in Clients, NEW g \in Guards, cli[c].guard = g
  PROVE  {r \in res : r.conn = cli[c].conn} = ResponsesOf(g)
<1>1. guards[g].conn = cli[c].conn /\ guards[g].conn # None
  <2>1. guards[g].conn = cli[c].conn
    BY Zenon DEF IInv, Linked
  <2>2. cli[c].conn # None
    BY NoneIsNoGuard, Zenon DEF IInv, Slot
  <2> QED
    BY <2>1, <2>2, Zenon
<1>2. ASSUME NEW r \in res PROVE r.conn = cli[c].conn <=> r.guard = g
  <2>1. r.guard \in Guards /\ guards[r.guard].conn = r.conn
    BY Zenon DEF IInv, Shape, Response, Owed
  <2> QED
    BY <1>1, <2>1, Zenon DEF XInv, Distinct
<1> QED
  BY <1>2, Zenon DEF ResponsesOf

\* XInv holds in every reachable state.
THEOREM ExchangeInvariant == Spec => []XInv
<1>1. IInv /\ IInv' /\ XInv /\ [Next]_vars => XInv'
  BY NextXInv, Zenon
<1> QED
  BY <1>1, InitXInv, Invariant, PTL DEF Spec

\* For every number of slots, peers and reads, an open HTTP connection is
\* write_in_flight exactly while one request is being answered (on_read_cb,
\* ResponseObject::send and abort, and the callbacks of their writes).
THEOREM OneExchangeAtATime == Spec => []OneExchange
<1>1. ASSUME IInv, XInv PROVE OneExchange
  <2>1. SUFFICES ASSUME NEW c \in Clients, cli[c].socket = "open", cli[c].protocol = "http"
                 PROVE  Exchanges(c) = IF cli[c].write_in_flight THEN 1 ELSE 0
    BY Zenon DEF OneExchange
  <2>2. cli[c] \in ClientState /\ Slot(cli[c])
    BY <1>1, Zenon DEF IInv, Shape
  <2>3. PICK g \in Guards, k \in Nat :
          /\ g = cli[c].guard /\ k = guards[g].ref_count /\ k >= 1 /\ Exchange(cli[c], k)
          /\ k = 1 + Cardinality(ResponsesOf(g))
    BY <1>1, <2>1, <2>2, HeldGuard, Zenon DEF Slot
  <2>4. PICK l \in Nat : l = Len(cli[c].writes) /\ DOMAIN cli[c].writes = 1 .. l
    <3>1. cli[c].writes \in Seq(Write)
      BY <2>2, Zenon DEF ClientState
    <3> QED
      BY <3>1
  <2>5. {i \in DOMAIN cli[c].writes : cli[c].writes[i].kind # "ws"} = 1 .. l
    BY <2>1, <2>3, <2>4, Zenon DEF Exchange
  <2>6. Cardinality(1 .. l) = l
    BY FS_Interval
  <2>7. Cardinality({r \in res : r.conn = cli[c].conn}) = Cardinality(ResponsesOf(g))
    BY <1>1, <2>3, ResponsesOfOpen, Zenon
  <2>8. Cardinality(ResponsesOf(g)) \in Nat
    BY <1>1, Finite, Zenon
  <2>9. Exchanges(c) = Cardinality(ResponsesOf(g)) + l + Bit(cli[c].shutdown)
    BY <2>5, <2>6, <2>7, Zenon DEF Exchanges, Bit
  <2>10. (k - 1) + l + Bit(cli[c].shutdown) = Bit(cli[c].write_in_flight)
    BY <2>1, <2>3, <2>4, Zenon DEF Exchange
  <2>11. Exchanges(c) = Bit(cli[c].write_in_flight)
    BY <2>3, <2>8, <2>9, <2>10
  <2> QED
    BY <2>11, Zenon DEF Bit
<1> QED
  BY <1>1, Invariant, ExchangeInvariant, PTL

-----------------------------------------------------------------------------
(* The read buffers.                                                       *)

BInv == IsFiniteSet(Chained) /\ buffers = Cardinality(Chained)

\* A step that leaves every chain alone.
LEMMA SameChains ==
  ASSUME BInv, UNCHANGED buffers, \A d \in Clients : cli'[d].recv = cli[d].recv
  PROVE  BInv'
<1>1. Chained' = Chained
  BY Zenon DEF Chained
<1> QED
  BY <1>1, Zenon DEF BInv

\* on_read_cb chains the buffer of on_alloc_buffer_cb.
LEMMA OneMore ==
  ASSUME IInv, BInv, NEW c \in Clients, cli'[c].recv = cli[c].recv + 1, buffers' = buffers + 1,
         \A d \in Clients : d # c => cli'[d].recv = cli[d].recv
  PROVE  BInv'
<1>1. \A d \in Clients : cli[d].recv \in Nat
  BY Zenon DEF IInv, Shape, ClientState
<1>2. PICK l \in Nat : l = cli[c].recv
  BY <1>1, Zenon
<1>3. <<c, l + 1>> \notin Chained
  BY <1>2 DEF Chained
<1>4. 1 .. (l + 1) = (1 .. l) \cup {l + 1}
  BY <1>2
<1>5. Chained' = Chained \cup {<<c, l + 1>>}
  <2>1. ASSUME NEW b \in Chained' PROVE b \in Chained \cup {<<c, l + 1>>}
    <3>1. PICK d \in Clients : b \in {d} \X (1 .. cli'[d].recv)
      BY Zenon DEF Chained
    <3>2. CASE d = c
      BY <1>2, <1>4, <3>1, <3>2 DEF Chained
    <3>3. CASE d # c
      BY <3>1, <3>3, Zenon DEF Chained
    <3> QED
      BY <3>2, <3>3, Zenon
  <2>2. ASSUME NEW b \in Chained PROVE b \in Chained'
    <3>1. PICK d \in Clients : b \in {d} \X (1 .. cli[d].recv)
      BY Zenon DEF Chained
    <3>2. 1 .. cli[d].recv \subseteq 1 .. cli'[d].recv
      BY <1>1
    <3> QED
      BY <3>1, <3>2 DEF Chained
  <2>3. <<c, l + 1>> \in Chained'
    BY <1>2, <1>4 DEF Chained
  <2> QED
    BY <2>1, <2>2, <2>3, Zenon
<1> QED
  BY <1>3, <1>5, FS_AddElement, Zenon DEF BInv

\* clear_buffer returns a whole chain.
LEMMA ChainReturned ==
  ASSUME IInv, BInv, NEW c \in Clients, cli'[c].recv = 0, buffers' = buffers - cli[c].recv,
         \A d \in Clients : d # c => cli'[d].recv = cli[d].recv
  PROVE  BInv'
<1>1. PICK l \in Nat : l = cli[c].recv
  BY Zenon DEF IInv, Shape, ClientState
<1>2. Cardinality({c} \X (1 .. l)) = l
  <2>1. IsFiniteSet({c}) /\ Cardinality({c}) = 1
    BY FS_Singleton, Zenon
  <2>2. IsFiniteSet(1 .. l) /\ Cardinality(1 .. l) = l
    BY FS_Interval
  <2>3. Cardinality({c} \X (1 .. l)) = Cardinality({c}) * Cardinality(1 .. l)
    BY <2>1, <2>2, FS_Product, Zenon
  <2> QED
    BY <2>1, <2>2, <2>3
<1>3. Chained \cap ({c} \X (1 .. l)) = {c} \X (1 .. l)
  BY <1>1, Zenon DEF Chained
<1>4. Chained' = Chained \ ({c} \X (1 .. l))
  <2>1. ASSUME NEW b \in Chained' PROVE b \in Chained \ ({c} \X (1 .. l))
    <3>1. PICK d \in Clients : b \in {d} \X (1 .. cli'[d].recv)
      BY Zenon DEF Chained
    <3>2. d # c
      BY <3>1
    <3> QED
      BY <3>1, <3>2, Zenon DEF Chained
  <2>2. ASSUME NEW b \in Chained, b \notin {c} \X (1 .. l) PROVE b \in Chained'
    <3>1. PICK d \in Clients : b \in {d} \X (1 .. cli[d].recv)
      BY Zenon DEF Chained
    <3>2. d # c
      BY <1>1, <2>2, <3>1, Zenon
    <3> QED
      BY <3>1, <3>2, Zenon DEF Chained
  <2> QED
    BY <2>1, <2>2, Zenon
<1>5. IsFiniteSet(Chained') /\ Cardinality(Chained') = Cardinality(Chained) - l
  <2>1. /\ IsFiniteSet(Chained \ ({c} \X (1 .. l)))
        /\ Cardinality(Chained \ ({c} \X (1 .. l)))
             = Cardinality(Chained) - Cardinality(Chained \cap ({c} \X (1 .. l)))
    BY FS_Difference, Zenon DEF BInv
  <2> QED
    BY <1>2, <1>3, <1>4, <2>1, Zenon
<1>6. buffers' = Cardinality(Chained) - l
  BY <1>1, Zenon DEF BInv
<1> QED
  BY <1>5, <1>6, Zenon DEF BInv

\* on_read_cb: a buffer is chained, a chain is returned, or neither.
LEMMA ReadBuffers ==
  ASSUME IInv, BInv, NEW c \in Clients, Read(c)
  PROVE  BInv'
<1>1. PICK r \in ClientState : r = cli[c]
  BY Zenon DEF IInv, Shape
<1>2. ASSUME NEW n, cli' = [cli EXCEPT ![c] = n]
      PROVE  cli'[c] = n /\ \A d \in Clients : d # c => cli'[d] = cli[d]
  BY <1>2, Zenon DEF IInv, Shape
<1>3. CASE ReadNoBufs(c) \/ ReadEnd(c)
  <2>1. cli' = [cli EXCEPT ![c] = CloseOnce(r)] /\ UNCHANGED buffers
    BY <1>1, <1>3, Zenon DEF ReadNoBufs, ReadEnd
  <2>2. CloseOnce(r).recv = r.recv
    BY Zenon DEF CloseOnce, uv_close, ClientState
  <2> QED
    BY <1>1, <1>2, <2>1, <2>2, SameChains, Zenon
<1>4. CASE ReadPart(c) \/ ReadBad(c)
  <2>1. PICK n : /\ n \in {[r EXCEPT !.recv = r.recv + 1], [CloseOnce(r) EXCEPT !.recv = r.recv + 1]}
                 /\ cli' = [cli EXCEPT ![c] = n] /\ buffers' = buffers + 1
    BY <1>1, <1>4, Zenon DEF ReadPart, ReadBad
  <2>2. n.recv = r.recv + 1
    BY <2>1, Zenon DEF CloseOnce, uv_close, ClientState
  <2> QED
    BY <1>1, <1>2, <2>1, <2>2, OneMore, Zenon
<1>5. CASE ~ (ReadNoBufs(c) \/ ReadEnd(c) \/ ReadPart(c) \/ ReadBad(c))
  <2>1. buffers' = buffers - r.recv
    BY <1>1, <1>5, Zenon DEF Read, ReadPipelined, RequestToScript, RequestAnswered, RequestUpgrade,
       ReadFrame, ReadRequest, Complete
  <2>2. \E n : cli' = [cli EXCEPT ![c] = n] /\ n.recv = 0
    <3>1. CASE ReadPipelined(c) \/ RequestToScript(c) \/ ReadFrame(c)
      <4>1. PICK n : /\ n \in {[Cleared(r) EXCEPT !.reading = FALSE], Cleared(r),
                               [Cleared(r) EXCEPT !.write_in_flight = TRUE]}
                     /\ cli' = [cli EXCEPT ![c] = n]
        BY <1>1, <3>1, Zenon DEF ReadPipelined, RequestToScript, ReadFrame
      <4>2. n.recv = 0
        BY <4>1, Zenon DEF Cleared, ClientState
      <4> QED
        BY <4>1, <4>2, Zenon
    <3>2. ASSUME NEW kind, NEW left, NEW m,
                 m \in {[Cleared(r) EXCEPT !.write_in_flight = TRUE],
                        [Cleared(r) EXCEPT !.write_in_flight = TRUE, !.protocol = "ws"]}
          PROVE  uv_write(m, kind, left).recv = 0
      BY <3>2, Zenon DEF uv_write, Cleared, ClientState
    <3>3. ASSUME NEW kind, NEW left, RequestAnswered(c, kind, left)
          PROVE  \E n : cli' = [cli EXCEPT ![c] = n] /\ n.recv = 0
      BY <1>1, <3>2, <3>3, Zenon DEF RequestAnswered
    <3>4. ASSUME NEW left, RequestUpgrade(c, left)
          PROVE  \E n : cli' = [cli EXCEPT ![c] = n] /\ n.recv = 0
      BY <1>1, <3>2, <3>4, Zenon DEF RequestUpgrade
    <3> QED
      BY <1>5, <3>1, <3>3, <3>4, Zenon DEF Read
  <2> QED
    BY <1>1, <1>2, <2>1, <2>2, ChainReturned, Zenon
<1> QED
  BY <1>3, <1>4, <1>5, Zenon

\* Writing, and the callbacks of writes, shutdowns and the timeout, chain nothing.
LEMMA CallbackBuffers ==
  ASSUME IInv, BInv, NEW c \in Clients,
         (\E left \in Left : WsSend(c, left)) \/ WriteDone(c) \/ ShutdownDone(c)
           \/ on_idle_timeout_cb(c)
  PROVE  BInv'
<1>1. PICK r \in ClientState : r = cli[c]
  BY Zenon DEF IInv, Shape
<1>2. UNCHANGED buffers
  BY Zenon DEF WsSend, WriteDone, ShutdownDone, on_idle_timeout_cb
<1>3. \E n : cli' = [cli EXCEPT ![c] = n] /\ n.recv = r.recv
  <2>1. ASSUME NEW left \in Left, WsSend(c, left)
        PROVE  \E n : cli' = [cli EXCEPT ![c] = n] /\ n.recv = r.recv
    <3>1. cli' = [cli EXCEPT ![c] = uv_write(r, "ws", left)]
      BY <1>1, <2>1, Zenon DEF WsSend
    <3>2. uv_write(r, "ws", left).recv = r.recv
      BY Zenon DEF uv_write, ClientState
    <3> QED
      BY <3>1, <3>2, Zenon
  <2>2. CASE WriteDone(c)
    <3>1. cli' = [cli EXCEPT ![c] = [Written(r) EXCEPT !.writes = Tail(r.writes)]]
      BY <1>1, <2>2, Zenon DEF WriteDone
    <3>2. [Written(r) EXCEPT !.writes = Tail(r.writes)].recv = r.recv
      BY Zenon DEF Written, uv_read_start, ClientState
    <3> QED
      BY <3>1, <3>2, Zenon
  <2>3. CASE ShutdownDone(c) \/ on_idle_timeout_cb(c)
    <3>1. \/ cli' = [cli EXCEPT ![c] = [uv_close(r) EXCEPT !.shutdown = FALSE]]
          \/ cli' = [cli EXCEPT ![c] = uv_close(r)]
      BY <1>1, <2>3, Zenon DEF ShutdownDone, on_idle_timeout_cb
    <3>2. /\ [uv_close(r) EXCEPT !.shutdown = FALSE].recv = r.recv
          /\ uv_close(r).recv = r.recv
      BY Zenon DEF uv_close, ClientState
    <3> QED
      BY <3>1, <3>2, Zenon
  <2> QED
    BY <2>1, <2>2, <2>3, Zenon
<1>4. \A d \in Clients : cli'[d].recv = cli[d].recv
  BY <1>1, <1>3, Zenon DEF IInv, Shape
<1> QED
  BY <1>2, <1>4, SameChains, Zenon

\* Ending a response chains nothing.
LEMMA AnswerBuffers ==
  ASSUME IInv, BInv, NEW r \in res, NEW left \in Left, Send(r, left) \/ Abort(r, left)
  PROVE  BInv'
<1>1. r.cli \in Clients
  BY Zenon DEF IInv, Shape, Response
<1>2. PICK s \in ClientState : s = cli[r.cli]
  BY <1>1, Zenon DEF IInv, Shape
<1>3. UNCHANGED buffers
  BY Zenon DEF Send, Abort, EndResponse
<1>4. UNCHANGED cli \/ \E n : cli' = [cli EXCEPT ![r.cli] = n] /\ n.recv = s.recv
  <2>1. PICK n : /\ n \in {uv_write(s, "dynamic", left), uv_write(s, "abort", left), uv_close(s)}
                 /\ UNCHANGED cli \/ cli' = [cli EXCEPT ![r.cli] = n]
    BY <1>2, Zenon DEF Send, Abort
  <2>2. n.recv = s.recv
    BY <2>1, Zenon DEF uv_write, uv_close, ClientState
  <2> QED
    BY <2>1, <2>2, Zenon
<1>5. \A d \in Clients : cli'[d].recv = cli[d].recv
  BY <1>1, <1>2, <1>4, Zenon DEF IInv, Shape
<1> QED
  BY <1>3, <1>5, SameChains, Zenon

\* A slot is taken and given back with an empty chain.
LEMMA SlotBuffers ==
  ASSUME IInv, BInv, NEW c \in Clients,
         (\E g \in Guards, ok \in BOOLEAN : Accept(c, g, ok)) \/ on_idle_timer_closed_cb(c)
  PROVE  BInv'
<1>1. UNCHANGED buffers
  BY Zenon DEF Accept, on_idle_timer_closed_cb
<1>2. cli[c] \in ClientState /\ Slot(cli[c])
  BY Zenon DEF IInv, Shape
<1>3. cli[c].recv = 0
  BY <1>2, Zenon DEF Accept, on_idle_timer_closed_cb, Slot
<1>4. \E n : cli' = [cli EXCEPT ![c] = n] /\ n.recv = 0
  <2>1. ASSUME NEW g \in Guards, NEW ok \in BOOLEAN, Accept(c, g, ok)
        PROVE  \E n : cli' = [cli EXCEPT ![c] = n] /\ n.recv = 0
    <3> DEFINE n == [FreeSlot EXCEPT !.conn = peers + 1, !.socket = "open",
                                     !.timer = "running", !.reading = ok, !.guard = g]
    <3>1. cli' = [cli EXCEPT ![c] = n]
      BY <2>1, Zenon DEF Accept
    <3>2. n.recv = 0
      BY Zenon DEF FreeSlot
    <3> QED
      BY <3>1, <3>2, Zenon
  <2>2. CASE on_idle_timer_closed_cb(c)
    <3>1. cli' = [cli EXCEPT ![c] = FreeSlot]
      BY <2>2, Zenon DEF on_idle_timer_closed_cb
    <3>2. FreeSlot.recv = 0
      BY Zenon DEF FreeSlot
    <3> QED
      BY <3>1, <3>2, Zenon
  <2> QED
    BY <2>1, <2>2, Zenon
<1>5. \A d \in Clients : cli'[d].recv = cli[d].recv
  BY <1>3, <1>4, Zenon DEF IInv, Shape
<1> QED
  BY <1>1, <1>5, SameChains, Zenon

\* on_client_closed_cb returns the chain of its client.
LEMMA ClosedBuffers ==
  ASSUME IInv, BInv, NEW c \in Clients, on_client_closed_cb(c)
  PROVE  BInv'
<1>1. PICK r \in ClientState : r = cli[c]
  BY Zenon DEF IInv, Shape
<1> DEFINE n == [Cleared(r) EXCEPT !.socket = "closed", !.closing = TRUE, !.guard = None,
                                   !.timer = "closing"]
<1>2. cli' = [cli EXCEPT ![c] = n] /\ buffers' = buffers - r.recv
  BY <1>1, Zenon DEF on_client_closed_cb, ClientClosed
<1>3. n.recv = 0
  BY Zenon DEF Cleared, ClientState
<1> HIDE DEF n
<1>4. cli'[c].recv = 0 /\ \A d \in Clients : d # c => cli'[d].recv = cli[d].recv
  BY <1>2, <1>3, Zenon DEF IInv, Shape
<1> QED
  BY <1>1, <1>2, <1>4, ChainReturned, Zenon

LEMMA InitBInv == Init => BInv
<1>1. SUFFICES ASSUME Init PROVE BInv
  BY Zenon
<1>2. \A c \in Clients : cli[c].recv = 0
  BY <1>1, Zenon DEF Init, FreeSlot
<1>3. Chained = {}
  BY <1>2 DEF Chained
<1>4. buffers = 0
  BY <1>1, Zenon DEF Init
<1> QED
  BY <1>3, <1>4, FS_EmptySet, Zenon DEF BInv

\* Every step keeps the pool of read buffers in balance.
LEMMA NextBInv ==
  ASSUME IInv, BInv, [Next]_vars
  PROVE  BInv'
<1>1. CASE Reject \/ Idle \/ UNCHANGED vars
  <2>1. UNCHANGED <<cli, buffers>>
    BY <1>1, Zenon DEF Reject, Idle, vars
  <2> QED
    BY <2>1, SameChains, Zenon
<1>2. ASSUME NEW c \in Clients, NEW g \in Guards, NEW ok \in BOOLEAN, Accept(c, g, ok)
      PROVE  BInv'
  BY <1>2, SlotBuffers, Zenon
<1>3. CASE Script
  BY <1>3, AnswerBuffers, CallbackBuffers, Zenon DEF Script
<1>4. ASSUME NEW c \in Clients, Read(c) \/ WriteDone(c) \/ ShutdownDone(c) \/ Loop(c)
      PROVE  BInv'
  BY <1>4, ReadBuffers, CallbackBuffers, ClosedBuffers, SlotBuffers, Zenon DEF Loop
<1> QED
  BY <1>1, <1>2, <1>3, <1>4, Zenon DEF Next

\* For every number of slots, peers and reads, the buffers that are out of their
\* pool are the ones chained to some client: on_read_cb and clear_buffer lose none
\* and return none twice, whatever closes the connection in between.
THEOREM BuffersAlwaysAccounted == Spec => []BuffersAccounted
<1>1. IInv /\ BInv /\ [Next]_vars => BInv'
  BY NextBInv, Zenon
<1>2. BInv => BuffersAccounted
  BY Zenon DEF BInv, BuffersAccounted
<1> QED
  BY <1>1, <1>2, InitBInv, Invariant, PTL DEF Spec
=============================================================================
