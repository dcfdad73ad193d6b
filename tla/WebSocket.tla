----------------------------- MODULE WebSocket -----------------------------
(***************************************************************************)
(* One WebSocket: src/ws.cc, src/builtins/ws_js.cc, and the parts of       *)
(* src/server.cc that upgrade a connection and feed it.  The bytes of a    *)
(* frame's header are modelled, those of its payload only counted.  The    *)
(* client's bytes arrive in reads of any size up to that of a ReadBuffer,  *)
(* so a read may end inside a header and may reach into the next frame.    *)
(* Where the code reads a payload as if it were a header, what it makes of *)
(* it is a choice; where it reads memory that nothing was written to, or   *)
(* past the end of some, it may crash.                                     *)
(***************************************************************************)
EXTENDS Integers, Sequences, FiniteSetsExt

CONSTANTS
  BufferSize,  \* bytes of a ReadBuffer
  Chunks,      \* how many bytes the kernel has for a read
  Opcodes,     \* opcodes of the client's frames
  InLens,      \* lengths of the payloads that the client sends
  OutLens,     \* lengths of those that the script sends
  SizeMod,     \* one more than the largest size_t (2^64 in the code)
  MaxIn        \* how many frames the client sends (a bound)

ASSUME Frames ==
  /\ Opcodes \subseteq 0 .. 15
  /\ InLens \cup OutLens \subseteq 0 .. 2 ^ 30    \* below 2^31, for TLC
  /\ SizeMod \in Nat /\ SizeMod > 2 ^ 30 + 14      \* no header is longer than 14
ASSUME Reads == BufferSize \in Nat \ {0} /\ Chunks \subseteq Nat \ {0}
ASSUME Bounds == MaxIn \in Nat

Text == 1     \* the opcode of a text frame

-----------------------------------------------------------------------------
(* Frames.                                                                 *)

\* The longest payloads whose length is written in seven and in sixteen bits.
Short == 125
Medium == 65535

\* (len >> (i * 8)) & 0xFF
Octet(len, i) == IF i > 3 THEN 0 ELSE (len \div 256 ^ i) % 256
BigEndian(len, n) == [i \in 1 .. n |-> Octet(len, n - i)]

\* payload_len = (payload_len << 8) | data[2 + i], for each byte
Number(bytes) ==
  LET value[i \in 0 .. Len(bytes)] ==
        IF i = 0 THEN 0 ELSE value[i - 1] * 256 + bytes[i]
  IN  value[Len(bytes)]

\* Mutant: the length is written with its low byte first.
send_little_endian(len, opcode) ==
  [hdr |-> <<128 + opcode>> \o
           IF len <= Short THEN <<len>>
           ELSE IF len <= Medium THEN <<126>> \o [i \in 1 .. 2 |-> Octet(len, i - 1)]
           ELSE <<127>> \o [i \in 1 .. 8 |-> Octet(len, i - 1)],
   len |-> len]

\* FIN and the opcode, the length in one of three forms, no mask.
sendFrame(len, opcode) ==
  [hdr |-> <<128 + opcode>> \o
           IF len <= Short THEN <<len>>
           ELSE IF len <= Medium THEN <<126>> \o BigEndian(len, 2)
           ELSE <<127>> \o BigEndian(len, 8),
   len |-> len]

\* What a client sends: the same with the mask bit, and four bytes of mask.
ClientFrame(len, opcode) ==
  [hdr |-> <<128 + opcode>> \o
           (IF len <= Short THEN <<128 + len>>
            ELSE IF len <= Medium THEN <<128 + 126>> \o BigEndian(len, 2)
            ELSE <<128 + 127>> \o BigEndian(len, 8))
           \o <<0, 0, 0, 0>>,
   len |-> len]

Size(f) == Len(f.hdr) + f.len

NeedMore == [total |-> 0, opcode |-> 0, len |-> 0]

\* A sum of two numbers, in a size_t.
Wrap(sum) == IF sum < SizeMod THEN sum ELSE sum - SizeMod

\* Mutant: a frame is taken to be whole as soon as its header is.
parse_header_only(f, n) ==
  LET p7 == f.hdr[2] % 128
      ext == IF p7 = 126 THEN 2 ELSE IF p7 = 127 THEN 8 ELSE 0
      len == IF ext = 0 THEN p7 ELSE Number(SubSeq(f.hdr, 3, 2 + ext))
      total == Wrap(2 + ext + (IF f.hdr[2] >= 128 THEN 4 ELSE 0) + len)
  IN  IF n < 2 + ext THEN NeedMore
      ELSE [total |-> total, opcode |-> f.hdr[1] % 16, len |-> len]

\* The first n bytes of frame f are there (n may exceed its size).
parseFrame(f, n) ==
  LET p7 == f.hdr[2] % 128
      ext == IF p7 = 126 THEN 2 ELSE IF p7 = 127 THEN 8 ELSE 0
      len == IF ext = 0 THEN p7 ELSE Number(SubSeq(f.hdr, 3, 2 + ext))
      total == Wrap(2 + ext + (IF f.hdr[2] >= 128 THEN 4 ELSE 0) + len)
  IN  IF n < 2 \/ n < 2 + ext \/ n < total THEN NeedMore
      ELSE [total |-> total, opcode |-> f.hdr[1] % 16, len |-> len]

-----------------------------------------------------------------------------
VARIABLES
  phase,      \* "http", "setup" (the script's function runs), "ws", "closed",
              \* "crashed"
  sock_js,    \* the JavaScript object of the socket, "uninitialised" in memory
              \* that nothing has been written to
  onMessage_, \* has the script set onMessage?
  sent,       \* the client's frames, each with its place in the stream of bytes
  start,      \* the place at which the chain of read buffers begins
  recv_len,   \* bytes in the chain
  delivered,  \* the frames that onMessage was called with
  stray,      \* history: was it called with bytes that are no frame?
  dropped,    \* history: have bytes of a frame been cleared unread?
  out         \* what was written last: the handshake or a frame

socket == <<sock_js, onMessage_>>
stream == <<start, recv_len, delivered, stray, dropped>>
vars == <<phase, socket, sent, stream, out>>

Nothing == [hdr |-> <<>>, len |-> 0]
Handshake == [hdr |-> <<>>, len |-> 1]

Init ==
  /\ phase = "http" /\ sock_js = "uninitialised" /\ onMessage_ = FALSE
  /\ sent = <<>> /\ start = 0 /\ recv_len = 0
  /\ delivered = <<>> /\ stray = FALSE /\ dropped = FALSE
  /\ out = Nothing

\* An upgrade request: the route's function is called with a new object, on
\* which it may set onMessage.
invoke_ws_function(sets) ==
  /\ phase = "http"
  /\ phase' = "setup"
  /\ sock_js' = "object"
  /\ onMessage_' = sets
  /\ UNCHANGED <<sent, stream, out>>

\* There is no route for the URI: the upgrade goes on all the same, with the
\* WebSocket as malloc returned it.
invoke_no_route ==
  /\ phase = "http"
  /\ phase' = "setup"
  /\ UNCHANGED <<socket, sent, stream, out>>

\* The handshake is written and the protocol changes.
complete_protocol_upgrade_handshake ==
  /\ phase = "setup"
  /\ phase' = "ws"
  /\ out' = Handshake
  /\ UNCHANGED <<socket, sent, stream>>

\* ws.send(message), in the route's function or later.
send_frame(len) ==
  /\ phase \in {"setup", "ws"} /\ sock_js = "object"
  /\ out' = sendFrame(len, Text)
  /\ UNCHANGED <<phase, socket, sent, stream>>

End(k) == sent[k].at + Size(sent[k])
Sent == IF sent = <<>> THEN 0 ELSE End(Len(sent))

\* The client sends a frame.  It need not wait for an answer to the last one.
ClientSends(len, opcode) ==
  LET f == ClientFrame(len, opcode) IN
  /\ phase = "ws"
  /\ Len(sent) < MaxIn
  /\ sent' = Append(sent, [hdr |-> f.hdr, len |-> len, at |-> Sent])
  /\ UNCHANGED <<phase, socket, stream, out>>

\* What parseFrame may make of n bytes that begin inside a frame: too few, or a
\* frame that nobody sent.  Its length may be so near to SizeMod that the total
\* wraps, and the payload then ends far behind the n bytes.
NotAFrame(n) ==
  {NeedMore} \cup
  {[total |-> n, opcode |-> c, len |-> len] :
     c \in {i \in {Text, Text + 1} : n >= 2}, len \in {0} \cup {i \in {n + 1} : n >= 10}}

NoFrame == 0

\* onMessage has found f in n bytes that begin with frame k of the client, or
\* inside one.  The script's function is called with a text.  The function is
\* looked up in sock_js, and the bytes of the payload are unmasked and copied.
onMessage(f, n, k) ==
  LET calls == onMessage_ /\ f.opcode = Text IN
  /\ delivered' = IF calls /\ k # NoFrame THEN Append(delivered, k) ELSE delivered
  /\ stray' = (stray \/ (calls /\ k = NoFrame))
  /\ phase' \in {"ws"} \cup {p \in {"crashed"} : sock_js = "uninitialised" \/ f.len > n}

\* process_web_socket_request: the bytes join the chain, and onMessage looks for
\* a frame at its start.  If it finds one, the whole chain is cleared, with
\* whatever has arrived after the frame; the next chain may then begin inside a
\* frame, and is read like any other.
process_web_socket_request(chunk) ==
  LET n == Min({chunk, BufferSize, Sent - (start + recv_len)})
      have == recv_len + n
      k == IF \E i \in DOMAIN sent : sent[i].at = start
           THEN CHOOSE i \in DOMAIN sent : sent[i].at = start ELSE NoFrame IN
  /\ phase = "ws" /\ n > 0
  /\ \E f \in IF k = NoFrame THEN NotAFrame(have) ELSE {parseFrame(sent[k], have)} :
       IF f.total = 0
       THEN recv_len' = have /\ UNCHANGED <<phase, start, delivered, stray, dropped>>
       ELSE /\ onMessage(f, have, k)
            /\ start' = start + have /\ recv_len' = 0
            /\ dropped' = (dropped \/ have > f.total)
  /\ UNCHANGED <<socket, sent, out>>

\* The peer is gone or silent: onClose is looked up in sock_js and called, and
\* the object freed.
on_client_closed_cb ==
  /\ phase = "ws"
  /\ phase' \in {"closed"} \cup {p \in {"crashed"} : sock_js = "uninitialised"}
  /\ UNCHANGED <<socket, sent, stream, out>>

Idle == phase # "setup" /\ UNCHANGED vars

Next ==
  \/ \E sets \in BOOLEAN : invoke_ws_function(sets)
  \/ invoke_no_route
  \/ \E len \in OutLens : send_frame(len)
  \/ \E len \in InLens, opcode \in Opcodes : ClientSends(len, opcode)
  \/ complete_protocol_upgrade_handshake
  \/ \E c \in Chunks : process_web_socket_request(c)
  \/ on_client_closed_cb
  \/ Idle

Spec == Init /\ [][Next]_vars

-----------------------------------------------------------------------------
IsText(k) == sent[k].hdr[1] % 16 = Text

\* Frames that have arrived to the last byte.
Arrived == {k \in DOMAIN sent : End(k) <= start + recv_len}

\* onMessage is called with the texts that have arrived, each once, in the order
\* in which they were sent and as soon as the last byte is there, however the
\* bytes were cut into reads, and with nothing else; and a socket that a route
\* was found for does not crash.  A read that reaches past the end of a frame
\* ends this: texts may then be missing, and bytes of a payload be delivered as
\* texts that nobody sent.  Even then the frames that are found, once the chain
\* happens to begin with one again, are never repeated or out of order.
TextsDelivered ==
  /\ \A i, j \in DOMAIN delivered : i < j => delivered[i] < delivered[j]
  /\ \A i \in DOMAIN delivered : delivered[i] \in Arrived /\ IsText(delivered[i])
  /\ ~ dropped =>
       /\ ~ stray
       /\ phase = "crashed" => sock_js = "uninitialised"
       /\ onMessage_ => \A k \in Arrived : IsText(k) => \E i \in DOMAIN delivered : delivered[i] = k

\* A frame that the script sends means to parseFrame what was sent: its opcode
\* and length, once all its bytes are there, and nothing before.
FramesReadBack ==
  out \notin {Nothing, Handshake} =>
    /\ parseFrame(out, Size(out)) = [total |-> Size(out), opcode |-> Text, len |-> out.len]
    /\ \A n \in (0 .. Len(out.hdr)) \cup {Size(out) - 1} :
         n < Size(out) => parseFrame(out, n) = NeedMore
=============================================================================
