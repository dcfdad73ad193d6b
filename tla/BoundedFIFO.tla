---------------------------- MODULE BoundedFIFO ----------------------------
(***************************************************************************)
(* What a single-producer / single-consumer queue promises, without the    *)
(* ring: a sequence of at most Capacity items, appended to and taken from  *)
(* in one step, and an honest answer to the caller.  A refusal is only     *)
(* given when the sequence really is full (push) or empty (pop).           *)
(***************************************************************************)
EXTENDS Naturals, Sequences

CONSTANTS Items, NoItem, Capacity

VARIABLES
  queue,    \* the items accepted and not yet taken, oldest first
  pushed,   \* what the producer's last push returned
  popped    \* what the consumer's last pop handed out (NoItem: it returned false)

fifoVars == <<queue, pushed, popped>>

Init ==
  /\ queue = <<>>
  /\ pushed = "none"
  /\ popped = NoItem

Push(x) ==
  /\ Len(queue) < Capacity
  /\ queue' = Append(queue, x)
  /\ pushed' = "ok"
  /\ UNCHANGED popped

PushFull ==
  /\ Len(queue) = Capacity
  /\ pushed' = "full"
  /\ UNCHANGED <<queue, popped>>

Pop ==
  /\ queue # <<>>
  /\ popped' = Head(queue)
  /\ queue' = Tail(queue)
  /\ UNCHANGED pushed

PopEmpty ==
  /\ queue = <<>>
  /\ popped' = NoItem
  /\ UNCHANGED <<queue, pushed>>

Next ==
  \/ \E x \in Items : Push(x)
  \/ PushFull
  \/ Pop
  \/ PopEmpty

Spec == Init /\ [][Next]_fifoVars
=============================================================================
