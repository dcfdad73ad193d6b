----------------------------- MODULE SPSCQueue -----------------------------
(***************************************************************************)
(* include/spsc_queue.h: the lock-free ring shared by one producer thread  *)
(* and one consumer thread.  A call of push or pop is split where the      *)
(* other thread can see it: the load of the other side's index (with the   *)
(* decision it leads to), the access to the slot, and the store of the     *)
(* own index.  The own index is only written by its owner, so the relaxed  *)
(* load of it needs no step.  Loads return the newest value: the           *)
(* release/acquire pairs order the slot access before the index store, and *)
(* that order is the one the steps keep.                                   *)
(***************************************************************************)
EXTENDS Ring, Naturals, Sequences

CONSTANTS
  Items,    \* what is pushed
  NoItem    \* the content of a slot nobody wrote, and of an out nobody filled

ASSUME NoItemIsNoItem == NoItem \notin Items

VARIABLES
  buf,      \* buf_
  write,    \* write_
  read,     \* read_
  push_pc,      \* where the producer is in push
  item,     \* push's argument
  pushed,   \* what the last push returned
  pop_pc,      \* where the consumer is in pop
  out,      \* pop's out parameter while the call runs
  popped    \* what the last pop handed out

prodVars == <<push_pc, item, pushed>>
consVars == <<pop_pc, out, popped>>
ringVars == <<buf, write, read, prodVars, consVars>>

Slots == 0 .. N - 1

\* Mutants of the code below: the full test forgotten, the index published
\* without its item.
PushLoadUnchecked(x) ==
  /\ push_pc = "idle"
  /\ push_pc' = "store"
  /\ item' = x
  /\ UNCHANGED <<buf, write, read, pushed, consVars>>
PushStoreLate ==
  /\ push_pc = "store"
  /\ write' = (write + 1) % N
  /\ buf' = [buf EXCEPT ![write'] = item]
  /\ push_pc' = "idle"
  /\ pushed' = "ok"
  /\ UNCHANGED <<read, item, consVars>>

\* (i + 1) & (N - 1): N is a power of 2, so the mask is the remainder.
Advance(i) == (i + 1) % N

RingInit ==
  /\ buf = [s \in Slots |-> NoItem]
  /\ write = 0
  /\ read = 0
  /\ push_pc = "idle" /\ item = NoItem /\ pushed = "none"
  /\ pop_pc = "idle" /\ out = NoItem /\ popped = NoItem

-----------------------------------------------------------------------------
\* A push that finds the slot after write_ free goes on to store the item.
PushLoad(x) ==
  /\ push_pc = "idle"
  /\ Advance(write) # read
  /\ push_pc' = "store"
  /\ item' = x
  /\ UNCHANGED <<buf, write, read, pushed, consVars>>

\* A push that finds the ring full returns false.
PushFull ==
  /\ push_pc = "idle"
  /\ Advance(write) = read
  /\ pushed' = "full"
  /\ UNCHANGED <<buf, write, read, push_pc, item, consVars>>

PushStore ==
  /\ push_pc = "store"
  /\ buf' = [buf EXCEPT ![write] = item]
  /\ push_pc' = "publish"
  /\ UNCHANGED <<write, read, item, pushed, consVars>>

PushPublish ==
  /\ push_pc = "publish"
  /\ write' = Advance(write)
  /\ push_pc' = "idle"
  /\ pushed' = "ok"
  /\ UNCHANGED <<buf, read, item, consVars>>

PopLoad ==
  /\ pop_pc = "idle"
  /\ read # write
  /\ pop_pc' = "copy"
  /\ UNCHANGED <<buf, write, read, prodVars, out, popped>>

PopEmpty ==
  /\ pop_pc = "idle"
  /\ read = write
  /\ popped' = NoItem
  /\ UNCHANGED <<buf, write, read, prodVars, pop_pc, out>>

PopCopy ==
  /\ pop_pc = "copy"
  /\ out' = buf[read]
  /\ pop_pc' = "release"
  /\ UNCHANGED <<buf, write, read, prodVars, popped>>

PopRelease ==
  /\ pop_pc = "release"
  /\ read' = Advance(read)
  /\ pop_pc' = "idle"
  /\ popped' = out
  /\ UNCHANGED <<buf, write, prodVars, out>>

RingNext ==
  \/ \E x \in Items : PushLoad(x)
  \/ PushFull
  \/ PushStore
  \/ PushPublish
  \/ PopLoad
  \/ PopEmpty
  \/ PopCopy
  \/ PopRelease

RingSpec == RingInit /\ [][RingNext]_ringVars

-----------------------------------------------------------------------------
\* Both indices stay inside the ring, and every call is at one of its steps.
RingTypeOK ==
  /\ buf \in [Slots -> Items \cup {NoItem}]
  /\ write \in Slots
  /\ read \in Slots
  /\ push_pc \in {"idle", "store", "publish"}
  /\ item \in Items \cup {NoItem}
  /\ pushed \in {"none", "ok", "full"}
  /\ pop_pc \in {"idle", "copy", "release"}
  /\ out \in Items \cup {NoItem}
  /\ popped \in Items \cup {NoItem}

\* The producer never writes the slot the consumer is reading: the plain
\* accesses to buf_ in push and pop are never concurrent on one slot.
NoSlotRace == ~ (push_pc = "store" /\ pop_pc = "copy" /\ write = read)

\* The number of published items, and the items themselves, oldest first.
Wrap(k) == IF k < N THEN k ELSE k - N
Count == IF read <= write THEN write - read ELSE write + N - read
Contents == [k \in 1 .. Count |-> buf[Wrap(read + k - 1)]]

\* The ring behaves as a bounded queue of N - 1 items ("Actual usable slots =
\* N - 1"): nothing is lost, duplicated or reordered, and push and pop refuse
\* only when the queue is full and empty.
FIFO == INSTANCE BoundedFIFO WITH queue <- Contents, Capacity <- N - 1
ImplementsFIFO == FIFO!Spec
=============================================================================
