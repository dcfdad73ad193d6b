------------------------------ MODULE MemPool -------------------------------
(***************************************************************************)
(* The object pool of include/mem_pool.h: an array of slots, the free ones *)
(* linked through their next indices.  A pointer to a slot is its index;   *)
(* &slots_[SIZE_MAX] is the slot before the first, -1, because the address *)
(* computation wraps, and the distance from slots_ back to it, taken as a  *)
(* size_t, is SIZE_MAX again.                                              *)
(***************************************************************************)
EXTENDS Integers, Sequences, FiniteSets

CONSTANTS capacity, SIZE_MAX

ASSUME Capacity == capacity \in Nat /\ capacity > 0
ASSUME SizeMax == SIZE_MAX \in Nat /\ SIZE_MAX >= capacity

Slots == 0 .. capacity - 1
NoSlot == -1

VARIABLES
  next, in_use, data,  \* the fields of every slot
  head,                \* free_list_head
  in_use_count,
  ret,                 \* what the last acquire returned; NoSlot for nullptr
  aborted,             \* has an assertion failed?
  free                 \* the free list as a sequence, kept for the properties

vars == <<next, in_use, data, head, in_use_count, ret, aborted, free>>

\* &slots_[i], and the size_t distance of a pointer from slots_.
At(i) == IF i = SIZE_MAX THEN -1 ELSE i
IndexOf(p) == p % (SIZE_MAX + 1)

Init ==
  /\ next = [s \in Slots |-> IF s < capacity - 1 THEN s + 1 ELSE SIZE_MAX]
  /\ in_use = [s \in Slots |-> FALSE]
  /\ data = [s \in Slots |-> "fresh"]
  /\ head = 0
  /\ in_use_count = 0
  /\ ret = NoSlot
  /\ aborted = FALSE
  /\ free = [k \in 1 .. capacity |-> k - 1]

-----------------------------------------------------------------------------
(* Mutants: the slot keeps its old contents; the released slot is linked   *)
(* to the head's successor; release forgets the count.                     *)
AcquireUnzeroed ==
  /\ in_use_count # capacity
  /\ in_use' = [in_use EXCEPT ![head] = TRUE]
  /\ next' = [next EXCEPT ![head] = SIZE_MAX]
  /\ head' = At(next[head])
  /\ in_use_count' = in_use_count + 1
  /\ ret' = head
  /\ free' = Tail(free)
  /\ UNCHANGED <<data, aborted>>
ReleaseWith(s, link, count) ==
  /\ in_use[s]
  /\ data' = [data EXCEPT ![s] = "poison"]
  /\ next' = [next EXCEPT ![s] = link]
  /\ head' = s
  /\ in_use' = [in_use EXCEPT ![s] = FALSE]
  /\ in_use_count' = in_use_count - count
  /\ free' = <<s>> \o free
  /\ UNCHANGED <<ret, aborted>>
ReleaseMislinked(s) ==
  ReleaseWith(s, IF head \in Slots THEN next[head] ELSE SIZE_MAX, 1)
-----------------------------------------------------------------------------
acquire ==
  /\ in_use_count # capacity
  /\ in_use' = [in_use EXCEPT ![head] = TRUE]
  /\ next' = [next EXCEPT ![head] = SIZE_MAX]
  /\ head' = At(next[head])
  /\ data' = [data EXCEPT ![head] = "zero"]
  /\ in_use_count' = in_use_count + 1
  /\ ret' = head
  /\ free' = Tail(free)
  /\ UNCHANGED aborted

acquire_exhausted ==
  /\ in_use_count = capacity
  /\ ret' = NoSlot
  /\ UNCHANGED <<next, in_use, data, head, in_use_count, aborted, free>>

\* A slot that is released while it is the head only loses its mark.
release(s) ==
  /\ in_use[s]
  /\ data' = [data EXCEPT ![s] = "poison"]
  /\ next' = IF s = head THEN next ELSE [next EXCEPT ![s] = IndexOf(head)]
  /\ head' = s
  /\ in_use' = [in_use EXCEPT ![s] = FALSE]
  /\ in_use_count' = in_use_count - 1
  /\ free' = <<s>> \o free
  /\ UNCHANGED <<ret, aborted>>

\* assert(slot->in_use && "Double free detected!")
release_asserts(s) ==
  /\ ~ in_use[s]
  /\ aborted' = TRUE
  /\ UNCHANGED <<next, in_use, data, head, in_use_count, ret, free>>

\* The holder of a slot uses its memory.
Write(s) ==
  /\ in_use[s]
  /\ data' = [data EXCEPT ![s] = "user"]
  /\ UNCHANGED <<next, in_use, head, in_use_count, ret, aborted, free>>

Next ==
  /\ ~ aborted
  /\ \/ acquire \/ acquire_exhausted
     \/ \E s \in Slots : release(s) \/ release_asserts(s) \/ Write(s)

Spec == Init /\ [][Next]_vars

-----------------------------------------------------------------------------
\* Every field has its type; the head is a slot, or the slot before the first
\* when the pool is exhausted.
TypeOK ==
  /\ next \in [Slots -> Slots \cup {SIZE_MAX}]
  /\ in_use \in [Slots -> BOOLEAN]
  /\ data \in [Slots -> {"fresh", "zero", "user", "poison"}]
  /\ head \in Slots \cup {-1}
  /\ in_use_count \in 0 .. capacity
  /\ ret \in Slots \cup {NoSlot}
  /\ aborted \in BOOLEAN
  /\ free \in Seq(Slots)

\* The links from free_list_head are a list of exactly the slots not in use,
\* each once, that ends in SIZE_MAX; an exhausted pool's head wraps to -1 and
\* comes back with the first release.  A slot in use is on no list, so the
\* branch of release for a slot that is the head is never taken.
FreeListOK ==
  /\ head = IF free = <<>> THEN -1 ELSE free[1]
  /\ \A k \in 1 .. Len(free) :
       next[free[k]] = IF k = Len(free) THEN SIZE_MAX ELSE free[k + 1]
  /\ \A s \in Slots : ~ in_use[s] <=> \E k \in 1 .. Len(free) : free[k] = s
  /\ \A j, k \in 1 .. Len(free) : free[j] = free[k] => j = k

Used == {s \in Slots : in_use[s]}

\* in_use_count_ is the number of slots in use: what verify_no_leaks and
\* is_exhausted report is true.
CountExact == in_use_count = Cardinality(Used)

Pool == INSTANCE SlotPool WITH
          content <- [s \in Slots |-> IF in_use[s] THEN data[s] ELSE "none"]

\* The free list implements the pool its callers rely on: acquire hands out a
\* zeroed slot nobody holds and fails only when all are held, and no call
\* touches a slot somebody else holds.
ImplementsPool == Pool!Spec
=============================================================================
