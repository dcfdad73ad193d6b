--------------------------- MODULE MemPoolProofs ----------------------------
(***************************************************************************)
(* Proofs about MemPool, for every capacity: the free list is intact after *)
(* any sequence of calls, the count is exact, and the pool implements      *)
(* SlotPool.                                                               *)
(***************************************************************************)
EXTENDS MemPool, FiniteSetTheorems, SequenceTheorems, TLAPS

(***************************************************************************)
(* The inductive invariant.  acquire tests the count and then follows the  *)
(* list, release trusts in_use: only with CountExact does "not exhausted"  *)
(* mean that the list has a first slot, and only with FreeListOK is that   *)
(* slot free and its link the rest of the list.                            *)
(***************************************************************************)
IInv == TypeOK /\ FreeListOK /\ CountExact

-----------------------------------------------------------------------------
\* The distance of a pointer the pool uses: the wrapped head gives SIZE_MAX.
LEMMA IndexOfPointer ==
  ASSUME NEW p \in Slots \cup {-1}
  PROVE  IndexOf(p) = IF p = -1 THEN SIZE_MAX ELSE p
BY Capacity, SizeMax DEF IndexOf, Slots

\* The slots in use are finitely many, at most capacity, and all of them when
\* they are that many.
LEMMA UsedBound ==
  /\ IsFiniteSet(Used)
  /\ Cardinality(Used) \in 0 .. capacity
  /\ Cardinality(Used) = capacity => Used = Slots
<1>1. IsFiniteSet(Slots) /\ Cardinality(Slots) = capacity
  BY FS_Interval, Capacity DEF Slots
<1>2. Used \in SUBSET Slots
  BY Zenon DEF Used
<1>3. /\ IsFiniteSet(Used)
      /\ Cardinality(Used) <= Cardinality(Slots)
      /\ Cardinality(Slots) = Cardinality(Used) => Slots = Used
  BY <1>1, <1>2, FS_Subset, Zenon
<1>4. Cardinality(Used) \in Nat
  BY <1>3, FS_CardinalityType, Zenon
<1> QED
  BY <1>1, <1>3, <1>4, Capacity

\* A pool that is not exhausted has a free slot at its head.
LEMMA HeadIsFree ==
  ASSUME IInv, in_use_count # capacity
  PROVE  /\ free # <<>>
         /\ head = free[1]
         /\ head \in Slots
         /\ ~ in_use[head]
<1>1. PICK s \in Slots : ~ in_use[s]
  <2>1. Cardinality(Slots) = capacity
    BY FS_Interval, Capacity DEF Slots
  <2>2. Used # Slots
    BY <2>1, Zenon DEF IInv, CountExact
  <2> QED
    BY <2>2, Zenon DEF Used
<1>2. free # <<>>
  BY <1>1 DEF IInv, TypeOK, FreeListOK
<1> QED
  BY <1>2 DEF IInv, TypeOK, FreeListOK

\* The constructor builds the list of all slots.
LEMMA InvInit == Init => IInv
<1> SUFFICES ASSUME Init
             PROVE  IInv
  BY Zenon
<1>1. free \in Seq(Slots) /\ Len(free) = capacity /\ free # <<>>
  <2>1. free \in [1 .. capacity -> Slots] /\ DOMAIN free = 1 .. capacity
    BY Capacity DEF Init, Slots
  <2>2. free \in Seq(Slots)
    BY <2>1, Capacity, SeqDef, Zenon
  <2> QED
    BY <2>1, <2>2, Capacity
<1>2. TypeOK
  <2>1. in_use \in [Slots -> BOOLEAN] /\ aborted \in BOOLEAN
    BY Zenon DEF Init
  <2> QED
    BY <1>1, <2>1, Capacity, SizeMax DEF Init, TypeOK, Slots, NoSlot
<1>3. FreeListOK
  <2>1. \A k \in 1 .. Len(free) : free[k] = k - 1
    BY <1>1, Capacity, Zenon DEF Init
  <2>2. head = free[1]
    BY <1>1, <2>1, Capacity DEF Init
  <2>3. \A k \in 1 .. Len(free) :
          next[free[k]] = IF k = Len(free) THEN SIZE_MAX ELSE free[k + 1]
    BY <1>1, <2>1, Capacity DEF Init, Slots
  <2>4. \A s \in Slots : s + 1 \in 1 .. Len(free) /\ free[s + 1] = s /\ ~ in_use[s]
    BY <1>1, <2>1, Capacity DEF Init, Slots
  <2> QED
    BY <1>1, <2>1, <2>2, <2>3, <2>4, Capacity DEF FreeListOK
<1>4. CountExact
  <2>1. Used = {}
    BY Zenon DEF Init, Used
  <2> QED
    BY <2>1, FS_EmptySet, Zenon DEF Init, CountExact
<1> QED
  BY <1>2, <1>3, <1>4, Zenon DEF IInv

-----------------------------------------------------------------------------
\* acquire takes the first slot off the list.
LEMMA AcquirePreserves == IInv /\ acquire => IInv'
<1> SUFFICES ASSUME IInv, acquire
             PROVE  IInv'
  BY Zenon
<1>0. free # <<>> /\ head = free[1] /\ head \in Slots /\ ~ in_use[head]
  BY HeadIsFree, Zenon DEF acquire
<1>1. /\ free' \in Seq(Slots) /\ Len(free') = Len(free) - 1
      /\ \A k \in 1 .. Len(free') : free'[k] = free[k + 1]
  BY <1>0, HeadTailProperties, Zenon DEF acquire, IInv, TypeOK
<1>2. At(next[head]) = IF Len(free) = 1 THEN -1 ELSE free[2]
  <2>1. Len(free) \in Nat /\ Len(free) >= 1
    BY <1>0 DEF IInv, TypeOK
  <2>2. next[head] = IF Len(free) = 1 THEN SIZE_MAX ELSE free[2]
    <3>1. 1 \in 1 .. Len(free) /\ 1 + 1 = 2
      BY <2>1
    <3>2. next[free[1]] = IF 1 = Len(free) THEN SIZE_MAX ELSE free[1 + 1]
      BY <3>1, Zenon DEF IInv, FreeListOK
    <3> QED
      BY <1>0, <3>1, <3>2, Zenon
  <2>3. Len(free) # 1 => free[2] \in Slots
    <3>1. \A n \in Nat : n >= 1 /\ n # 1 => 2 \in 1 .. n
      OBVIOUS
    <3> QED
      BY <2>1, <3>1, ElementOfSeq, Zenon DEF IInv, TypeOK
  <2> QED
    BY <2>2, <2>3, Capacity, SizeMax DEF At, Slots
<1>3. CountExact'
  <2>1. Used' = Used \cup {head} /\ head \notin Used
    BY <1>0, Zenon DEF Used, acquire, IInv, TypeOK
  <2>2. Cardinality(Used') = Cardinality(Used) + 1
    BY <2>1, UsedBound, FS_AddElement, Zenon
  <2> QED
    BY <2>2, Zenon DEF CountExact, IInv, acquire
<1>4. TypeOK'
  <2>1. in_use' \in [Slots -> BOOLEAN] /\ aborted' \in BOOLEAN
    BY Zenon DEF acquire, IInv, TypeOK
  <2>2. in_use_count' \in 0 .. capacity
    BY UsedBound, Capacity DEF acquire, IInv, TypeOK, CountExact
  <2> QED
    BY <1>0, <1>1, <1>2, <2>1, <2>2 DEF acquire, IInv, TypeOK
<1>5. FreeListOK'
  <2>1. head' = IF free' = <<>> THEN -1 ELSE free'[1]
    <3>1. Len(free) \in Nat /\ Len(free) >= 1
      BY <1>0 DEF IInv, TypeOK
    <3>2. free' = <<>> <=> Len(free) = 1
      BY <1>1, <3>1
    <3>3. Len(free) # 1 => free'[1] = free[2]
      BY <1>1, <3>1
    <3> QED
      BY <1>2, <3>2, <3>3, Zenon DEF acquire
  <2>2. \A j, k \in 1 .. Len(free') : free'[j] = free'[k] => j = k
    BY <1>1 DEF IInv, TypeOK, FreeListOK
  <2>3. \A k \in 1 .. Len(free') : free'[k] # head
    BY <1>0, <1>1 DEF IInv, TypeOK, FreeListOK
  <2>4. \A k \in 1 .. Len(free') :
          next'[free'[k]] = IF k = Len(free') THEN SIZE_MAX ELSE free'[k + 1]
    <3> SUFFICES ASSUME NEW k \in 1 .. Len(free')
                 PROVE  next'[free'[k]] = IF k = Len(free') THEN SIZE_MAX ELSE free'[k + 1]
      BY Zenon
    <3>1. k + 1 \in 1 .. Len(free) /\ free'[k] = free[k + 1] /\ free[k + 1] \in Slots
      BY <1>1 DEF IInv, TypeOK
    <3>2. next'[free'[k]] = next[free[k + 1]]
      BY <2>3, <3>1, Zenon DEF acquire, IInv, TypeOK
    <3>3. next[free[k + 1]] = IF k + 1 = Len(free) THEN SIZE_MAX ELSE free[(k + 1) + 1]
      BY <3>1, Zenon DEF IInv, FreeListOK
    <3>4. k # Len(free') => free'[k + 1] = free[(k + 1) + 1]
      BY <1>1, <3>1 DEF IInv, TypeOK
    <3> QED
      BY <1>1, <3>1, <3>2, <3>3, <3>4 DEF IInv, TypeOK
  <2>5. \A s \in Slots : ~ in_use'[s] <=> \E k \in 1 .. Len(free') : free'[k] = s
    <3> SUFFICES ASSUME NEW s \in Slots
                 PROVE  ~ in_use'[s] <=> \E k \in 1 .. Len(free') : free'[k] = s
      BY Zenon
    <3>1. CASE s = head
      BY <1>0, <2>3, <3>1, Zenon DEF acquire, IInv, TypeOK
    <3>2. CASE s # head
      <4>1. in_use'[s] = in_use[s]
        BY <3>2, Zenon DEF acquire, IInv, TypeOK
      <4>2. (\E k \in 1 .. Len(free') : free'[k] = s) <=> \E k \in 1 .. Len(free) : free[k] = s
        <5>1. ASSUME NEW k \in 1 .. Len(free), free[k] = s
              PROVE  k - 1 \in 1 .. Len(free') /\ free'[k - 1] = s
          BY <1>0, <1>1, <3>2, <5>1 DEF IInv, TypeOK
        <5> QED
          BY <1>1, <5>1 DEF IInv, TypeOK
      <4> QED
        BY <4>1, <4>2, Zenon DEF IInv, FreeListOK
    <3> QED
      BY <3>1, <3>2, Zenon
  <2> QED
    BY <2>1, <2>2, <2>4, <2>5, Zenon DEF FreeListOK
<1> QED
  BY <1>3, <1>4, <1>5, Zenon DEF IInv

\* release puts the slot before the first one, with a link to it.
LEMMA ReleasePreserves ==
  ASSUME IInv, NEW s \in Slots, release(s)
  PROVE  IInv'
<1>0. /\ in_use[s] /\ \A k \in 1 .. Len(free) : free[k] # s
      /\ s # head
  BY DEF release, IInv, TypeOK, FreeListOK, Slots
<1>1. /\ free' \in Seq(Slots) /\ Len(free') = Len(free) + 1 /\ free' # <<>>
      /\ free'[1] = s
      /\ \A k \in 1 .. Len(free) : free'[k + 1] = free[k]
  BY DEF release, IInv, TypeOK
<1>2. IndexOf(head) = IF free = <<>> THEN SIZE_MAX ELSE free[1]
  BY IndexOfPointer, Capacity DEF IInv, TypeOK, FreeListOK, Slots
<1>3. next' = [next EXCEPT ![s] = IndexOf(head)]
  BY <1>0, Zenon DEF release
<1>4. CountExact'
  <2>1. Used' = Used \ {s} /\ s \in Used
    BY <1>0, Zenon DEF Used, release, IInv, TypeOK
  <2>2. Cardinality(Used') = Cardinality(Used) - 1
    BY <2>1, UsedBound, FS_RemoveElement, Zenon
  <2> QED
    BY <2>2, Zenon DEF CountExact, IInv, release
<1>5. TypeOK'
  <2>1. in_use' \in [Slots -> BOOLEAN] /\ aborted' \in BOOLEAN
    BY Zenon DEF release, IInv, TypeOK
  <2>2. in_use_count' \in 0 .. capacity
    <3>1. Cardinality(Used) # 0
      BY <1>0, UsedBound, FS_EmptySet, Zenon DEF Used
    <3> QED
      BY <3>1, UsedBound, Capacity DEF release, IInv, TypeOK, CountExact
  <2>3. next' \in [Slots -> Slots \cup {SIZE_MAX}]
    BY <1>2, <1>3 DEF IInv, TypeOK
  <2> QED
    BY <1>1, <2>1, <2>2, <2>3, Zenon DEF release, IInv, TypeOK
<1>6. FreeListOK'
  <2>1. head' = IF free' = <<>> THEN -1 ELSE free'[1]
    BY <1>1, Zenon DEF release
  <2>2. \A k \in 1 .. Len(free') : k = 1 \/ (k - 1 \in 1 .. Len(free) /\ free'[k] = free[k - 1])
    BY <1>1 DEF IInv, TypeOK
  <2>3. \A j, k \in 1 .. Len(free') : free'[j] = free'[k] => j = k
    <3> SUFFICES ASSUME NEW j \in 1 .. Len(free'), NEW k \in 1 .. Len(free'),
                        free'[j] = free'[k]
                 PROVE  j = k
      BY Zenon
    <3>1. CASE j = 1 \/ k = 1
      BY <1>0, <1>1, <2>2, <3>1
    <3>2. CASE j # 1 /\ k # 1
      <4>1. /\ j - 1 \in 1 .. Len(free) /\ k - 1 \in 1 .. Len(free)
            /\ free[j - 1] = free[k - 1]
        BY <2>2, <3>2, Zenon
      <4>2. j - 1 = k - 1
        BY <4>1, Zenon DEF IInv, FreeListOK
      <4> QED
        BY <1>1, <4>2
    <3> QED
      BY <3>1, <3>2, Zenon
  <2>4. \A k \in 1 .. Len(free') :
          next'[free'[k]] = IF k = Len(free') THEN SIZE_MAX ELSE free'[k + 1]
    <3> SUFFICES ASSUME NEW k \in 1 .. Len(free')
                 PROVE  next'[free'[k]] = IF k = Len(free') THEN SIZE_MAX ELSE free'[k + 1]
      BY Zenon
    <3>1. CASE k = 1
      BY <1>1, <1>2, <1>3, <3>1 DEF IInv, TypeOK
    <3>2. CASE k # 1
      <4>1. k - 1 \in 1 .. Len(free) /\ free'[k] = free[k - 1] /\ free[k - 1] # s
        BY <1>0, <2>2, <3>2, Zenon
      <4>2. next'[free'[k]] = next[free[k - 1]]
        BY <1>3, <4>1 DEF IInv, TypeOK
      <4>3. next[free[k - 1]]
              = IF k - 1 = Len(free) THEN SIZE_MAX ELSE free[(k - 1) + 1]
        BY <4>1, Zenon DEF IInv, FreeListOK
      <4>4. (k - 1) + 1 = k /\ (k - 1 = Len(free) <=> k = Len(free'))
        BY <1>1 DEF IInv, TypeOK
      <4>5. k # Len(free') => free'[k + 1] = free[k]
        BY <1>1, <3>2 DEF IInv, TypeOK
      <4> QED
        BY <4>2, <4>3, <4>4, <4>5, Zenon
    <3> QED
      BY <3>1, <3>2, Zenon
  <2>5. \A t \in Slots : ~ in_use'[t] <=> \E k \in 1 .. Len(free') : free'[k] = t
    <3> SUFFICES ASSUME NEW t \in Slots
                 PROVE  ~ in_use'[t] <=> \E k \in 1 .. Len(free') : free'[k] = t
      BY Zenon
    <3>1. CASE t = s
      <4>1. ~ in_use'[t]
        BY <3>1, Zenon DEF release, IInv, TypeOK
      <4> QED
        BY <1>1, <3>1, <4>1 DEF IInv, TypeOK
    <3>2. CASE t # s
      <4>1. in_use'[t] = in_use[t]
        BY <3>2, Zenon DEF release, IInv, TypeOK
      <4>2. (\E k \in 1 .. Len(free') : free'[k] = t) <=> \E k \in 1 .. Len(free) : free[k] = t
        <5>1. ASSUME NEW k \in 1 .. Len(free), free[k] = t
              PROVE  k + 1 \in 1 .. Len(free') /\ free'[k + 1] = t
          BY <1>1, <5>1 DEF IInv, TypeOK
        <5>2. ASSUME NEW k \in 1 .. Len(free'), free'[k] = t
              PROVE  k - 1 \in 1 .. Len(free) /\ free[k - 1] = t
          <6>1. k # 1
            BY <1>1, <3>2, <5>2, Zenon
          <6> QED
            BY <1>1, <5>2, <6>1, SMTT(40) DEF IInv, TypeOK
        <5> QED
          BY <5>1, <5>2, Zenon
      <4> QED
        BY <4>1, <4>2, Zenon DEF IInv, FreeListOK
    <3> QED
      BY <3>1, <3>2, Zenon
  <2> QED
    BY <2>1, <2>3, <2>4, <2>5, Zenon DEF FreeListOK
<1> QED
  BY <1>4, <1>5, <1>6, Zenon DEF IInv

-----------------------------------------------------------------------------
\* Every call preserves the invariant.
LEMMA InvNext == IInv /\ [Next]_vars => IInv'
<1> SUFFICES ASSUME IInv, [Next]_vars
             PROVE  IInv'
  BY Zenon
<1>1. CASE acquire
  BY <1>1, AcquirePreserves, Zenon
<1>2. CASE acquire_exhausted
  BY <1>2, Zenon DEF acquire_exhausted, IInv, TypeOK, FreeListOK, CountExact, Used
<1>3. ASSUME NEW s \in Slots, release(s)
      PROVE  IInv'
  BY <1>3, ReleasePreserves, Zenon
<1>4. ASSUME NEW s \in Slots, release_asserts(s)
      PROVE  IInv'
  BY <1>4, Zenon DEF release_asserts, IInv, TypeOK, FreeListOK, CountExact, Used
<1>5. ASSUME NEW s \in Slots, Write(s)
      PROVE  IInv'
  BY <1>5, Zenon DEF Write, IInv, TypeOK, FreeListOK, CountExact, Used
<1>6. CASE UNCHANGED vars
  BY <1>6, Zenon DEF vars, IInv, TypeOK, FreeListOK, CountExact, Used
<1> QED
  BY <1>1, <1>2, <1>3, <1>4, <1>5, <1>6, Zenon DEF Next

\* Every field keeps its type, and the head is a slot or the wrapped -1.
THEOREM TypeCorrect == Spec => []TypeOK
<1>1. IInv => TypeOK
  BY Zenon DEF IInv
<1> QED
  BY <1>1, InvInit, InvNext, PTL DEF Spec

\* The free list of mem_pool.h stays intact: it links exactly the slots not in
\* use, each once, after any sequence of calls.
THEOREM FreeListIntact == Spec => []FreeListOK
<1>1. IInv => FreeListOK
  BY Zenon DEF IInv
<1> QED
  BY <1>1, InvInit, InvNext, PTL DEF Spec

\* in_use_count_ counts the slots in use, so verify_no_leaks tells the truth.
THEOREM CountAlwaysExact == Spec => []CountExact
<1>1. IInv => CountExact
  BY Zenon DEF IInv
<1> QED
  BY <1>1, InvInit, InvNext, PTL DEF Spec

-----------------------------------------------------------------------------
\* A new pool is a pool nobody holds a slot of.
LEMMA RefineInit == Init => Pool!Init
BY Zenon DEF Init, Pool!Init

\* Every call of the pool is a call of the abstract pool.
LEMMA RefineNext == IInv /\ [Next]_vars => [Pool!Next]_Pool!vars
<1> SUFFICES ASSUME IInv, [Next]_vars
             PROVE  [Pool!Next]_Pool!vars
  BY Zenon
<1> DEFINE content == [s \in Slots |-> IF in_use[s] THEN data[s] ELSE "none"]
<1>0. \A s \in Slots : in_use[s] <=> content[s] # "none"
  BY Zenon DEF IInv, TypeOK
<1>1. CASE ~ aborted /\ acquire
  <2>1. head \in Slots /\ content[head] = "none"
    BY <1>1, HeadIsFree, Zenon DEF acquire
  <2>2. content' = [content EXCEPT ![head] = "zero"]
    BY <1>1, <2>1, Zenon DEF acquire, IInv, TypeOK
  <2>3. Pool!Acquire
    BY <1>1, <2>1, <2>2, Zenon DEF acquire, Pool!Acquire
  <2> QED
    BY <1>1, <2>3, Zenon DEF Pool!Next
<1>2. CASE ~ aborted /\ acquire_exhausted
  <2>1. \A s \in Slots : in_use[s]
    BY <1>2, UsedBound, Zenon DEF acquire_exhausted, IInv, CountExact, Used
  <2>2. Pool!Exhausted
    BY <1>0, <1>2, <2>1, Zenon DEF acquire_exhausted, Pool!Exhausted
  <2> QED
    BY <1>2, <2>2, Zenon DEF Pool!Next
<1>3. ASSUME ~ aborted, NEW s \in Slots, release(s)
      PROVE  Pool!Next
  <2>1. content' = [content EXCEPT ![s] = "none"]
    BY <1>3, Zenon DEF release, IInv, TypeOK
  <2>2. Pool!Release(s)
    BY <1>0, <1>3, <2>1, Zenon DEF release, Pool!Release
  <2> QED
    BY <1>3, <2>2, Zenon DEF Pool!Next
<1>4. ASSUME ~ aborted, NEW s \in Slots, release_asserts(s)
      PROVE  Pool!Next
  <2>1. Pool!DoubleRelease(s)
    BY <1>0, <1>4, Zenon DEF release_asserts, Pool!DoubleRelease
  <2> QED
    BY <1>4, <2>1, Zenon DEF Pool!Next
<1>5. ASSUME ~ aborted, NEW s \in Slots, Write(s)
      PROVE  Pool!Next
  <2>1. content' = [content EXCEPT ![s] = "user"]
    BY <1>5, Zenon DEF Write, IInv, TypeOK
  <2>2. Pool!Write(s)
    BY <1>0, <1>5, <2>1, Zenon DEF Write, Pool!Write
  <2> QED
    BY <1>5, <2>2, Zenon DEF Pool!Next
<1>6. CASE UNCHANGED vars
  BY <1>6, Zenon DEF vars, Pool!vars
<1> QED
  BY <1>1, <1>2, <1>3, <1>4, <1>5, <1>6, Zenon DEF Next

\* The free list implements SlotPool: no slot is handed out twice, none is
\* refused while one is free, and no call touches a slot somebody holds.
THEOREM PoolImplemented == Spec => ImplementsPool
BY RefineInit, RefineNext, InvInit, InvNext, PTL DEF Spec, ImplementsPool, Pool!Spec
=============================================================================
