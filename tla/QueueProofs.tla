---------------------------- MODULE QueueProofs ----------------------------
(***************************************************************************)
(* Proofs about the two queues, for every ring size N > 1.  SPSCQueue, for *)
(* every set of items: the indices stay in the ring, the two threads never *)
(* touch one slot at once, and the ring implements BoundedFIFO.  WorkQueue *)
(* over such a FIFO, for any number of items: no item and no wakeup is     *)
(* lost.                                                                   *)
(***************************************************************************)
EXTENDS SPSCQueue, WorkQueue, SequenceTheorems, TLAPS

(***************************************************************************)
(* THE RING                                                                *)
(***************************************************************************)

(***************************************************************************)
(* The inductive invariant.  RingTypeOK and NoSlotRace say nothing of what a   *)
(* call under way has already learnt; the strengthening does: a push past  *)
(* its test still has a free slot, because only the consumer moves read_   *)
(* and only away from write_; a pop past its test still has an item; and   *)
(* what was stored or copied is still what the slot holds.                 *)
(***************************************************************************)
PushHasRoom == push_pc # "idle" => Advance(write) # read /\ item \in Items
PushStored  == push_pc = "publish" => buf[write] = item
PopHasItem  == pop_pc # "idle" => read # write
PopCopied   == pop_pc = "release" => out = buf[read]

RingInv == RingTypeOK /\ PushHasRoom /\ PushStored /\ PopHasItem /\ PopCopied

-----------------------------------------------------------------------------
\* The mask (i + 1) & (N - 1) steps to the next slot and wraps to slot 0.
LEMMA AdvanceStep ==
  ASSUME NEW i \in Slots
  PROVE  Advance(i) = IF i + 1 = N THEN 0 ELSE i + 1
BY RingSize DEF Advance, Slots

\* Advancing stays inside the ring.
LEMMA AdvanceInSlots ==
  ASSUME NEW i \in Slots
  PROVE  Advance(i) \in Slots
BY AdvanceStep, RingSize DEF Slots

\* RingInv holds when the queue has been constructed.
LEMMA RingInvInit == RingInit => RingInv
BY RingSize DEF RingInit, RingInv, RingTypeOK, PushHasRoom, PushStored, PopHasItem,
    PopCopied, Slots

\* RingInv is preserved by every step of push and pop.
LEMMA RingInvNext == RingInv /\ [RingNext]_ringVars => RingInv'
<1> USE DEF Slots
<1> SUFFICES ASSUME RingInv, [RingNext]_ringVars
             PROVE  RingInv'
  OBVIOUS
<1>0. Advance(write) \in Slots /\ Advance(read) \in Slots
  BY AdvanceInSlots DEF RingInv, RingTypeOK
<1>1. ASSUME NEW x \in Items, PushLoad(x)
      PROVE  RingInv'
  BY <1>1 DEF PushLoad, RingInv, RingTypeOK, PushHasRoom, PushStored, PopHasItem,
      PopCopied, consVars, prodVars
<1>2. CASE PushFull
  BY <1>2 DEF PushFull, RingInv, RingTypeOK, PushHasRoom, PushStored, PopHasItem,
      PopCopied, consVars, prodVars
<1>3. CASE PushStore
  BY <1>3 DEF PushStore, RingInv, RingTypeOK, PushHasRoom, PushStored, PopHasItem,
      PopCopied, consVars, prodVars
<1>4. CASE PushPublish
  BY <1>0, <1>4 DEF PushPublish, RingInv, RingTypeOK, PushHasRoom, PushStored,
      PopHasItem, PopCopied, consVars, prodVars
<1>5. CASE PopLoad
  BY <1>5 DEF PopLoad, RingInv, RingTypeOK, PushHasRoom, PushStored, PopHasItem,
      PopCopied, consVars, prodVars
<1>6. CASE PopEmpty
  BY <1>6 DEF PopEmpty, RingInv, RingTypeOK, PushHasRoom, PushStored, PopHasItem,
      PopCopied, consVars, prodVars
<1>7. CASE PopCopy
  BY <1>7 DEF PopCopy, RingInv, RingTypeOK, PushHasRoom, PushStored, PopHasItem,
      PopCopied, consVars, prodVars
<1>8. CASE PopRelease
  <2>1. push_pc # "idle" => Advance(write) # Advance(read)
    BY <1>8, AdvanceStep DEF PopRelease, RingInv, RingTypeOK, PopHasItem
  <2> QED
    BY <1>0, <1>8, <2>1 DEF PopRelease, RingInv, RingTypeOK, PushHasRoom, PushStored,
        PopHasItem, PopCopied, consVars, prodVars, Advance
<1>9. CASE UNCHANGED ringVars
  BY <1>9 DEF ringVars, RingInv, RingTypeOK, PushHasRoom, PushStored, PopHasItem,
      PopCopied, consVars, prodVars, Advance
<1> QED
  BY <1>1, <1>2, <1>3, <1>4, <1>5, <1>6, <1>7, <1>8, <1>9 DEF RingNext

\* The indices stay in the ring and every call is at one of its steps.
THEOREM RingTypeCorrect == RingSpec => []RingTypeOK
<1>1. RingInv => RingTypeOK
  BY DEF RingInv
<1> QED
  BY RingInvInit, RingInvNext, <1>1, PTL DEF RingSpec

\* push never writes the slot pop is reading, whatever the interleaving.
THEOREM SlotsNeverRace == RingSpec => []NoSlotRace
<1>1. RingInv => NoSlotRace
  BY DEF RingInv, PopHasItem, NoSlotRace
<1> QED
  BY RingInvInit, RingInvNext, <1>1, PTL DEF RingSpec

-----------------------------------------------------------------------------
(***************************************************************************)
(* The refinement.  push takes effect when it publishes write_, pop when   *)
(* it releases read_; a refusal takes effect at the load that causes it,   *)
(* and every other step leaves the published items alone.                  *)
(***************************************************************************)

ContentsOK ==
  /\ Count \in 0 .. N - 1
  /\ Contents \in Seq(Items \cup {NoItem})
  /\ Len(Contents) = Count
  /\ \A k \in 1 .. Count : Contents[k] = buf[Wrap(read + k - 1)]

\* The mapped queue is a sequence of Count <= N - 1 items.
LEMMA ContentsSeq == RingTypeOK => ContentsOK
<1> SUFFICES ASSUME RingTypeOK
             PROVE  ContentsOK
  OBVIOUS
<1>1. Count \in 0 .. N - 1
  BY RingSize DEF RingTypeOK, Slots, Count
<1>2. \A k \in 1 .. Count : Wrap(read + k - 1) \in Slots
  BY <1>1, RingSize DEF RingTypeOK, Slots, Count, Wrap
<1>3. \A k \in 1 .. Count : buf[Wrap(read + k - 1)] \in Items \cup {NoItem}
  BY <1>2 DEF RingTypeOK
<1>4. Contents \in [1 .. Count -> Items \cup {NoItem}]
  BY <1>3 DEF Contents
<1> QED
  BY <1>1, <1>4 DEF Contents, ContentsOK

\* The published items do not occupy the slot at write_.
LEMMA WriteSlotFree ==
  ASSUME RingTypeOK, NEW k \in 1 .. Count
  PROVE  Wrap(read + k - 1) # write
BY RingSize DEF RingTypeOK, Slots, Count, Wrap

\* A step that moves no index and writes at most the slot at write_ leaves
\* the mapped queue unchanged.
LEMMA ContentsUnchanged ==
  ASSUME RingTypeOK, RingTypeOK', UNCHANGED <<write, read>>,
         \A s \in Slots : s # write => buf'[s] = buf[s]
  PROVE  UNCHANGED Contents
<1>1. Count' = Count
  BY DEF Count
<1>2. \A k \in 1 .. Count : buf'[Wrap(read + k - 1)] = buf[Wrap(read + k - 1)]
  <2> TAKE k \in 1 .. Count
  <2>1. Wrap(read + k - 1) \in Slots
    BY RingSize DEF RingTypeOK, Slots, Count, Wrap
  <2> QED
    BY <2>1, WriteSlotFree
<1> QED
  BY <1>1, <1>2 DEF Contents, Wrap

\* A freshly constructed ring maps to the empty queue.
LEMMA RefineInit == RingInit => FIFO!Init
<1> SUFFICES ASSUME RingInit
             PROVE  Contents = <<>>
  BY DEF RingInit, FIFO!Init
<1>1. Count = 0
  BY RingSize DEF RingInit, Count
<1> QED
  BY <1>1 DEF Contents

\* The tail of a sequence by its elements.
LEMMA TailIs ==
  ASSUME NEW S, NEW s \in Seq(S), NEW t \in Seq(S), Len(s) > 0, Len(t) = Len(s) - 1,
         \A k \in 1 .. Len(s) - 1 : t[k] = s[k + 1]
  PROVE  t = Tail(s)
OBVIOUS

\* Every step of push and pop is a step of the bounded queue, or none.
LEMMA RefineNext == RingInv /\ RingInv' /\ [RingNext]_ringVars => [FIFO!Next]_(FIFO!fifoVars)
<1> SUFFICES ASSUME RingInv, RingInv', [RingNext]_ringVars
             PROVE  FIFO!Next \/ UNCHANGED <<Contents, pushed, popped>>
  BY DEF FIFO!fifoVars
<1>t. RingTypeOK /\ RingTypeOK'
  BY DEF RingInv
<1>c. ContentsOK /\ ContentsOK'
  BY <1>t, ContentsSeq, PTL
<1>1. ASSUME NEW x \in Items, PushLoad(x)
      PROVE  UNCHANGED <<Contents, pushed, popped>>
  BY <1>t, <1>1, ContentsUnchanged DEF PushLoad, consVars
<1>2. CASE PushFull
  <2>1. Len(Contents) = N - 1
    BY <1>2, <1>t, <1>c, AdvanceStep, RingSize DEF ContentsOK, PushFull, RingTypeOK,
        Slots, Count
  <2>2. UNCHANGED <<Contents, popped>>
    BY <1>t, <1>2, ContentsUnchanged DEF PushFull, consVars
  <2> QED
    BY <1>2, <2>1, <2>2 DEF PushFull, FIFO!Next, FIFO!PushFull
<1>3. CASE PushStore
  <2>1. \A s \in Slots : s # write => buf'[s] = buf[s]
    BY <1>3, <1>t DEF PushStore, RingTypeOK
  <2> QED
    BY <1>t, <1>3, <2>1, ContentsUnchanged DEF PushStore, consVars
<1>4. CASE PushPublish
  <2>0. /\ write' # read
        /\ read' = read
        /\ write' = IF write + 1 = N THEN 0 ELSE write + 1
    BY <1>4, <1>t, AdvanceStep DEF PushPublish, RingInv, PushHasRoom, RingTypeOK
  <2>1. Len(Contents) < N - 1 /\ Count' = Count + 1
    <3>1. Count < N - 1 /\ Count' = Count + 1
      BY <2>0, <1>t, RingSize DEF RingTypeOK, Slots, Count
    <3> QED
      BY <3>1, <1>c DEF ContentsOK
  <2>2. Wrap(read + Count) = write
    BY <1>t, RingSize DEF RingTypeOK, Slots, Count, Wrap
  <2>3. Contents' = Append(Contents, item)
    <3>1. Contents' \in Seq(Items \cup {NoItem}) /\ Len(Contents') = Count + 1
      BY <1>t, <2>1, <1>c DEF ContentsOK
    <3>2. \A k \in 1 .. Count + 1 : Contents'[k] = buf[Wrap(read + k - 1)]
      BY <1>4, <2>1 DEF PushPublish, Contents, Wrap
    <3>3. Contents'[Count + 1] = item
      BY <1>4, <1>t, <2>2, <3>2, <1>c DEF ContentsOK, PushPublish, RingInv, PushStored
    <3>4. \A k \in 1 .. Count : Contents'[k] = Contents[k]
      <4> TAKE k \in 1 .. Count
      <4>1. k \in 1 .. Count + 1
        BY <1>c DEF ContentsOK
      <4>2. Contents[k] = buf[Wrap(read + k - 1)]
        BY <1>c, Zenon DEF ContentsOK
      <4> QED
        BY <3>2, <4>1, <4>2, Zenon
    <3> QED
      BY <1>t, <3>1, <3>3, <3>4, <1>c DEF ContentsOK, RingTypeOK
  <2>4. item \in Items
    BY <1>4 DEF PushPublish, RingInv, PushHasRoom
  <2> QED
    BY <1>4, <2>1, <2>3, <2>4 DEF PushPublish, consVars, FIFO!Next, FIFO!Push
<1>5. CASE PopLoad
  BY <1>t, <1>5, ContentsUnchanged DEF PopLoad, prodVars
<1>6. CASE PopEmpty
  <2>1. Contents = <<>>
    BY <1>6, <1>t, <1>c, RingSize DEF ContentsOK, PopEmpty, RingTypeOK, Slots, Count
  <2>2. UNCHANGED <<Contents, pushed>>
    BY <1>t, <1>6, ContentsUnchanged DEF PopEmpty, prodVars
  <2> QED
    BY <1>6, <2>1, <2>2 DEF PopEmpty, FIFO!Next, FIFO!PopEmpty
<1>7. CASE PopCopy
  BY <1>t, <1>7, ContentsUnchanged DEF PopCopy, prodVars
<1>8. CASE PopRelease
  <2>0. /\ read # write
        /\ write' = write
        /\ read' = IF read + 1 = N THEN 0 ELSE read + 1
    BY <1>8, <1>t, AdvanceStep DEF PopRelease, RingInv, PopHasItem, RingTypeOK
  <2>1. Count > 0 /\ Count' = Count - 1
    BY <2>0, <1>t, RingSize DEF RingTypeOK, Slots, Count
  <2>2. Contents # <<>> /\ Head(Contents) = buf[read]
    BY <1>t, <2>1, <1>c, RingSize DEF ContentsOK, RingTypeOK, Slots, Wrap
  <2>3. Contents' = Tail(Contents)
    <3>1. Contents' \in Seq(Items \cup {NoItem}) /\ Len(Contents') = Count - 1
      BY <1>t, <2>1, <1>c DEF ContentsOK
    <3>2. \A k \in 1 .. Count - 1 : Wrap(Advance(read) + k - 1) = Wrap(read + (k + 1) - 1)
      <4>1. Advance(read) = IF read + 1 = N THEN 0 ELSE read + 1
        BY <1>t, AdvanceStep DEF RingTypeOK
      <4>2. read \in 0 .. N - 1 /\ Count \in 0 .. N - 1
        BY <1>t, <1>c DEF ContentsOK, RingTypeOK, Slots
      <4> QED
        BY <4>1, <4>2, RingSize DEF Wrap
    <3>3. \A k \in 1 .. Count - 1 : Contents'[k] = buf[Wrap(Advance(read) + k - 1)]
      BY <1>8, <2>1 DEF PopRelease, Contents, Wrap
    <3>4. \A k \in 1 .. Count - 1 : Contents'[k] = Contents[k + 1]
      <4> TAKE k \in 1 .. Count - 1
      <4>1. Contents'[k] = buf[Wrap(read + (k + 1) - 1)]
        BY <3>2, <3>3, Zenon
      <4>2. k + 1 \in 1 .. Count
        BY <1>c DEF ContentsOK
      <4>3. Contents[k + 1] = buf[Wrap(read + (k + 1) - 1)]
        BY <4>2, <1>c, Zenon DEF ContentsOK
      <4> QED
        BY <4>1, <4>3, Zenon
    <3>5. Len(Contents) = Count /\ Count \in Nat /\ Contents \in Seq(Items \cup {NoItem})
      BY <1>c DEF ContentsOK
    <3> QED
      BY <2>1, <3>1, <3>4, <3>5, TailIs
  <2> QED
    BY <1>8, <2>2, <2>3 DEF PopRelease, RingInv, PopCopied, prodVars, FIFO!Next, FIFO!Pop
<1>9. CASE UNCHANGED ringVars
  BY <1>t, <1>9, ContentsUnchanged DEF ringVars, prodVars, consVars
<1> QED
  BY <1>1, <1>2, <1>3, <1>4, <1>5, <1>6, <1>7, <1>8, <1>9 DEF RingNext

\* The ring of spsc_queue.h is a bounded FIFO queue of N - 1 items.
THEOREM RingImplementsFIFO == RingSpec => ImplementsFIFO
BY RingInvInit, RingInvNext, RefineInit, RefineNext, PTL DEF RingSpec, ImplementsFIFO,
    FIFO!Spec

(***************************************************************************)
(* THE WORK QUEUE                                                          *)
(***************************************************************************)

(***************************************************************************)
(* The inductive invariant balances the semaphore: its count, the post     *)
(* consumed by a dequeue under way and the post still owed by an enqueue   *)
(* under way add up to the items in the ring plus the post of stop().      *)
(* DequeueFindsItem does not follow from the balance once stop() has       *)
(* posted, so it is kept as a conjunct: it is established by the test of   *)
(* stopped_, before stop() can have posted.                                *)
(***************************************************************************)
Held      == IF cpc \in {"check", "pop"} THEN 1 ELSE 0
Owed      == IF ppc = "post" THEN 1 ELSE 0
StopPosts == IF ppc \in {"joining", "drained"} THEN 1 ELSE 0

SemBalance == cpc # "exited" => sem + Held + Owed = Len(queue) + StopPosts
FlagMatches == stopped <=> ppc \in {"stopping", "joining", "drained"}
ExitOnlyStopped == cpc = "exited" => stopped
DrainAfterExit == ppc = "drained" => cpc = "exited"

IInv ==
  /\ TypeOK
  /\ SemBalance
  /\ FlagMatches
  /\ ExitOnlyStopped
  /\ DrainAfterExit
  /\ DequeueFindsItem

-----------------------------------------------------------------------------
\* IInv holds when the queue has been constructed.
LEMMA InvInit == Init => IInv
<1> SUFFICES ASSUME Init
             PROVE  IInv
  OBVIOUS
<1>1. TypeOK
  <2>1. stopped \in BOOLEAN
    BY Zenon DEF Init
  <2>2. <<>> \in Seq(1 .. MaxItems) /\ Len(<<>>) = 0
    BY EmptySeq
  <2>3. sem \in Nat /\ accepted \in 0 .. MaxItems /\ Len(queue) <= N - 1
    BY <2>2, RingSize, ItemBound DEF Init
  <2> QED
    BY <2>1, <2>2, <2>3, Zenon DEF Init, TypeOK
<1>2. SemBalance /\ ExitOnlyStopped /\ DrainAfterExit /\ DequeueFindsItem
  BY EmptySeq DEF Init, SemBalance, ExitOnlyStopped, DrainAfterExit,
                  DequeueFindsItem, Held, Owed, StopPosts
<1>3. FlagMatches
  BY DEF Init, FlagMatches
<1> QED
  BY <1>1, <1>2, <1>3 DEF IInv

\* Every step keeps the variables in their types.
LEMMA TypeNext == IInv /\ [Next]_vars => TypeOK'
<1> SUFFICES ASSUME IInv, [Next]_vars
             PROVE  TypeOK'
  OBVIOUS
<1> USE RingSize, ItemBound DEF IInv, TypeOK
<1>1. CASE EnqueuePush
  BY <1>1, AppendProperties DEF EnqueuePush
<1>2. CASE EnqueuePost
  BY <1>2 DEF EnqueuePost, history
<1>3. CASE StopStore
  BY <1>3 DEF StopStore, history
<1>4. CASE StopPost
  BY <1>4 DEF StopPost, history
<1>5. CASE Drain
  BY <1>5, EmptySeq, ConcatProperties DEF Drain
<1>6. CASE DequeueWait
  BY <1>6 DEF DequeueWait, history
<1>7. CASE DequeueStopped
  BY <1>7 DEF DequeueStopped, ring, history
<1>8. CASE DequeueGo
  BY <1>8 DEF DequeueGo, ring, history
<1>9. CASE DequeuePop
  BY <1>9, HeadTailProperties, AppendProperties DEF DequeuePop, DequeueFindsItem
<1>10. CASE UNCHANGED vars
  BY <1>10 DEF vars, ring, history
<1> QED
  BY <1>1, <1>2, <1>3, <1>4, <1>5, <1>6, <1>7, <1>8, <1>9, <1>10
     DEF Next, Producer, Consumer, Finished

\* IInv is preserved by every step of the two threads.
LEMMA InvNext == IInv /\ [Next]_vars => IInv'
<1> SUFFICES ASSUME IInv, [Next]_vars
             PROVE  IInv'
  OBVIOUS
<1>t. TypeOK /\ TypeOK'
  BY TypeNext DEF IInv
<1>l. Len(queue) \in Nat /\ sem \in Nat
  BY <1>t DEF TypeOK
<1> USE DEF SemBalance, FlagMatches, ExitOnlyStopped, DrainAfterExit,
            DequeueFindsItem, Held, Owed, StopPosts
<1>1. CASE EnqueuePush
  <2>1. Len(queue') = Len(queue) + 1 /\ queue' # <<>>
    BY <1>1, <1>t DEF EnqueuePush, TypeOK
  <2> QED
    BY <1>1, <1>t, <1>l, <2>1 DEF IInv, EnqueuePush
<1>2. CASE EnqueuePost
  BY <1>2, <1>t, <1>l DEF IInv, EnqueuePost
<1>3. CASE StopStore
  BY <1>3, <1>t, <1>l DEF IInv, StopStore
<1>4. CASE StopPost
  BY <1>4, <1>t, <1>l DEF IInv, StopPost
<1>5. CASE Drain
  BY <1>5, <1>t, <1>l DEF IInv, Drain
<1>6. CASE DequeueWait
  BY <1>6, <1>t, <1>l DEF IInv, DequeueWait
<1>7. CASE DequeueStopped
  BY <1>7, <1>t, <1>l DEF IInv, DequeueStopped, ring
<1>8. CASE DequeueGo
  <2>1. Len(queue) > 0
    BY <1>8, <1>t, <1>l DEF IInv, DequeueGo
  <2> QED
    BY <1>8, <1>t, <1>l, <2>1 DEF IInv, DequeueGo, ring
<1>9. CASE DequeuePop
  <2>1. Len(queue') = Len(queue) - 1
    BY <1>9, <1>t DEF IInv, DequeuePop, TypeOK
  <2> QED
    BY <1>9, <1>t, <1>l, <2>1 DEF IInv, DequeuePop
<1>10. CASE UNCHANGED vars
  BY <1>10, <1>t DEF IInv, vars, ring
<1> QED
  BY <1>1, <1>2, <1>3, <1>4, <1>5, <1>6, <1>7, <1>8, <1>9, <1>10
     DEF Next, Producer, Consumer, Finished

\* The queue never holds more than its ring, and every variable has its type.
THEOREM TypeCorrect == Spec => []TypeOK
<1>1. IInv => TypeOK
  BY DEF IInv
<1> QED
  BY InvInit, InvNext, <1>1, PTL DEF Spec

\* The pop inside dequeue never fails.
THEOREM DequeueAlwaysFindsItem == Spec => []DequeueFindsItem
<1>1. IInv => DequeueFindsItem
  BY DEF IInv
<1> QED
  BY InvInit, InvNext, <1>1, PTL DEF Spec

\* The consumer never sleeps through an item that was enqueued.
THEOREM WakeupNeverLost == Spec => []NoLostWakeup
<1>1. IInv => NoLostWakeup
  <2> SUFFICES ASSUME IInv, cpc = "wait", sem = 0, queue # <<>>
               PROVE  ppc = "post"
    BY DEF NoLostWakeup
  <2>1. Len(queue) > 0
    BY EmptySeq DEF IInv, TypeOK
  <2> QED
    BY <2>1 DEF IInv, SemBalance, Held, Owed, StopPosts
<1> QED
  BY InvInit, InvNext, <1>1, PTL DEF Spec

-----------------------------------------------------------------------------
(***************************************************************************)
(* No item is lost, duplicated or reordered.  The history is only drained  *)
(* once the consumer has exited, so a pop and a drain never interleave.    *)
(***************************************************************************)
DrainedLast == cpc # "exited" => drained = <<>>

LossInv == NothingLost /\ DrainedLast

\* Concatenation is associative; the named formula keeps the provers from
\* rewriting it while they look for the set S.
Assoc(s, t, u) == (s \o t) \o u = s \o (t \o u)

\* Concatenation is associative.
LEMMA ConcatAssoc == \A S : \A s, t, u \in Seq(S) : Assoc(s, t, u)
BY ConcatAssociative, SMTT(40) DEF Assoc

\* Appending to the last part appends to the whole.
LEMMA ConcatAppend ==
  ASSUME NEW S, NEW s \in Seq(S), NEW t \in Seq(S), NEW e \in S
  PROVE  s \o Append(t, e) = Append(s \o t, e)
<1>1. <<e>> \in Seq(S) /\ s \o t \in Seq(S)
  BY ConcatProperties
<1>2. Append(t, e) = t \o <<e>>
  BY AppendIsConcat
<1>3. Append(s \o t, e) = (s \o t) \o <<e>>
  BY <1>1, AppendIsConcat
<1> QED
  BY <1>1, <1>2, <1>3, ConcatAssociative

\* The numbers 1 .. n, followed by n + 1.
LEMMA CountedAppend ==
  ASSUME NEW n \in Nat
  PROVE  Append([k \in 1 .. n |-> k], n + 1) = [k \in 1 .. n + 1 |-> k]
OBVIOUS

\* Moving the head of the second part to the end of the first changes nothing.
LEMMA ConcatHeadTail ==
  ASSUME NEW S, NEW s \in Seq(S), NEW t \in Seq(S), t # <<>>
  PROVE  Append(s, Head(t)) \o Tail(t) = s \o t
<1>1. Head(t) \in S /\ Tail(t) \in Seq(S)
  BY HeadTailProperties
<1>2. Append(s, Head(t)) = s \o <<Head(t)>>
  BY <1>1, AppendIsConcat
<1>3. <<Head(t)>> \in Seq(S) /\ <<Head(t)>> \o Tail(t) = t
  BY <1>1
<1> QED
  BY <1>1, <1>2, <1>3, ConcatAssociative

\* LossInv is preserved by every step of the two threads.
LEMMA LossNext == IInv /\ LossInv /\ [Next]_vars => LossInv'
<1> SUFFICES ASSUME IInv, LossInv, [Next]_vars
             PROVE  LossInv'
  OBVIOUS
<1>t. /\ queue \in Seq(Nat) /\ taken \in Seq(Nat) /\ drained \in Seq(Nat)
      /\ accepted \in Nat
  <2>1. 1 .. MaxItems \subseteq Nat
    BY ItemBound
  <2> QED
    BY <2>1, ItemBound DEF IInv, TypeOK
<1>1. CASE EnqueuePush
  <2>1. (taken \o drained) \o Append(queue, accepted + 1)
          = Append((taken \o drained) \o queue, accepted + 1)
    <3>1. taken \o drained \in Seq(Nat) /\ accepted + 1 \in Nat
      BY <1>t, ConcatProperties
    <3>2. \A s, t \in Seq(Nat), e \in Nat : s \o Append(t, e) = Append(s \o t, e)
      BY ConcatAppend, SMT
    <3> QED
      BY <1>t, <3>1, <3>2, Zenon
  <2>2. Append([k \in 1 .. accepted |-> k], accepted + 1) = [k \in 1 .. accepted + 1 |-> k]
    BY <1>t, CountedAppend, Zenon
  <2>3. NothingLost'
    BY <1>1, <2>1, <2>2, Zenon DEF EnqueuePush, LossInv, NothingLost
  <2>4. DrainedLast'
    BY <1>1, Zenon DEF EnqueuePush, LossInv, DrainedLast
  <2> QED
    BY <2>3, <2>4 DEF LossInv
<1>2. CASE Drain
  <2>1. (taken \o (drained \o queue)) \o <<>> = (taken \o drained) \o queue
    <3>1. taken \o (drained \o queue) = (taken \o drained) \o queue
      <4>1. Assoc(taken, drained, queue)
        BY <1>t, ConcatAssoc, Zenon
      <4> QED
        BY <4>1, Zenon DEF Assoc
    <3>2. (taken \o drained) \o queue \in Seq(Nat)
      <4>1. taken \o drained \in Seq(Nat)
        BY <1>t, ConcatProperties, Zenon
      <4> QED
        BY <1>t, <4>1, ConcatProperties, Zenon
    <3> QED
      BY <3>1, <3>2, ConcatEmptySeq, Zenon
  <2> QED
    BY <1>2, <2>1 DEF Drain, LossInv, NothingLost, DrainedLast
<1>3. CASE DequeuePop
  <2>1. drained = <<>> /\ queue # <<>>
    BY <1>3 DEF DequeuePop, IInv, DequeueFindsItem, LossInv, DrainedLast
  <2>2. (Append(taken, Head(queue)) \o <<>>) \o Tail(queue) = (taken \o <<>>) \o queue
    <3>1. Head(queue) \in Nat
      BY <1>t, <2>1, HeadTailProperties, Zenon
    <3>2. Append(taken, Head(queue)) \in Seq(Nat)
      BY <1>t, <3>1, AppendProperties, Zenon
    <3>3. Append(taken, Head(queue)) \o <<>> = Append(taken, Head(queue)) /\ taken \o <<>> = taken
      BY <1>t, <3>2, ConcatEmptySeq, Zenon
    <3>4. Append(taken, Head(queue)) \o Tail(queue) = taken \o queue
      BY <1>t, <2>1, ConcatHeadTail, Zenon
    <3> QED
      BY <3>3, <3>4, Zenon
  <2> QED
    BY <1>3, <2>1, <2>2, Zenon DEF DequeuePop, LossInv, NothingLost, DrainedLast
<1>4. CASE EnqueuePost \/ StopStore \/ StopPost
  BY <1>4 DEF EnqueuePost, StopStore, StopPost, history, LossInv, NothingLost, DrainedLast
<1>5. CASE DequeueWait \/ DequeueStopped \/ DequeueGo
  BY <1>5 DEF DequeueWait, DequeueStopped, DequeueGo, ring, history, LossInv,
      NothingLost, DrainedLast
<1>6. CASE UNCHANGED vars
  BY <1>6 DEF vars, ring, history, LossInv, NothingLost, DrainedLast
<1> QED
  BY <1>1, <1>2, <1>3, <1>4, <1>5, <1>6 DEF Next, Producer, Consumer, Finished

\* Every item enqueue accepted is handed out by dequeue or by drain, once and
\* in order, however stop() interleaves with the consumer.
THEOREM NothingEverLost == Spec => []NothingLost
<1>1. Init => LossInv
  BY DEF Init, LossInv, NothingLost, DrainedLast
<1>2. LossInv => NothingLost
  BY DEF LossInv
<1> QED
  BY InvInit, InvNext, LossNext, <1>1, <1>2, PTL DEF Spec
=============================================================================
