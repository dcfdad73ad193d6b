----------------------------- MODULE WorkQueue -----------------------------
(***************************************************************************)
(* include/work_queue.h: the job queue between the main thread (producer)  *)
(* and one worker thread (consumer).  The ring is the bounded FIFO that    *)
(* SPSCQueue is proved to implement; the semaphore and the stop flag are   *)
(* the code's own.  The consumer is the loop every caller of dequeue runs, *)
(* while (dequeue(job)) ..., and the producer ends the way every stop()    *)
(* of a worker does: stop the queue, join the thread, drain what is left.  *)
(***************************************************************************)
EXTENDS Ring, Naturals, Sequences

CONSTANT
  MaxItems    \* how many items the producer enqueues at most (a bound)

ASSUME ItemBound == MaxItems \in Nat

VARIABLES
  queue,      \* queue_, the items in the ring
  sem,        \* sem_, the semaphore's count
  stopped,    \* stopped_
  ppc,        \* where the producer is
  cpc,        \* where the consumer is
  accepted,   \* auxiliary: how many items enqueue has accepted
  taken,      \* auxiliary: the items dequeue has handed out
  drained     \* auxiliary: the items drain has handed to its fn

ring == <<queue, sem, stopped>>
history == <<accepted, taken, drained>>
vars == <<ring, ppc, cpc, history>>

Init ==
  /\ queue = <<>> /\ sem = 0 /\ stopped = FALSE
  /\ ppc = "idle" /\ cpc = "wait"
  /\ accepted = 0 /\ taken = <<>> /\ drained = <<>>

\* Mutants: a post too many, a post that is missing, a stop that wakes nobody, a
\* dequeue that takes an item off a stopped queue and drops it.
EnqueuePostTwice ==
  /\ ppc = "post"
  /\ sem' = sem + 2
  /\ ppc' = "idle"
  /\ UNCHANGED <<queue, stopped, cpc, history>>
EnqueuePostMissing ==
  /\ ppc = "post"
  /\ ppc' = "idle"
  /\ UNCHANGED <<ring, cpc, history>>
StopPostMissing ==
  /\ ppc = "stopping"
  /\ ppc' = "joining"
  /\ UNCHANGED <<ring, cpc, history>>
DequeueStoppedDrops ==
  /\ cpc = "check"
  /\ stopped
  /\ cpc' = "exited"
  /\ queue' = IF queue = <<>> THEN queue ELSE Tail(queue)
  /\ UNCHANGED <<sem, stopped, ppc, history>>

-----------------------------------------------------------------------------
\* enqueue: push, refused when the ring is full, then post.
EnqueuePush ==
  /\ ppc = "idle"
  /\ accepted < MaxItems
  /\ Len(queue) < N - 1
  /\ queue' = Append(queue, accepted + 1)
  /\ accepted' = accepted + 1
  /\ ppc' = "post"
  /\ UNCHANGED <<sem, stopped, cpc, taken, drained>>

EnqueuePost ==
  /\ ppc = "post"
  /\ sem' = sem + 1
  /\ ppc' = "idle"
  /\ UNCHANGED <<queue, stopped, cpc, history>>

\* dequeue: wait for the semaphore, look at the flag, pop.
DequeueWait ==
  /\ cpc = "wait"
  /\ sem > 0
  /\ sem' = sem - 1
  /\ cpc' = "check"
  /\ UNCHANGED <<queue, stopped, ppc, history>>

DequeueStopped ==
  /\ cpc = "check"
  /\ stopped
  /\ cpc' = "exited"
  /\ UNCHANGED <<ring, ppc, history>>

DequeueGo ==
  /\ cpc = "check"
  /\ ~ stopped
  /\ cpc' = "pop"
  /\ UNCHANGED <<ring, ppc, history>>

\* The pop itself: an item, or false, which ends the consumer's loop.
DequeuePop ==
  /\ cpc = "pop"
  /\ cpc' = IF queue # <<>> THEN "wait" ELSE "exited"
  /\ taken' = IF queue # <<>> THEN Append(taken, Head(queue)) ELSE taken
  /\ queue' = IF queue # <<>> THEN Tail(queue) ELSE queue
  /\ UNCHANGED <<sem, stopped, ppc, accepted, drained>>

\* stop: raise the flag, then wake the consumer.
StopStore ==
  /\ ppc = "idle"
  /\ stopped' = TRUE
  /\ ppc' = "stopping"
  /\ UNCHANGED <<queue, sem, cpc, history>>

StopPost ==
  /\ ppc = "stopping"
  /\ sem' = sem + 1
  /\ ppc' = "joining"
  /\ UNCHANGED <<queue, stopped, cpc, history>>

\* drain, once the consumer thread has been joined.
Drain ==
  /\ ppc = "joining"
  /\ cpc = "exited"
  /\ drained' = drained \o queue
  /\ queue' = <<>>
  /\ ppc' = "drained"
  /\ UNCHANGED <<sem, stopped, cpc, accepted, taken>>

\* The worker object is gone; nothing uses the queue any more.
Finished ==
  /\ ppc = "drained"
  /\ UNCHANGED vars

Producer == EnqueuePush \/ EnqueuePost \/ StopStore \/ StopPost \/ Drain
Consumer == DequeueWait \/ DequeueStopped \/ DequeueGo \/ DequeuePop
Next == Producer \/ Consumer \/ Finished

Spec == Init /\ [][Next]_vars

\* Both threads are scheduled: a call that has begun goes on, and the consumer
\* takes the step it can take.  The producer need never enqueue or stop.
Fairness ==
  /\ WF_vars(Consumer)
  /\ WF_vars(EnqueuePost)
  /\ WF_vars(StopPost)
  /\ WF_vars(Drain)

FairSpec == Spec /\ Fairness

-----------------------------------------------------------------------------
\* The variables have their types, and the ring holds no more than fits.
TypeOK ==
  /\ queue \in Seq(1 .. MaxItems)
  /\ Len(queue) <= N - 1
  /\ sem \in Nat
  /\ stopped \in BOOLEAN
  /\ ppc \in {"idle", "post", "stopping", "joining", "drained"}
  /\ cpc \in {"wait", "check", "pop", "exited"}
  /\ accepted \in 0 .. MaxItems
  /\ taken \in Seq(1 .. MaxItems)
  /\ drained \in Seq(1 .. MaxItems)

\* A dequeue that got past the semaphore and the flag finds an item: its pop
\* never returns false, even when stop() comes between the test of stopped_
\* and the pop, so the consumer's loop only ends because the queue was stopped.
DequeueFindsItem == cpc = "pop" => queue # <<>>

\* Every accepted item reaches the consumer or drain, once and in order: the
\* items handed out, then the items drained, then those still in the ring are
\* 1, 2, ..., accepted.
NothingLost == (taken \o drained) \o queue = [k \in 1 .. accepted |-> k]

\* The consumer never sleeps on a semaphore nobody will post while an item
\* waits for it.
NoLostWakeup ==
  (cpc = "wait" /\ sem = 0 /\ queue # <<>>) => ppc = "post"

\* Once stopped, the consumer exits, join returns and the queue is drained.
StopCompletes == stopped ~> ppc = "drained"
=============================================================================
