----------------------------- MODULE PoolState -----------------------------
(***************************************************************************)
(* What the proofs about the pools of workers share: the states of the     *)
(* manager and of the main thread, what the place of the main thread says, *)
(* and the accounting of callbacks.                                        *)
(***************************************************************************)
EXTENDS WorkerPool

ManagerState ==
  [opaque : BOOLEAN, life : {"open", "closed", "deleted"}, next_job_id : Nat,
   next_worker_idx : Nat, job_status : [Jobs -> {"unknown", "pending", "done", "error"}]]

MainState ==
  [pc : {"js", "post", "stop", "stopPost", "join", "loop", "drain", "free", "account",
         "exit", "end"},
   ret : {"js", "account", "end"}, fin : BOOLEAN, tgt : Workers,
   frame : {"script", "callback"}, cur : Workers \cup {NoWorker}, res : Jobs \cup {NoJob}]

\* Where the main thread is, or returns to: enqueue and js_close return.
At == IF Closing THEN main.ret ELSE IF main.pc = "post" THEN "js" ELSE main.pc

\* Which worker's result on_result_ready is handling, and whether it is in hand.
PlaceOK ==
  /\ At \in {"loop", "exit", "end"} => main.cur = NoWorker /\ main.res = NoJob
  /\ (At = "js" /\ main.frame = "script") => main.cur = NoWorker /\ main.res = NoJob
  /\ (At = "js" /\ main.frame = "callback") => main.cur \in Workers /\ main.res # NoJob
  /\ At = "free" => main.cur \in Workers /\ main.res # NoJob
  /\ At \in {"drain", "account"} => main.cur \in Workers /\ main.res = NoJob

\* js_close runs at most once, and what it was called from.
CloseOK ==
  /\ Closing => ~ mgr.opaque
  /\ mgr.opaque => main.ret = "js"

\* stop() of worker w has returned.
Stopped(w) == ~ mgr.opaque /\ (Closing => w < main.tgt)

\* The worker's thread has ended, and nothing is left in its result ring.
Silent(w) == wk[w].pc = "exited" /\ wk[w].results = <<>>

\* The job that enqueue has queued and not yet counted.
PostShare(m, w) == IF m.pc = "post" /\ m.tgt = w THEN 1 ELSE 0

-----------------------------------------------------------------------------
(* Who owns a callback.                                                    *)

\* H gives the jobs each worker has, m is the one the main thread has.
Held(H, m) == {j \in Jobs : j = m \/ \E w \in Workers : j \in H[w]}

\* A job is in one place at a time; while it is in one its callback has one
\* reference, and a job that was accepted has none afterwards.  Jobs that are yet
\* to be given out have neither.
Owned(H, m, next, status, rc) ==
  /\ \A v, w \in Workers : v # w => H[v] \cap H[w] = {}
  /\ \A w \in Workers : m \notin H[w]
  /\ \A j \in Held(H, m) : rc[j] = 1 /\ j < next
  /\ \A j \in Jobs \ Held(H, m) : status[j] # "unknown" => rc[j] = 0
  /\ \A j \in Jobs : j >= next => rc[j] = 0 /\ status[j] = "unknown"

Holding == [Workers -> SUBSET Jobs]
=============================================================================
