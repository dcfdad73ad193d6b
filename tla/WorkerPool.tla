----------------------------- MODULE WorkerPool -----------------------------
(***************************************************************************)
(* A manager and its worker threads: src/fib_engine.cc (the manager),      *)
(* src/workers/fib_worker.cc (a worker), src/builtins/fib_js.cc (the JS    *)
(* object) and the event loop of src/capy_main.cc that carries results     *)
(* back.  The main thread runs JavaScript, the loop and every callback;    *)
(* each worker thread runs one dequeue / compute / push / ring cycle.  The *)
(* two queues of a worker are the bounded FIFOs of SPSCQueue, and the      *)
(* semaphore protocol is that of WorkQueue.                                *)
(*                                                                         *)
(* A callback is identified with its job: refs counts the references the   *)
(* native side holds on it (JS_DupValue less JS_FreeValue), calls how      *)
(* often it has been called.                                               *)
(***************************************************************************)
EXTENDS Integers, Sequences, FiniteSets, Functions

CONSTANTS
  NWorkers,            \* worker_size
  QUEUE_DEPTH,         \* size of a worker's submission ring
  RESULT_QUEUE_DEPTH,  \* size of a worker's result ring
  MaxJobs,             \* how many times the script calls dispatch (a bound)
  DropInCallback       \* may the script drop its last reference to the
                       \* manager (or close an inference engine, which
                       \* deletes it too) inside a dispatch callback?

ASSUME PoolSize == NWorkers \in Nat /\ NWorkers > 0
ASSUME RingSizes ==
  /\ QUEUE_DEPTH \in Nat /\ QUEUE_DEPTH > 1
  /\ RESULT_QUEUE_DEPTH \in Nat /\ RESULT_QUEUE_DEPTH > 1
ASSUME JobBound == MaxJobs \in Nat

Workers == 0 .. NWorkers - 1
Jobs == 0 .. MaxJobs - 1
NoWorker == -1
NoJob == -1

VARIABLES
  mgr,          \* the manager: does the JS object still point to it (opaque),
                \* its life, its two counters and job_status_ ("unknown" where
                \* the map has no entry)
  main,         \* the main thread: where it is (pc), where js_close returns to
                \* (ret) and whether it runs for the finalizer (fin), the worker
                \* enqueue or js_close is busy with (tgt), what the running
                \* JavaScript was called for (frame), the worker whose
                \* on_result_ready runs (cur) and the job on_result handles (res)
  wk,           \* the workers: submission ring, semaphore and stop flag; result
                \* ring; the thread's pc and the job it has in hand; in_flight_;
                \* the doorbell: pending (bell), referenced (ref) and its life
  refs, calls,  \* per callback
  others,       \* does the script keep other handles active?
  interrupted   \* did a signal stop the loop?

vars == <<mgr, main, wk, refs, calls, others, interrupted>>

NewWorker(pc) ==
  [sub |-> <<>>, sem |-> 0, stopped |-> FALSE, results |-> <<>>, pc |-> pc, job |-> NoJob,
   in_flight |-> 0, bell |-> FALSE, ref |-> FALSE, handle |-> "open"]

\* The script has just constructed the manager: every worker has an
\* unreferenced doorbell and a thread that starts at pc.
InitAt(pc) ==
  /\ mgr = [opaque |-> TRUE, life |-> "open", next_job_id |-> 0, next_worker_idx |-> 0,
            job_status |-> [j \in Jobs |-> "unknown"]]
  /\ main = [pc |-> "js", ret |-> "js", fin |-> FALSE, tgt |-> 0, frame |-> "script",
             cur |-> NoWorker, res |-> NoJob]
  /\ wk = [w \in Workers |-> NewWorker(pc)]
  /\ refs = [j \in Jobs |-> 0]
  /\ calls = [j \in Jobs |-> 0]
  /\ others \in BOOLEAN
  /\ interrupted = FALSE

Init == InitAt("wait")

-----------------------------------------------------------------------------
(* Mutants of the operations below, each a slip the code could contain; no *)
(* specification uses them.                                                *)

\* stop() does not wake the thread, drains one queue only, or deletes the worker
\* itself instead of in the close callback.
StopPostMissing ==
  /\ main.pc = "stopPost"
  /\ main' = [main EXCEPT !.pc = "join"]
  /\ UNCHANGED <<mgr, wk, refs, calls, others, interrupted>>
QueuedJobsOnly(w) == Range(wk[w].sub)
StopWith(freed, left, handle) ==
  LET w == main.tgt  last == w + 1 \notin Workers IN
  /\ main.pc = "join" /\ wk[w].pc = "exited"
  /\ refs' = [j \in Jobs |-> IF j \in freed THEN refs[j] - 1 ELSE refs[j]]
  /\ wk' = [wk EXCEPT ![w].sub = <<>>, ![w].results = left, ![w].handle = handle]
  /\ main' = [main EXCEPT !.pc = IF last THEN main.ret ELSE "stop",
                          !.tgt = IF last THEN @ ELSE @ + 1]
  /\ mgr' = [mgr EXCEPT !.life = IF ~ last THEN @ ELSE IF main.fin THEN "deleted" ELSE "closed"]
  /\ UNCHANGED <<calls, others, interrupted>>
StopKeepsResults == StopWith(QueuedJobsOnly(main.tgt), wk[main.tgt].results, "closing")
StopDeletes ==
  StopWith(QueuedJobsOnly(main.tgt) \cup {r.job : r \in Range(wk[main.tgt].results)}, <<>>, "deleted")

\* close() also deletes the manager.
CloseDeletes ==
  /\ main.pc = "js" /\ mgr.opaque
  /\ mgr' = [mgr EXCEPT !.opaque = FALSE]
  /\ main' = [main EXCEPT !.pc = "stop", !.tgt = 0, !.ret = "js", !.fin = TRUE]
  /\ UNCHANGED <<wk, refs, calls, others, interrupted>>

\* on_result_ready takes one result per doorbell ("if" for "while").
AccountAndLeave ==
  /\ main.pc = "account"
  /\ wk' = [wk EXCEPT ![main.cur].in_flight = @ - 1,
                      ![main.cur].ref = @ /\ wk[main.cur].in_flight # 1]
  /\ main' = [main EXCEPT !.pc = "loop", !.cur = NoWorker]
  /\ UNCHANGED <<mgr, refs, calls, others, interrupted>>

\* on_result_ready tests the count before it decrements it.
AccountTooLate ==
  /\ main.pc = "account"
  /\ wk' = [wk EXCEPT ![main.cur].ref = @ /\ wk[main.cur].in_flight # 0,
                      ![main.cur].in_flight = @ - 1]
  /\ main' = [main EXCEPT !.pc = "drain"]
  /\ UNCHANGED <<mgr, refs, calls, others, interrupted>>

-----------------------------------------------------------------------------
(* JavaScript calling the manager.                                         *)

pick_worker == mgr.next_worker_idx % NWorkers

\* What every call of js_dispatch does: it takes an id and a worker and
\* duplicates the callback.
TakeJob ==
  /\ main.pc = "js" /\ mgr.opaque
  /\ mgr.next_job_id < MaxJobs
  /\ mgr' = [mgr EXCEPT !.next_job_id = @ + 1, !.next_worker_idx = @ + 1]
  /\ refs' = [refs EXCEPT ![mgr.next_job_id] = @ + 1]
  /\ UNCHANGED <<calls, others, interrupted>>

\* The picked worker's ring has room: the job is pushed, and the main thread
\* is now inside enqueue.
Dispatch ==
  /\ TakeJob
  /\ Len(wk[pick_worker].sub) < QUEUE_DEPTH - 1
  /\ wk' = [wk EXCEPT ![pick_worker].sub = Append(@, mgr.next_job_id)]
  /\ main' = [main EXCEPT !.pc = "post", !.tgt = pick_worker]

\* The ring is full: js_dispatch throws "queue full".  The id is used up and
\* the duplicated callback is nobody's.
DispatchFull ==
  /\ TakeJob
  /\ Len(wk[pick_worker].sub) = QUEUE_DEPTH - 1
  /\ UNCHANGED <<wk, main>>

\* The rest of enqueue and of js_dispatch: post the semaphore, reference the
\* doorbell for the first job in flight, record the job as pending.
EnqueuePost ==
  /\ main.pc = "post"
  /\ wk' = [wk EXCEPT ![main.tgt].sem = @ + 1, ![main.tgt].in_flight = @ + 1,
                      ![main.tgt].ref = @ \/ wk[main.tgt].in_flight = 0]
  /\ mgr' = [mgr EXCEPT !.job_status[mgr.next_job_id - 1] = "pending"]
  /\ main' = [main EXCEPT !.pc = "js"]
  /\ UNCHANGED <<refs, calls, others, interrupted>>

\* getProgressByWorkerId(j)
js_get_progress(j) == mgr.job_status[j]

\* close() clears the opaque pointer and stops the workers one by one; the
\* finalizer of an unreachable manager does the same and then deletes it.
StopAll(from, fin, res) ==
  /\ mgr.opaque
  /\ mgr' = [mgr EXCEPT !.opaque = FALSE]
  /\ main' = [main EXCEPT !.pc = "stop", !.tgt = 0, !.ret = from, !.fin = fin, !.res = res]
  /\ UNCHANGED <<wk, calls, others, interrupted>>

Close ==
  /\ main.pc = "js"
  /\ StopAll("js", FALSE, main.res)
  /\ UNCHANGED refs

\* The script's last reference to the manager goes away while it runs.
DropManager ==
  /\ main.pc = "js"
  /\ main.frame = "script" \/ DropInCallback
  /\ StopAll("js", TRUE, main.res)
  /\ UNCHANGED refs

\* The JavaScript that was running returns to its caller.
JsReturn ==
  /\ main.pc = "js"
  /\ main' = [main EXCEPT !.pc = IF main.frame = "script" THEN "loop" ELSE "free"]
  /\ UNCHANGED <<mgr, wk, refs, calls, others, interrupted>>

-----------------------------------------------------------------------------
(* js_close: stop() of each worker in turn.                                *)

StopStore ==
  /\ main.pc = "stop"
  /\ wk' = [wk EXCEPT ![main.tgt].stopped = TRUE]
  /\ main' = [main EXCEPT !.pc = "stopPost"]
  /\ UNCHANGED <<mgr, refs, calls, others, interrupted>>

StopPost ==
  /\ main.pc = "stopPost"
  /\ wk' = [wk EXCEPT ![main.tgt].sem = @ + 1]
  /\ main' = [main EXCEPT !.pc = "join"]
  /\ UNCHANGED <<mgr, refs, calls, others, interrupted>>

\* The jobs whose callbacks stop() finds in the two queues.
Queued(w) == Range(wk[w].sub) \cup {r.job : r \in Range(wk[w].results)}

\* The thread is joined; both queues are drained, each callback in them freed
\* uncalled, and the doorbell is closed.  After the last worker js_close
\* returns, and a finalizer deletes the manager.
StopJoin ==
  LET w == main.tgt  last == w + 1 \notin Workers IN
  /\ main.pc = "join"
  /\ wk[w].pc = "exited"
  /\ refs' = [j \in Jobs |-> IF j \in Queued(w) THEN refs[j] - 1 ELSE refs[j]]
  /\ wk' = [wk EXCEPT ![w].sub = <<>>, ![w].results = <<>>, ![w].handle = "closing"]
  /\ main' = [main EXCEPT !.pc = IF last THEN main.ret ELSE "stop",
                          !.tgt = IF last THEN @ ELSE @ + 1]
  /\ mgr' = [mgr EXCEPT !.life = IF ~ last THEN @ ELSE IF main.fin THEN "deleted" ELSE "closed"]
  /\ UNCHANGED <<calls, others, interrupted>>

-----------------------------------------------------------------------------
(* The event loop and on_result_ready.                                     *)

\* The loop finds the doorbell pending, clears it and calls on_result_ready.
\* One call answers any number of uv_async_send calls.
Ring(w) ==
  /\ main.pc = "loop"
  /\ wk[w].bell /\ wk[w].handle = "open"
  /\ wk' = [wk EXCEPT ![w].bell = FALSE]
  /\ main' = [main EXCEPT !.pc = "drain", !.cur = w]
  /\ UNCHANGED <<mgr, refs, calls, others, interrupted>>

\* on_result_ready pops a result; on_result settles the job's status and
\* calls the callback.
DrainPop ==
  LET r == Head(wk[main.cur].results) IN
  /\ main.pc = "drain"
  /\ wk[main.cur].results # <<>>
  /\ wk' = [wk EXCEPT ![main.cur].results = Tail(@)]
  /\ mgr' = [mgr EXCEPT !.job_status[r.job] = IF r.error THEN "error" ELSE "done"]
  /\ calls' = [calls EXCEPT ![r.job] = @ + 1]
  /\ main' = [main EXCEPT !.pc = "js", !.frame = "callback", !.res = r.job]
  /\ UNCHANGED <<refs, others, interrupted>>

DrainEmpty ==
  /\ main.pc = "drain"
  /\ wk[main.cur].results = <<>>
  /\ main' = [main EXCEPT !.pc = "loop", !.cur = NoWorker]
  /\ UNCHANGED <<mgr, wk, refs, calls, others, interrupted>>

\* The callback has returned: on_result frees what it passed and then the
\* callback, through the js_ctx_ of the manager.
FreeCallback ==
  /\ main.pc = "free"
  /\ refs' = [refs EXCEPT ![main.res] = @ - 1]
  /\ main' = [main EXCEPT !.pc = "account", !.res = NoJob]
  /\ UNCHANGED <<mgr, wk, calls, others, interrupted>>

\* As above, and the callback's closure held the last reference to the
\* manager: the finalizer runs inside the last JS_FreeValue of on_result.
FreeCallbackAndManager ==
  /\ main.pc = "free"
  /\ refs' = [refs EXCEPT ![main.res] = @ - 1]
  /\ StopAll("account", TRUE, NoJob)

\* on_result_ready takes the job off the count, and unreferences the
\* doorbell after the last one.
Account ==
  /\ main.pc = "account"
  /\ wk' = [wk EXCEPT ![main.cur].in_flight = @ - 1,
                      ![main.cur].ref = @ /\ wk[main.cur].in_flight # 1]
  /\ main' = [main EXCEPT !.pc = "drain"]
  /\ UNCHANGED <<mgr, refs, calls, others, interrupted>>

\* The loop runs the doorbell's close callback, which deletes the worker.
DeleteWorker(w) ==
  /\ main.pc = "loop"
  /\ wk[w].handle = "closing"
  /\ wk' = [wk EXCEPT ![w].handle = "deleted"]
  /\ UNCHANGED <<mgr, main, refs, calls, others, interrupted>>

\* A timer, request or file callback of the script; it may have been the last.
OtherEvent ==
  /\ main.pc = "loop" /\ others
  /\ others' \in BOOLEAN
  /\ main' = [main EXCEPT !.pc = "js", !.frame = "script"]
  /\ UNCHANGED <<mgr, wk, refs, calls, interrupted>>

\* uv_run goes on while a referenced handle is active or a handle is closing.
LoopAlive ==
  \/ others
  \/ \E w \in Workers : wk[w].handle = "closing" \/ (wk[w].handle = "open" /\ wk[w].ref)

LoopExit ==
  /\ main.pc = "loop" /\ ~ LoopAlive
  /\ main' = [main EXCEPT !.pc = "exit"]
  /\ UNCHANGED <<mgr, wk, refs, calls, others, interrupted>>

\* SIGINT stops the loop while a server (one of the others) is running.
Interrupt ==
  /\ main.pc = "loop" /\ others
  /\ main' = [main EXCEPT !.pc = "exit"]
  /\ interrupted' = TRUE
  /\ UNCHANGED <<mgr, wk, refs, calls, others>>

\* tear_down frees the JS context, and with it a manager never closed.
TearDown ==
  /\ main.pc = "exit"
  /\ \/ StopAll("end", TRUE, main.res)
     \/ /\ ~ mgr.opaque
        /\ main' = [main EXCEPT !.pc = "end"]
        /\ UNCHANGED <<mgr, wk, calls, others, interrupted>>
  /\ UNCHANGED refs

-----------------------------------------------------------------------------
(* FibonacciWorker::run, on the thread of worker w.                        *)

Wait(w) ==
  /\ wk[w].pc = "wait"
  /\ wk[w].sem > 0
  /\ wk' = [wk EXCEPT ![w].sem = @ - 1, ![w].pc = "check"]
  /\ UNCHANGED <<mgr, main, refs, calls, others, interrupted>>

CheckStopped(w) ==
  /\ wk[w].pc = "check"
  /\ wk' = [wk EXCEPT ![w].pc = IF wk[w].stopped THEN "exited" ELSE "pop"]
  /\ UNCHANGED <<mgr, main, refs, calls, others, interrupted>>

Pop(w) ==
  LET found == wk[w].sub # <<>> IN
  /\ wk[w].pc = "pop"
  /\ wk' = [wk EXCEPT ![w].pc = IF found THEN "push" ELSE "exited",
                      ![w].job = IF found THEN Head(wk[w].sub) ELSE @,
                      ![w].sub = IF found THEN Tail(@) ELSE @]
  /\ UNCHANGED <<mgr, main, refs, calls, others, interrupted>>

\* The computed result is pushed; the thread spins while the ring is full.
PushResult(w, error) ==
  /\ wk[w].pc = "push"
  /\ Len(wk[w].results) < RESULT_QUEUE_DEPTH - 1
  /\ wk' = [wk EXCEPT ![w].results = Append(@, [job |-> wk[w].job, error |-> error]),
                      ![w].pc = "send", ![w].job = NoJob]
  /\ UNCHANGED <<mgr, main, refs, calls, others, interrupted>>

Spinning(w) == wk[w].pc = "push" /\ Len(wk[w].results) = RESULT_QUEUE_DEPTH - 1
Spin(w) == Spinning(w) /\ UNCHANGED vars

Send(w) ==
  /\ wk[w].pc = "send"
  /\ wk' = [wk EXCEPT ![w].bell = TRUE, ![w].pc = "wait"]
  /\ UNCHANGED <<mgr, main, refs, calls, others, interrupted>>

Thread(w) ==
  \/ Wait(w)
  \/ CheckStopped(w)
  \/ Pop(w)
  \/ PushResult(w, FALSE)
  \/ Spin(w)
  \/ Send(w)

-----------------------------------------------------------------------------
\* What the main thread does when it is not waiting for the script or for an
\* event: the straight-line code of the functions above.
MainStep ==
  \/ EnqueuePost \/ JsReturn
  \/ StopStore \/ StopPost \/ StopJoin
  \/ DrainPop \/ DrainEmpty \/ FreeCallback \/ Account
  \/ LoopExit \/ TearDown

Main ==
  \/ Dispatch \/ DispatchFull \/ Close \/ DropManager
  \/ FreeCallbackAndManager
  \/ OtherEvent \/ Interrupt
  \/ \E w \in Workers : Ring(w) \/ DeleteWorker(w)
  \/ MainStep

\* The process has ended.
Finished ==
  /\ main.pc = "end"
  /\ UNCHANGED vars

Next == Main \/ Finished \/ \E w \in Workers : Thread(w)

Spec == Init /\ [][Next]_vars

\* Threads are scheduled, native code goes on, and the script's functions
\* return.  An iteration of uv_run serves every handle that is ready, so a
\* doorbell or close callback that keeps becoming ready is served: strong
\* fairness, because the loop is left and entered again in between.
MainFairness ==
  /\ WF_vars(MainStep)
  /\ \A w \in Workers : SF_vars(Ring(w)) /\ SF_vars(DeleteWorker(w))

FairSpec == Spec /\ MainFairness /\ \A w \in Workers : WF_vars(Thread(w))
-----------------------------------------------------------------------------
\* Every variable has its type, no ring is overfull, and a doorbell's count of
\* jobs is never negative.
TypeOK ==
  /\ mgr \in [opaque : BOOLEAN, life : {"open", "closed", "deleted"},
              next_job_id : 0 .. MaxJobs, next_worker_idx : 0 .. MaxJobs,
              job_status : [Jobs -> {"unknown", "pending", "done", "error"}]]
  /\ main \in [pc : {"js", "post", "stop", "stopPost", "join", "loop", "drain", "free",
                     "account", "exit", "end"},
               ret : {"js", "account", "end"}, fin : BOOLEAN, tgt : Workers,
               frame : {"script", "callback"}, cur : Workers \cup {NoWorker},
               res : Jobs \cup {NoJob}]
  /\ wk \in [Workers ->
       [sub : Seq(Jobs), sem : Nat, stopped : BOOLEAN,
        results : Seq([job : Jobs, error : BOOLEAN]),
        pc : {"boot", "wait", "check", "pop", "push", "send", "exited"},
        job : Jobs \cup {NoJob}, in_flight : Nat, bell : BOOLEAN, ref : BOOLEAN,
        handle : {"open", "closing", "deleted"}]]
  /\ \A w \in Workers : /\ Len(wk[w].sub) < QUEUE_DEPTH
                        /\ Len(wk[w].results) < RESULT_QUEUE_DEPTH
  /\ refs \in [Jobs -> Int]
  /\ calls \in [Jobs -> Nat]
  /\ others \in BOOLEAN
  /\ interrupted \in BOOLEAN

\* Where the reference to job j's callback is: in a ring, in a worker thread's
\* hands, or in on_result.
Holders(j) ==
  {<<"sub", w>> : w \in {v \in Workers : j \in Range(wk[v].sub)}} \cup
  {<<"thread", w>> : w \in {v \in Workers : wk[v].job = j}} \cup
  {<<"results", w>> : w \in {v \in Workers : \E r \in Range(wk[v].results) : r.job = j}} \cup
  (IF main.res = j THEN {<<"main", main.cur>>} ELSE {})

\* The callback of an accepted job is owned by exactly one of them until it is
\* freed, by on_result or by stop(), and it is freed once: a reference is
\* neither leaked nor freed twice, even when close() runs inside a callback.
CallbackOwnedOnce ==
  \A j \in Jobs : js_get_progress(j) # "unknown" =>
    refs[j] = Cardinality(Holders(j)) /\ refs[j] \in {0, 1}

\* Once close() has begun, no pending callback is called any more
\* ("JS callbacks in flight are freed without being called").
CloseSilences == [][~ mgr.opaque => calls' = calls]_vars

\* The jobs of worker w that have been accepted and not yet accounted for.
Outstanding(w) ==
  Len(wk[w].sub) + Len(wk[w].results)
    + (IF wk[w].job # NoJob THEN 1 ELSE 0)
    + (IF main.cur = w /\ (main.res # NoJob \/ "account" \in {main.pc, main.ret}) THEN 1 ELSE 0)
    - (IF main.pc = "post" /\ main.tgt = w THEN 1 ELSE 0)

\* While its doorbell is open, in_flight_ counts the outstanding jobs and the
\* doorbell is referenced exactly when there are any: the loop neither ends
\* under a job nor is kept alive by none.
DoorbellCounts ==
  \A w \in Workers : wk[w].handle = "open" =>
    /\ wk[w].in_flight = Outstanding(w)
    /\ wk[w].ref <=> wk[w].in_flight > 0

\* A result waiting in a ring has a wakeup on its way: the doorbell is pending,
\* the worker is about to ring it, or on_result_ready is running.
NoLostResult ==
  \A w \in Workers : (wk[w].results # <<>> /\ wk[w].handle = "open") =>
    wk[w].bell \/ wk[w].pc = "send" \/ main.cur = w

\* A deleted worker is used no more: its thread has ended, js_close and enqueue
\* are not at it, and on_result_ready, which goes on with the worker's ring and
\* in_flight_ after a callback that has called close(), is not on the stack.
NoUseOfDeletedWorker ==
  \A w \in Workers : wk[w].handle = "deleted" =>
    /\ wk[w].pc = "exited"
    /\ main.cur # w
    /\ main.pc \in {"post", "stop", "stopPost", "join"} => main.tgt # w

\* The manager's members are not used once it has been deleted: on_result,
\* which reads js_ctx_ after the callback has returned, is not running.  The
\* finalizer calls this "safe, we're on the main thread".
NoUseOfDeletedManager ==
  mgr.life = "deleted" =>
    /\ main.pc # "free"
    /\ main.pc = "drain" => wk[main.cur].results = <<>>

-----------------------------------------------------------------------------
Closing == main.pc \in {"stop", "stopPost", "join"}

\* close() returns whenever what each worker still holds fits its result ring.
CloseReturnsWhenRoom ==
  (Closing /\ \A w \in Workers : Outstanding(w) < RESULT_QUEUE_DEPTH) ~> ~ Closing

\* The documentation of close(): it "joins all worker threads, drains pending
\* queues, and frees JS callbacks before returning", so it does return.
CloseReturns == Closing ~> ~ Closing

\* Once the script has nothing else to wait for the process ends by itself, unless
\* a close() waits for a worker that waits for room.
ProcessEnds ==
  (~ others) ~> \/ main.pc = "end"
                \/ main.pc = "join" /\ Spinning(main.tgt)
=============================================================================
