---------------------------- MODULE JSWorkerPool ----------------------------
(***************************************************************************)
(* The JavaScript workers: src/js_engine.cc, src/workers/js_worker.cc and  *)
(* src/builtins/js_worker_js.cc.  The main thread's side is that of        *)
(* WorkerPool, function by function.  The thread differs: it first loads   *)
(* the worker script and ends at once when the script cannot be read,      *)
(* throws, or defines no process function; and a job may end in an error.  *)
(***************************************************************************)
EXTENDS WorkerPool

CONSTANT Scripts   \* what loading the worker script may come to

Failures == {"missing", "throws", "noprocess"}

ASSUME ScriptOutcomes == Scripts \subseteq Failures \cup {"ok"}

VARIABLE script    \* per worker, what loading its script came to

jsVars == <<vars, script>>

JSInit == InitAt("boot") /\ script = [w \in Workers |-> "unread"]

-----------------------------------------------------------------------------
(* The main thread.                                                        *)

js_dispatch == (Dispatch \/ DispatchFull) /\ UNCHANGED script
js_enqueue == EnqueuePost /\ UNCHANGED script
jsw_close == Close /\ UNCHANGED script
js_finalizer == (DropManager \/ FreeCallbackAndManager \/ TearDown) /\ UNCHANGED script
js_stop == (StopStore \/ StopPost \/ StopJoin) /\ UNCHANGED script
js_on_result == (DrainPop \/ FreeCallback) /\ UNCHANGED script
js_on_result_ready == (DrainEmpty \/ Account) /\ UNCHANGED script
js_ring(w) == Ring(w) /\ UNCHANGED script
js_delete(w) == DeleteWorker(w) /\ UNCHANGED script
js_loop == (JsReturn \/ OtherEvent \/ LoopExit \/ Interrupt) /\ UNCHANGED script

-----------------------------------------------------------------------------
(* JSWorker::run, on the thread of worker w.                               *)

\* Mutant: a job whose process call throws is dropped without a result.
ThrowDropsJob(w) ==
  /\ wk[w].pc = "push"
  /\ wk' = [wk EXCEPT ![w].pc = "wait", ![w].job = NoJob]
  /\ UNCHANGED <<mgr, main, refs, calls, others, interrupted, script>>

LoadScript(w) ==
  /\ wk[w].pc = "boot"
  /\ \E s \in Scripts :
       /\ script' = [script EXCEPT ![w] = s]
       /\ wk' = [wk EXCEPT ![w].pc = IF s = "ok" THEN "wait" ELSE "exited"]
  /\ UNCHANGED <<mgr, main, refs, calls, others, interrupted>>

\* process(input) throws: the error is pushed the way a result is.
ProcessThrows(w) == PushResult(w, TRUE) /\ UNCHANGED script

JSThread(w) ==
  \/ LoadScript(w)
  \/ Thread(w) /\ UNCHANGED script
  \/ ProcessThrows(w)

JSNext ==
  \/ js_dispatch \/ js_enqueue \/ jsw_close \/ js_finalizer \/ js_stop
  \/ js_on_result \/ js_on_result_ready \/ js_loop
  \/ Finished /\ UNCHANGED script
  \/ \E w \in Workers : js_ring(w) \/ js_delete(w) \/ JSThread(w)

JSSpec == JSInit /\ [][JSNext]_jsVars

JSFairSpec ==
  /\ JSSpec
  /\ WF_jsVars(MainStep /\ UNCHANGED script)
  /\ \A w \in Workers :
       WF_jsVars(JSThread(w)) /\ SF_jsVars(js_ring(w)) /\ SF_jsVars(js_delete(w))

-----------------------------------------------------------------------------
\* Each accepted job is answered if every script loads, an exception in
\* process included, unless the manager goes away first.
JSJobAnswered ==
  \A j \in Jobs : (js_get_progress(j) = "pending") ~>
    \/ js_get_progress(j) \in {"done", "error"}
    \/ ~ mgr.opaque
    \/ interrupted
    \/ \E w \in Workers : script[w] \in Failures
=============================================================================
