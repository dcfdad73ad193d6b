--------------------------- MODULE InferencePool ----------------------------
(***************************************************************************)
(* The inference engine: src/inference_engine.cc,                          *)
(* src/workers/inference_worker.cc and src/builtins/inference_js.cc.  It   *)
(* differs from WorkerPool in that a job has a stream of results, one per  *)
(* token, which share the job's callback: only the last one (is_done)      *)
(* ends the job.  close() deletes the manager, after it has freed the      *)
(* models that the threads use.                                            *)
(*                                                                         *)
(* One model class stands for all of them: classes share nothing but the   *)
(* queues.  A dispatch that names an unknown class throws before it        *)
(* changes anything.  The text of a token, the sampler and the cached      *)
(* contexts are data.                                                      *)
(***************************************************************************)
EXTENDS WorkerPool

CONSTANT TOKEN_GEN_MAX   \* the longest stream

ASSUME StreamBound == TOKEN_GEN_MAX \in Nat /\ TOKEN_GEN_MAX > 0

VARIABLES
  models,    \* "loaded", or "freed" by js_close
  gen,       \* per worker, the tokens of the current job pushed so far
  is_done    \* is the result that on_result handles the last of its job?

own == <<models, gen, is_done>>
infVars == <<vars, own>>

InfInit ==
  /\ Init
  /\ models = "loaded"
  /\ gen = [w \in Workers |-> 0]
  /\ is_done = FALSE

-----------------------------------------------------------------------------
(* InferenceWorker::run and run_inference, on the thread of worker w.      *)

\* A result is pushed once the ring has room for it, and the doorbell will be
\* rung; after the last one the thread has done with the job.
PushToken(w, error, last) ==
  /\ wk[w].pc = "push"
  /\ Len(wk[w].results) < RESULT_QUEUE_DEPTH - 1
  /\ wk' = [wk EXCEPT
       ![w].results = Append(@, [job |-> wk[w].job, error |-> error, is_done |-> last]),
       ![w].pc = "send",
       ![w].job = IF last THEN NoJob ELSE @]
  /\ gen' = [gen EXCEPT ![w] = IF last THEN 0 ELSE @ + 1]
  /\ UNCHANGED <<mgr, main, refs, calls, others, interrupted, models, is_done>>

\* No context for the model, or the prompt cannot be tokenized or evaluated:
\* one result, an error, is the whole stream.
send_error(w) == gen[w] = 0 /\ PushToken(w, TRUE, TRUE)

\* The next token; an end-of-generation token or the TOKEN_GEN_MAX-th is last.
Token(w) ==
  \E is_eog \in BOOLEAN : PushToken(w, FALSE, is_eog \/ gen[w] = TOKEN_GEN_MAX - 1)

\* Mutant: a decode that fails ends the stream without a last result.
DecodeFailsSilently(w) ==
  /\ wk[w].pc = "push" /\ gen[w] > 0
  /\ wk' = [wk EXCEPT ![w].pc = "wait", ![w].job = NoJob]
  /\ gen' = [gen EXCEPT ![w] = 0]
  /\ UNCHANGED <<mgr, main, refs, calls, others, interrupted, models, is_done>>

\* Decoding a token that was not last fails: the loop is left, and an empty
\* last result is sent (sent_done is false).
DecodeFails(w) == gen[w] > 0 /\ PushToken(w, FALSE, TRUE)

\* uv_async_send; the thread goes on with the stream or dequeues.
SendToken(w) ==
  /\ wk[w].pc = "send"
  /\ wk' = [wk EXCEPT ![w].bell = TRUE,
                      ![w].pc = IF wk[w].job = NoJob THEN "wait" ELSE "push"]
  /\ UNCHANGED <<mgr, main, refs, calls, others, interrupted, own>>

InfThread(w) ==
  \/ (Wait(w) \/ CheckStopped(w) \/ Pop(w) \/ Spin(w)) /\ UNCHANGED own
  \/ send_error(w) \/ Token(w) \/ DecodeFails(w)
  \/ SendToken(w)

-----------------------------------------------------------------------------
(* The script's calls, and stop() of each worker.                          *)

do_inference == (Dispatch \/ DispatchFull) /\ UNCHANGED own
inf_enqueue == EnqueuePost /\ UNCHANGED own

\* Mutant: js_close frees the models before it stops the workers.
CloseFreesModelsFirst ==
  /\ DropManager
  /\ models' = "freed"
  /\ UNCHANGED <<gen, is_done>>

\* close() and the finalizer do the same: js_close, then delete the manager.
inf_close == DropManager /\ UNCHANGED own

inf_stop == (StopStore \/ StopPost) /\ UNCHANGED own

\* The jobs that draining the ring of worker w leaves in mid_stream: a result
\* puts its job in, a later last result takes it out.
MidStream(w) ==
  LET r == wk[w].results IN
  {r[i].job : i \in {k \in DOMAIN r : ~ r[k].is_done /\ \A l \in k .. Len(r) :
                       r[l].job = r[k].job => ~ r[l].is_done}}

\* Mutant: every drained result frees its callback.
FreedPerResult(w, j) ==
  (IF j \in Range(wk[w].sub) THEN 1 ELSE 0)
    + Cardinality({i \in DOMAIN wk[w].results : wk[w].results[i].job = j})

\* How often stop() frees the callback of job j: as an item of the submission
\* queue, for each last result in the result queue, and once if cut off.
Freed(w, j) ==
  (IF j \in Range(wk[w].sub) THEN 1 ELSE 0)
    + Cardinality({i \in DOMAIN wk[w].results :
                     wk[w].results[i].job = j /\ wk[w].results[i].is_done})
    + (IF j \in MidStream(w) THEN 1 ELSE 0)

\* The thread is joined, both queues are drained and the doorbell is closed;
\* after the last worker js_close frees the models, and the manager goes.
inf_join ==
  LET w == main.tgt  last == w + 1 \notin Workers IN
  /\ main.pc = "join"
  /\ wk[w].pc = "exited"
  /\ refs' = [j \in Jobs |-> refs[j] - Freed(w, j)]
  /\ wk' = [wk EXCEPT ![w].sub = <<>>, ![w].results = <<>>, ![w].handle = "closing"]
  /\ main' = [main EXCEPT !.pc = IF last THEN main.ret ELSE "stop",
                          !.tgt = IF last THEN @ ELSE @ + 1]
  /\ mgr' = [mgr EXCEPT !.life = IF last THEN "deleted" ELSE @]
  /\ models' = IF last THEN "freed" ELSE models
  /\ UNCHANGED <<calls, others, interrupted, gen, is_done>>

-----------------------------------------------------------------------------
(* on_result_ready and on_result.                                          *)

\* A result is popped; its first one already settles the job's status.
inf_pop ==
  /\ DrainPop
  /\ is_done' = Head(wk[main.cur].results).is_done
  /\ UNCHANGED <<models, gen>>

inf_empty == DrainEmpty /\ UNCHANGED own

\* Mutant: each token is taken off the count of jobs.
TokenReturnedCounts ==
  /\ main.pc = "free" /\ ~ is_done
  /\ main' = [main EXCEPT !.pc = "account", !.res = NoJob]
  /\ UNCHANGED <<mgr, wk, refs, calls, others, interrupted, own>>

\* The callback has returned from a token that was not the last: on_result
\* keeps the callback, and on_result_ready the count.
TokenReturned ==
  /\ main.pc = "free" /\ ~ is_done
  /\ main' = [main EXCEPT !.pc = "drain", !.res = NoJob]
  /\ UNCHANGED <<mgr, wk, refs, calls, others, interrupted, own>>

\* It has returned from the last one: the callback is freed, perhaps with the
\* last reference to the manager, and the job is taken off the count.
LastReturned == is_done /\ FreeCallback /\ UNCHANGED own
LastReturnedDrops == is_done /\ FreeCallbackAndManager /\ UNCHANGED own
inf_account == Account /\ UNCHANGED own

inf_loop == (JsReturn \/ LoopExit \/ TearDown) /\ UNCHANGED own
inf_event == (OtherEvent \/ Interrupt) /\ UNCHANGED own
inf_ring(w) == Ring(w) /\ UNCHANGED own
inf_delete(w) == DeleteWorker(w) /\ UNCHANGED own

-----------------------------------------------------------------------------
InfMainStep ==
  \/ inf_enqueue \/ inf_stop \/ inf_join
  \/ inf_pop \/ inf_empty \/ TokenReturned \/ LastReturned \/ inf_account
  \/ inf_loop

InfNext ==
  \/ do_inference \/ inf_close \/ LastReturnedDrops \/ inf_event
  \/ InfMainStep
  \/ Finished /\ UNCHANGED own
  \/ \E w \in Workers : inf_ring(w) \/ inf_delete(w) \/ InfThread(w)

InfSpec == InfInit /\ [][InfNext]_infVars

\* As in WorkerPool native code goes on, the threads are scheduled, and the loop
\* serves a doorbell that keeps becoming ready.  StreamEnds needs no more.
InfFairSpec ==
  /\ InfSpec
  /\ WF_infVars(InfMainStep)
  /\ \A w \in Workers : WF_infVars(InfThread(w)) /\ SF_infVars(inf_ring(w))

-----------------------------------------------------------------------------
\* Where the reference to job j's callback is: with the job in the submission
\* queue, with the thread until it has pushed the last result, with that
\* result in the ring, or with on_result handling it.
StreamHolders(j) ==
  {<<"sub", w>> : w \in {v \in Workers : j \in Range(wk[v].sub)}} \cup
  {<<"thread", w>> : w \in {v \in Workers : wk[v].job = j}} \cup
  {<<"last", w>> : w \in {v \in Workers :
     \E r \in Range(wk[v].results) : r.job = j /\ r.is_done}} \cup
  (IF main.res = j /\ is_done THEN {<<"main", main.cur>>} ELSE {})

\* However many results share a callback, it is freed once: it is held by one
\* of them until on_result or stop() frees it ("free exactly once per job"),
\* and it is still held whenever on_result calls it.
StreamOwnedOnce ==
  \A j \in Jobs : js_get_progress(j) # "unknown" =>
    /\ refs[j] = Cardinality(StreamHolders(j)) /\ refs[j] \in {0, 1}
    /\ main.res = j => refs[j] = 1

\* The jobs of worker w whose last result on_result_ready has yet to count.
OpenStreams(w) ==
  Len(wk[w].sub)
    + Cardinality({i \in DOMAIN wk[w].results : wk[w].results[i].is_done})
    + (IF wk[w].job # NoJob THEN 1 ELSE 0)
    + (IF main.cur = w /\ is_done /\ (main.res # NoJob \/ "account" \in {main.pc, main.ret})
       THEN 1 ELSE 0)
    - (IF main.pc = "post" /\ main.tgt = w THEN 1 ELSE 0)

\* in_flight_ "tracks jobs (not tokens)", and the doorbell is referenced
\* exactly while there are any: the loop does not end in the middle of a stream.
StreamsCounted ==
  \A w \in Workers : wk[w].handle = "open" =>
    /\ wk[w].in_flight = OpenStreams(w)
    /\ wk[w].ref <=> wk[w].in_flight > 0

\* js_close frees the models only when no thread is left that uses them:
\* get_model, called by the threads without a lock, never sees the map change.
ModelsOutliveUse ==
  models = "freed" => \A w \in Workers : wk[w].pc = "exited"

\* Each accepted job comes to the end of its stream and its callback is freed,
\* unless the manager goes away first; a failed decode is no exception.
StreamEnds ==
  \A j \in Jobs : (js_get_progress(j) # "unknown") ~>
    (refs[j] = 0 \/ ~ mgr.opaque \/ interrupted)
=============================================================================
