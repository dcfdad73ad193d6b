-------------------------- MODULE WorkerPoolProofs --------------------------
(***************************************************************************)
(* Proofs about WorkerPool and JSWorkerPool, for every number of workers,  *)
(* every size of their rings and every number of jobs.                     *)
(*                                                                         *)
(* MainOK says what the place of the main thread implies about the result  *)
(* it is handling and about the manager, WorkerOK(w) what holds of each    *)
(* worker.  A step changes at most one worker; UntouchedWorker is the      *)
(* argument for the others.  OInv says where the callback of each job is:  *)
(* a job is in one place of one worker, or in on_result's hand, and its    *)
(* callback has one reference while it is, and none afterwards.            *)
(***************************************************************************)
EXTENDS JSWorkerPool, PoolState, TLAPS

Result == [job : Jobs, error : BOOLEAN]

WorkerState ==
  [sub : Seq(Jobs), sem : Int, stopped : BOOLEAN, results : Seq(Result),
   pc : {"boot", "wait", "check", "pop", "push", "send", "exited"},
   job : Jobs \cup {NoJob}, in_flight : Int, bell : BOOLEAN, ref : BOOLEAN,
   handle : {"open", "closing", "deleted"}]

Shape == mgr \in ManagerState /\ main \in MainState /\ wk \in [Workers -> WorkerState]

\* A manager is deleted outside its callbacks.
DeleteOK ==
  /\ mgr.life = "deleted" => ~ mgr.opaque /\ main.fin
  /\ (main.fin /\ ~ mgr.opaque) =>
       (At = "js" => main.frame = "script") /\ At # "free"

MainOK == PlaceOK /\ CloseOK /\ (~ DropInCallback => DeleteOK)

\* The outstanding jobs of a worker: those it holds itself, the one whose result
\* the main thread is handling, less one that enqueue has yet to count.
OwnShare(n) == Len(n.sub) + Len(n.results) + (IF n.job # NoJob THEN 1 ELSE 0)

CurShare(m, w) ==
  IF m.cur = w /\ (m.res # NoJob \/ "account" \in {m.pc, m.ret}) THEN 1 ELSE 0

CountOK(w) ==
  wk[w].handle = "open" =>
    /\ wk[w].in_flight = OwnShare(wk[w]) + CurShare(main, w) - PostShare(main, w)
    /\ wk[w].ref <=> wk[w].in_flight > 0

ResultOK(w) ==
  (wk[w].results # <<>> /\ wk[w].handle = "open") =>
    wk[w].bell \/ wk[w].pc = "send" \/ main.cur = w

WorkerOK(w) ==
  /\ wk[w].pc = "push" <=> wk[w].job # NoJob
  /\ wk[w].handle # "open" => Silent(w)
  /\ Stopped(w) => wk[w].handle # "open"
  /\ ResultOK(w)
  /\ CountOK(w)

IInv == Shape /\ MainOK /\ \A w \in Workers : WorkerOK(w)

-----------------------------------------------------------------------------
LEMMA Indices ==
  /\ Workers \subseteq Nat /\ NoWorker \notin Workers
  /\ Jobs \subseteq Nat /\ NoJob \notin Jobs
BY PoolSize, JobBound DEF Workers, Jobs, NoWorker, NoJob

LEMMA ShareType ==
  ASSUME NEW n \in WorkerState, NEW m \in MainState, NEW w
  PROVE  OwnShare(n) \in Nat /\ CurShare(m, w) \in {0, 1} /\ PostShare(m, w) \in {0, 1}
BY DEF WorkerState, OwnShare, CurShare, PostShare

\* A worker that a step does not change.
LEMMA UntouchedWorker ==
  ASSUME NEW w \in Workers, WorkerOK(w), wk'[w] = wk[w],
         Stopped(w)' => Stopped(w),
         main.cur = w => main'.cur = w \/ wk[w].results = <<>>,
         wk[w].handle = "open" => /\ CurShare(main', w) = CurShare(main, w)
                                  /\ PostShare(main', w) = PostShare(main, w)
  PROVE  WorkerOK(w)'
<1>1. Silent(w)' <=> Silent(w)
  BY Zenon DEF Silent
<1>2. ResultOK(w)'
  BY Zenon DEF WorkerOK, ResultOK
<1>3. CountOK(w)'
  BY Zenon DEF WorkerOK, CountOK
<1> QED
  BY <1>1, <1>2, <1>3, Zenon DEF WorkerOK

\* A worker that its thread changes: the sum of what it holds stays.
LEMMA ThreadStep ==
  ASSUME IInv, NEW w \in Workers, NEW n \in WorkerState,
         wk' = [wk EXCEPT ![w] = n], UNCHANGED <<mgr, main>>,
         wk[w].pc # "exited",
         n.pc = "push" <=> n.job # NoJob,
         n.handle = wk[w].handle,
         n.results # <<>> => n.bell \/ n.pc = "send" \/ main.cur = w,
         n.in_flight = wk[w].in_flight, n.ref = wk[w].ref,
         OwnShare(n) = OwnShare(wk[w])
  PROVE  IInv'
<1> USE DEF IInv
<1>1. Shape'
  BY Zenon DEF Shape
<1>2. MainOK'
  BY Zenon DEF MainOK, PlaceOK, CloseOK, DeleteOK, At, Closing
<1>3. wk'[w] = n /\ \A v \in Workers : v # w => wk'[v] = wk[v]
  BY Zenon DEF Shape
<1>4. \A v \in Workers : Stopped(v)' <=> Stopped(v)
  BY Zenon DEF Stopped, Closing
<1>5. ASSUME NEW v \in Workers, v # w PROVE WorkerOK(v)'
  BY <1>3, <1>4, <1>5, UntouchedWorker, Zenon
<1>6. wk[w].handle = "open" /\ ~ Stopped(w)
  BY Zenon DEF WorkerOK, Silent
<1>7. CountOK(w)'
  BY <1>3, <1>6 DEF WorkerOK, CountOK
<1>8. ResultOK(w)'
  BY <1>3, Zenon DEF ResultOK
<1>9. WorkerOK(w)'
  BY <1>3, <1>4, <1>6, <1>7, <1>8, Zenon DEF WorkerOK
<1> QED
  BY <1>1, <1>2, <1>5, <1>9, Zenon

-----------------------------------------------------------------------------
(* The threads.                                                            *)

\* The queues of a worker, as a step may change them.
LEMMA Rings ==
  ASSUME NEW S, NEW q \in Seq(S)
  PROVE  /\ Len(q) \in Nat
         /\ \A e \in S : Append(q, e) \in Seq(S) /\ Len(Append(q, e)) = Len(q) + 1
                        /\ Append(q, e) # <<>>
         /\ q # <<>> => Head(q) \in S /\ Tail(q) \in Seq(S) /\ Len(Tail(q)) = Len(q) - 1
OBVIOUS

LEMMA WaitStep ==
  ASSUME IInv, NEW w \in Workers, Wait(w)
  PROVE  IInv'
<1>1. wk[w] \in WorkerState /\ WorkerOK(w) /\ wk[w].pc = "wait" /\ UNCHANGED <<mgr, main>>
  BY Zenon DEF IInv, Shape, Wait
<1>2. PICK k \in Int : k = wk[w].sem - 1
  BY <1>1 DEF WorkerState
<1> DEFINE n == [wk[w] EXCEPT !.sem = k, !.pc = "check"]
<1>3. wk' = [wk EXCEPT ![w] = n]
  BY <1>1, <1>2, Zenon DEF Wait, IInv, Shape
<1>4. /\ n \in WorkerState /\ n.pc = "check" /\ n.job = wk[w].job /\ n.handle = wk[w].handle
      /\ n.results = wk[w].results /\ n.bell = wk[w].bell /\ n.sub = wk[w].sub
      /\ n.in_flight = wk[w].in_flight /\ n.ref = wk[w].ref
  BY <1>1, Zenon DEF WorkerState
<1> HIDE DEF n
<1>5. OwnShare(n) = OwnShare(wk[w])
  BY <1>4, Zenon DEF OwnShare
<1> QED
  BY <1>1, <1>3, <1>4, <1>5, ThreadStep, Zenon DEF WorkerOK, ResultOK, Silent

LEMMA CheckStep ==
  ASSUME IInv, NEW w \in Workers, CheckStopped(w)
  PROVE  IInv'
<1>1. wk[w] \in WorkerState /\ WorkerOK(w) /\ wk[w].pc = "check" /\ UNCHANGED <<mgr, main>>
  BY Zenon DEF IInv, Shape, CheckStopped
<1>2. PICK p \in {"exited", "pop"} : p = IF wk[w].stopped THEN "exited" ELSE "pop"
  BY Zenon
<1> DEFINE n == [wk[w] EXCEPT !.pc = p]
<1>3. wk' = [wk EXCEPT ![w] = n]
  BY <1>1, <1>2, Zenon DEF CheckStopped, IInv, Shape
<1>4. /\ n \in WorkerState /\ n.pc = p /\ n.job = wk[w].job /\ n.handle = wk[w].handle
      /\ n.results = wk[w].results /\ n.bell = wk[w].bell /\ n.sub = wk[w].sub
      /\ n.in_flight = wk[w].in_flight /\ n.ref = wk[w].ref
  BY <1>1, Zenon DEF WorkerState
<1> HIDE DEF n
<1>5. OwnShare(n) = OwnShare(wk[w])
  BY <1>4, Zenon DEF OwnShare
<1> QED
  BY <1>1, <1>3, <1>4, <1>5, ThreadStep, Zenon DEF WorkerOK, ResultOK, Silent

LEMMA PopStep ==
  ASSUME IInv, NEW w \in Workers, Pop(w)
  PROVE  IInv'
<1>1. wk[w] \in WorkerState /\ WorkerOK(w) /\ wk[w].pc = "pop" /\ UNCHANGED <<mgr, main>>
  BY Zenon DEF IInv, Shape, Pop
<1>2. wk[w].sub \in Seq(Jobs) /\ wk[w].job = NoJob
  BY <1>1, Zenon DEF WorkerState, WorkerOK
<1>3. CASE wk[w].sub = <<>>
  <2> DEFINE n == [wk[w] EXCEPT !.pc = "exited"]
  <2>1. wk' = [wk EXCEPT ![w] = n]
    BY <1>1, <1>3, Zenon DEF Pop, IInv, Shape, WorkerState
  <2>2. /\ n \in WorkerState /\ n.pc = "exited" /\ n.job = wk[w].job /\ n.handle = wk[w].handle
        /\ n.results = wk[w].results /\ n.bell = wk[w].bell /\ n.sub = wk[w].sub
        /\ n.in_flight = wk[w].in_flight /\ n.ref = wk[w].ref
    BY <1>1, Zenon DEF WorkerState
  <2> HIDE DEF n
  <2>3. OwnShare(n) = OwnShare(wk[w])
    BY <2>2, Zenon DEF OwnShare
  <2> QED
    BY <1>1, <2>1, <2>2, <2>3, ThreadStep, Zenon DEF WorkerOK, ResultOK, Silent
<1>4. CASE wk[w].sub # <<>>
  <2>1. PICK j \in Jobs, t \in Seq(Jobs) :
          j = Head(wk[w].sub) /\ t = Tail(wk[w].sub) /\ Len(t) = Len(wk[w].sub) - 1
    BY <1>2, <1>4, Rings, Zenon
  <2> DEFINE n == [wk[w] EXCEPT !.pc = "push", !.job = j, !.sub = t]
  <2>2. wk' = [wk EXCEPT ![w] = n]
    BY <1>1, <1>4, <2>1, Zenon DEF Pop, IInv, Shape
  <2>3. /\ n \in WorkerState /\ n.pc = "push" /\ n.job = j /\ n.handle = wk[w].handle
        /\ n.results = wk[w].results /\ n.bell = wk[w].bell /\ n.sub = t
        /\ n.in_flight = wk[w].in_flight /\ n.ref = wk[w].ref
    BY <1>1, Zenon DEF WorkerState
  <2> HIDE DEF n
  <2>4. Len(wk[w].sub) \in Nat /\ Len(wk[w].results) \in Nat /\ j # NoJob
    <3>1. wk[w].sub \in Seq(Jobs) /\ wk[w].results \in Seq(Result)
      BY <1>1, Zenon DEF WorkerState
    <3> QED
      BY <3>1, Rings, Indices, Zenon
  <2>5. OwnShare(n) = OwnShare(wk[w])
    <3>1. OwnShare(n) = Len(t) + Len(wk[w].results) + 1
      BY <2>3, <2>4, Zenon DEF OwnShare
    <3>2. OwnShare(wk[w]) = Len(wk[w].sub) + Len(wk[w].results) + 0
      BY <1>2, Zenon DEF OwnShare
    <3> QED
      BY <2>1, <2>4, <3>1, <3>2
  <2> QED
    BY <1>1, <2>2, <2>3, <2>4, <2>5, ThreadStep, Zenon DEF WorkerOK, ResultOK, Silent
<1> QED
  BY <1>3, <1>4, Zenon

LEMMA PushStep ==
  ASSUME IInv, NEW w \in Workers, NEW error \in BOOLEAN, PushResult(w, error)
  PROVE  IInv'
<1>1. wk[w] \in WorkerState /\ WorkerOK(w) /\ wk[w].pc = "push" /\ UNCHANGED <<mgr, main>>
  BY Zenon DEF IInv, Shape, PushResult
<1>2. wk[w].results \in Seq(Result) /\ wk[w].job \in Jobs
  BY <1>1, Zenon DEF WorkerState, WorkerOK
<1>3. [job |-> wk[w].job, error |-> error] \in Result
  BY <1>2, Zenon DEF Result
<1>4. PICK q \in Seq(Result) :
        /\ q = Append(wk[w].results, [job |-> wk[w].job, error |-> error])
        /\ Len(q) = Len(wk[w].results) + 1
  BY <1>2, <1>3, Rings, Zenon
<1> DEFINE n == [wk[w] EXCEPT !.results = q, !.pc = "send", !.job = NoJob]
<1>5. wk' = [wk EXCEPT ![w] = n]
  BY <1>1, <1>4, Zenon DEF PushResult, IInv, Shape
<1>6. /\ n \in WorkerState /\ n.pc = "send" /\ n.job = NoJob /\ n.handle = wk[w].handle
      /\ n.results = q /\ n.bell = wk[w].bell /\ n.sub = wk[w].sub
      /\ n.in_flight = wk[w].in_flight /\ n.ref = wk[w].ref
  BY <1>1, Zenon DEF WorkerState
<1> HIDE DEF n
<1>7. Len(wk[w].sub) \in Nat /\ Len(wk[w].results) \in Nat /\ wk[w].job # NoJob
  BY <1>1, <1>2, Indices DEF WorkerState
<1>8. OwnShare(n) = OwnShare(wk[w])
  <2>1. OwnShare(n) = Len(wk[w].sub) + Len(q) + 0
    BY <1>6, Zenon DEF OwnShare
  <2>2. OwnShare(wk[w]) = Len(wk[w].sub) + Len(wk[w].results) + 1
    BY <1>7, Zenon DEF OwnShare
  <2>3. Len(q) = Len(wk[w].results) + 1
    BY <1>4, Zenon
  <2>4. \A a, b \in Nat : a + (b + 1) + 0 = a + b + 1
    OBVIOUS
  <2> QED
    BY <1>7, <2>1, <2>2, <2>3, <2>4, Zenon
<1> QED
  BY <1>1, <1>5, <1>6, <1>8, ThreadStep, Zenon

LEMMA SendStep ==
  ASSUME IInv, NEW w \in Workers, Send(w)
  PROVE  IInv'
<1>1. wk[w] \in WorkerState /\ WorkerOK(w) /\ wk[w].pc = "send" /\ UNCHANGED <<mgr, main>>
  BY Zenon DEF IInv, Shape, Send
<1> DEFINE n == [wk[w] EXCEPT !.bell = TRUE, !.pc = "wait"]
<1>2. wk' = [wk EXCEPT ![w] = n]
  BY <1>1, Zenon DEF Send, IInv, Shape
<1>3. /\ n \in WorkerState /\ n.pc = "wait" /\ n.job = wk[w].job /\ n.handle = wk[w].handle
      /\ n.results = wk[w].results /\ n.bell /\ n.sub = wk[w].sub
      /\ n.in_flight = wk[w].in_flight /\ n.ref = wk[w].ref
  BY <1>1, Zenon DEF WorkerState
<1> HIDE DEF n
<1>4. OwnShare(n) = OwnShare(wk[w])
  BY <1>3, Zenon DEF OwnShare
<1> QED
  BY <1>1, <1>2, <1>3, <1>4, ThreadStep, Zenon DEF WorkerOK

\* JSWorker::run loads its script before it waits.
LEMMA LoadStep ==
  ASSUME IInv, NEW w \in Workers, LoadScript(w)
  PROVE  IInv'
<1>1. wk[w] \in WorkerState /\ WorkerOK(w) /\ wk[w].pc = "boot" /\ UNCHANGED <<mgr, main>>
  BY Zenon DEF IInv, Shape, LoadScript
<1>2. PICK p \in {"wait", "exited"} : wk' = [wk EXCEPT ![w].pc = p]
  BY Zenon DEF LoadScript
<1> DEFINE n == [wk[w] EXCEPT !.pc = p]
<1>3. wk' = [wk EXCEPT ![w] = n]
  BY <1>1, <1>2, Zenon DEF IInv, Shape
<1>4. /\ n \in WorkerState /\ n.pc = p /\ n.job = wk[w].job /\ n.handle = wk[w].handle
      /\ n.results = wk[w].results /\ n.bell = wk[w].bell /\ n.sub = wk[w].sub
      /\ n.in_flight = wk[w].in_flight /\ n.ref = wk[w].ref
  BY <1>1, Zenon DEF WorkerState
<1> HIDE DEF n
<1>5. OwnShare(n) = OwnShare(wk[w])
  BY <1>4, Zenon DEF OwnShare
<1> QED
  BY <1>1, <1>3, <1>4, <1>5, ThreadStep, Zenon DEF WorkerOK, ResultOK, Silent

-----------------------------------------------------------------------------
(* The main thread, where it leaves the workers alone.                     *)

LEMMA MainOnly ==
  ASSUME IInv, wk' = wk, main' \in MainState, mgr' \in ManagerState, MainOK',
         \A w \in Workers :
           /\ Stopped(w)' => Stopped(w)
           /\ main.cur = w => main'.cur = w \/ wk[w].results = <<>>
           /\ wk[w].handle = "open" => /\ CurShare(main', w) = CurShare(main, w)
                                       /\ PostShare(main', w) = PostShare(main, w)
  PROVE  IInv'
<1>1. Shape'
  BY Zenon DEF IInv, Shape
<1>2. ASSUME NEW w \in Workers PROVE WorkerOK(w)'
  BY UntouchedWorker, Zenon DEF IInv
<1> QED
  BY <1>1, <1>2, Zenon DEF IInv

\* A refused job changes the counters only.
LEMMA FullStep ==
  ASSUME IInv, DispatchFull
  PROVE  IInv'
<1>1. mgr \in ManagerState /\ main \in MainState
  BY Zenon DEF IInv, Shape
<1>2. PICK i \in Nat, k \in Nat : i = mgr.next_job_id + 1 /\ k = mgr.next_worker_idx + 1
  BY <1>1 DEF ManagerState
<1>3. mgr' = [mgr EXCEPT !.next_job_id = i, !.next_worker_idx = k] /\ main' = main /\ wk' = wk
  BY <1>1, <1>2, Zenon DEF DispatchFull, TakeJob
<1>4. mgr' \in ManagerState /\ mgr'.opaque = mgr.opaque /\ mgr'.life = mgr.life
  BY <1>1, <1>3, Zenon DEF ManagerState
<1>5. MainOK'
  BY <1>3, <1>4, Zenon DEF IInv, MainOK, PlaceOK, CloseOK, DeleteOK, At, Closing
<1>6. \A w \in Workers : Stopped(w)' <=> Stopped(w)
  BY <1>3, <1>4, Zenon DEF Stopped, Closing
<1> QED
  BY <1>1, <1>3, <1>4, <1>5, <1>6, MainOnly, Zenon

\* js_close begins: in the script or a callback, when on_result frees the last
\* reference to the manager, or in tear_down.
LEMMA CloseStep ==
  ASSUME IInv, NEW from \in {"js", "account", "end"}, NEW fin \in BOOLEAN, NEW res,
         StopAll(from, fin, res),
         \/ from = "js" /\ main.pc = "js" /\ res = main.res
         \/ from = "account" /\ main.pc = "free" /\ res = NoJob
         \/ from = "end" /\ main.pc = "exit" /\ res = main.res,
         ~ DropInCallback => (from = "js" /\ fin => main.frame = "script")
  PROVE  IInv'
<1>1. mgr \in ManagerState /\ main \in MainState /\ MainOK
  BY Zenon DEF IInv, Shape
<1>2. 0 \in Workers /\ res \in Jobs \cup {NoJob}
  BY <1>1, PoolSize DEF Workers, MainState
<1>3. /\ mgr.opaque /\ wk' = wk
      /\ mgr' = [mgr EXCEPT !.opaque = FALSE]
      /\ main' = [main EXCEPT !.pc = "stop", !.tgt = 0, !.ret = from, !.fin = fin, !.res = res]
  BY Zenon DEF StopAll
<1>4. mgr' \in ManagerState /\ ~ mgr'.opaque /\ mgr'.life = mgr.life
  BY <1>1, <1>3, Zenon DEF ManagerState
<1>5. /\ main' \in MainState /\ main'.pc = "stop" /\ main'.tgt = 0 /\ main'.ret = from
      /\ main'.fin = fin /\ main'.res = res /\ main'.cur = main.cur /\ main'.frame = main.frame
  BY <1>1, <1>2, <1>3, Zenon DEF MainState
<1>6. Closing' /\ At' = from /\ ~ Closing /\ main.ret = "js" /\ At = main.pc
  BY <1>1, <1>3, <1>5, Zenon DEF Closing, At, MainOK, CloseOK
<1>7. MainOK'
  <2>1. PlaceOK'
    BY <1>1, <1>5, <1>6, Zenon DEF MainOK, PlaceOK
  <2>2. CloseOK'
    BY <1>4, Zenon DEF CloseOK
  <2>3. ~ DropInCallback => DeleteOK'
    BY <1>1, <1>3, <1>4, <1>5, <1>6, Zenon DEF MainOK, DeleteOK
  <2> QED
    BY <2>1, <2>2, <2>3, Zenon DEF MainOK
<1>8. ASSUME NEW w \in Workers PROVE ~ Stopped(w)'
  BY <1>5, <1>6, Indices DEF Stopped
<1>9. ASSUME NEW w \in Workers
      PROVE  CurShare(main', w) = CurShare(main, w) /\ PostShare(main', w) = PostShare(main, w)
  BY <1>1, <1>5, <1>6, Indices, Zenon DEF CurShare, PostShare, MainOK, PlaceOK
<1> QED
  BY <1>3, <1>4, <1>5, <1>7, <1>8, <1>9, MainOnly, Zenon

\* The main thread moves on, without a change to the manager.
LEMMA MoveStep ==
  ASSUME IInv, JsReturn \/ DrainEmpty \/ FreeCallback \/ OtherEvent \/ LoopExit \/ Interrupt
               \/ (main.pc = "exit" /\ main' = [main EXCEPT !.pc = "end"] /\ UNCHANGED <<mgr, wk>>)
  PROVE  IInv'
<1>1. mgr \in ManagerState /\ main \in MainState /\ MainOK
  BY Zenon DEF IInv, Shape
<1>2. mgr' = mgr /\ wk' = wk
  BY Zenon DEF JsReturn, DrainEmpty, FreeCallback, OtherEvent, LoopExit, Interrupt
<1>3. CASE JsReturn
  <2>1. PICK p \in {"loop", "free"} : p = IF main.frame = "script" THEN "loop" ELSE "free"
    BY Zenon
  <2>2. main.pc = "js" /\ main' = [main EXCEPT !.pc = p]
    BY <1>3, <2>1, Zenon DEF JsReturn
  <2>3. /\ main' \in MainState /\ main'.pc = p
        /\ main'.ret = main.ret /\ main'.fin = main.fin /\ main'.tgt = main.tgt
        /\ main'.frame = main.frame /\ main'.cur = main.cur /\ main'.res = main.res
    BY <1>1, <2>2, Zenon DEF MainState
  <2>4. ~ Closing /\ ~ Closing' /\ At = "js" /\ At' = p
    BY <2>2, <2>3, Zenon DEF Closing, At
  <2>5. main.frame \in {"script", "callback"}
    BY <1>1, Zenon DEF MainState
  <2>6. MainOK'
    BY <1>1, <1>2, <2>1, <2>3, <2>4, <2>5, Zenon DEF MainOK, PlaceOK, CloseOK, DeleteOK
  <2>7. \A w \in Workers : CurShare(main', w) = CurShare(main, w) /\ PostShare(main', w) = PostShare(main, w)
    BY <2>2, <2>3, Zenon DEF CurShare, PostShare
  <2>8. \A w \in Workers : Stopped(w)' <=> Stopped(w)
    BY <1>2, <2>4, Zenon DEF Stopped
  <2> QED
    BY <1>1, <1>2, <2>3, <2>6, <2>7, <2>8, MainOnly, Zenon
<1>4. CASE DrainEmpty
  <2>1. main.pc = "drain" /\ main' = [main EXCEPT !.pc = "loop", !.cur = NoWorker]
        /\ wk[main.cur].results = <<>>
    BY <1>4, Zenon DEF DrainEmpty
  <2>2. /\ main' \in MainState /\ main'.pc = "loop" /\ main'.cur = NoWorker
        /\ main'.ret = main.ret /\ main'.fin = main.fin /\ main'.tgt = main.tgt
        /\ main'.frame = main.frame /\ main'.res = main.res
    BY <1>1, <2>1, Zenon DEF MainState
  <2>3. ~ Closing /\ ~ Closing' /\ At = "drain" /\ At' = "loop"
    BY <2>1, <2>2, Zenon DEF Closing, At
  <2>4. MainOK'
    BY <1>1, <1>2, <2>2, <2>3, Zenon DEF MainOK, PlaceOK, CloseOK, DeleteOK
  <2>5. ASSUME NEW w \in Workers, wk[w].handle = "open"
        PROVE  CurShare(main', w) = CurShare(main, w) /\ PostShare(main', w) = PostShare(main, w)
    <3>1. mgr.opaque /\ main.ret = "js" /\ main.res = NoJob
      BY <1>1, <2>3, <2>5, Zenon DEF IInv, WorkerOK, Stopped, MainOK, CloseOK, PlaceOK
    <3> QED
      BY <2>1, <2>2, <3>1, Indices, Zenon DEF CurShare, PostShare
  <2>6. \A w \in Workers : Stopped(w)' <=> Stopped(w)
    BY <1>2, <2>3, Zenon DEF Stopped
  <2> QED
    BY <1>1, <1>2, <2>1, <2>2, <2>4, <2>5, <2>6, MainOnly, Zenon
<1>5. CASE FreeCallback
  <2>1. main.pc = "free" /\ main' = [main EXCEPT !.pc = "account", !.res = NoJob]
    BY <1>5, Zenon DEF FreeCallback
  <2>2. /\ main' \in MainState /\ main'.pc = "account" /\ main'.res = NoJob
        /\ main'.ret = main.ret /\ main'.fin = main.fin /\ main'.tgt = main.tgt
        /\ main'.frame = main.frame /\ main'.cur = main.cur
    BY <1>1, <2>1, Zenon DEF MainState
  <2>3. ~ Closing /\ ~ Closing' /\ At = "free" /\ At' = "account"
    BY <2>1, <2>2, Zenon DEF Closing, At
  <2>4. MainOK'
    BY <1>1, <1>2, <2>2, <2>3, Zenon DEF MainOK, PlaceOK, CloseOK, DeleteOK
  <2>5. \A w \in Workers : CurShare(main', w) = CurShare(main, w) /\ PostShare(main', w) = PostShare(main, w)
    BY <1>1, <2>1, <2>2, <2>3, Zenon DEF CurShare, PostShare, MainOK, PlaceOK
  <2>6. \A w \in Workers : Stopped(w)' <=> Stopped(w)
    BY <1>2, <2>3, Zenon DEF Stopped
  <2> QED
    BY <1>1, <1>2, <2>2, <2>4, <2>5, <2>6, MainOnly, Zenon
<1>6. CASE OtherEvent
  <2>1. main.pc = "loop" /\ main' = [main EXCEPT !.pc = "js", !.frame = "script"]
    BY <1>6, Zenon DEF OtherEvent
  <2>2. /\ main' \in MainState /\ main'.pc = "js" /\ main'.res = main.res
        /\ main'.ret = main.ret /\ main'.fin = main.fin /\ main'.tgt = main.tgt
        /\ main'.frame = "script" /\ main'.cur = main.cur
    BY <1>1, <2>1, Zenon DEF MainState
  <2>3. ~ Closing /\ ~ Closing' /\ At = "loop" /\ At' = "js"
    BY <2>1, <2>2, Zenon DEF Closing, At
  <2>4. MainOK'
    BY <1>1, <1>2, <2>2, <2>3, Zenon DEF MainOK, PlaceOK, CloseOK, DeleteOK
  <2>5. \A w \in Workers : CurShare(main', w) = CurShare(main, w) /\ PostShare(main', w) = PostShare(main, w)
    BY <2>1, <2>2, Zenon DEF CurShare, PostShare
  <2>6. \A w \in Workers : Stopped(w)' <=> Stopped(w)
    BY <1>2, <2>3, Zenon DEF Stopped
  <2> QED
    BY <1>1, <1>2, <2>2, <2>4, <2>5, <2>6, MainOnly, Zenon
<1>7. ASSUME NEW p \in {"exit", "end"}, main.pc \in {"loop", "exit"},
             main' = [main EXCEPT !.pc = p]
      PROVE  IInv'
  <2>1. /\ main' \in MainState /\ main'.pc = p /\ main'.res = main.res
        /\ main'.ret = main.ret /\ main'.fin = main.fin /\ main'.tgt = main.tgt
        /\ main'.frame = main.frame /\ main'.cur = main.cur
    BY <1>1, <1>7, Zenon DEF MainState
  <2>2. ~ Closing /\ ~ Closing' /\ At = main.pc /\ At' = p
    BY <1>7, <2>1, Zenon DEF Closing, At
  <2>3. MainOK'
    BY <1>1, <1>2, <1>7, <2>1, <2>2, Zenon DEF MainOK, PlaceOK, CloseOK, DeleteOK
  <2>4. \A w \in Workers : CurShare(main', w) = CurShare(main, w) /\ PostShare(main', w) = PostShare(main, w)
    BY <1>7, <2>1, Zenon DEF CurShare, PostShare
  <2>5. \A w \in Workers : Stopped(w)' <=> Stopped(w)
    BY <1>2, <2>2, Zenon DEF Stopped
  <2> QED
    BY <1>1, <1>2, <2>1, <2>3, <2>4, <2>5, MainOnly, Zenon
<1>8. CASE LoopExit \/ Interrupt
  BY <1>7, <1>8, Zenon DEF LoopExit, Interrupt
<1> QED
  BY <1>3, <1>4, <1>5, <1>6, <1>7, <1>8, Zenon
-----------------------------------------------------------------------------
(* The main thread, where it changes a worker.                             *)

LEMMA WorkerStep ==
  ASSUME IInv, NEW x \in Workers, NEW n \in WorkerState, wk' = [wk EXCEPT ![x] = n],
         main' \in MainState, mgr' \in ManagerState, MainOK',
         \A w \in Workers : w # x =>
           /\ Stopped(w)' => Stopped(w)
           /\ main.cur = w => main'.cur = w \/ wk[w].results = <<>>
           /\ wk[w].handle = "open" => /\ CurShare(main', w) = CurShare(main, w)
                                       /\ PostShare(main', w) = PostShare(main, w),
         n.pc = "push" <=> n.job # NoJob,
         n.handle # "open" => n.pc = "exited" /\ n.results = <<>>,
         Stopped(x)' => n.handle # "open",
         (n.results # <<>> /\ n.handle = "open") => n.bell \/ n.pc = "send" \/ main'.cur = x,
         n.handle = "open" =>
           /\ n.in_flight = OwnShare(n) + CurShare(main', x) - PostShare(main', x)
           /\ n.ref <=> n.in_flight > 0
  PROVE  IInv'
<1>1. Shape'
  BY Zenon DEF IInv, Shape
<1>2. wk'[x] = n /\ \A v \in Workers : v # x => wk'[v] = wk[v]
  BY Zenon DEF IInv, Shape
<1>3. ASSUME NEW v \in Workers, v # x PROVE WorkerOK(v)'
  BY <1>2, <1>3, UntouchedWorker, Zenon DEF IInv
<1>4. CountOK(x)'
  BY <1>2, Zenon DEF CountOK
<1>5. ResultOK(x)'
  BY <1>2, Zenon DEF ResultOK
<1>6. WorkerOK(x)'
  BY <1>2, <1>4, <1>5 DEF WorkerOK, Silent
<1> QED
  BY <1>1, <1>3, <1>6, Zenon DEF IInv

\* js_dispatch pushes a job: it is outstanding, and enqueue has yet to count it.
LEMMA DispatchStep ==
  ASSUME IInv, Dispatch
  PROVE  IInv'
<1>1. mgr \in ManagerState /\ main \in MainState /\ MainOK
  BY Zenon DEF IInv, Shape
<1>2. PICK i \in Nat, k \in Nat : i = mgr.next_job_id + 1 /\ k = mgr.next_worker_idx + 1
  BY <1>1 DEF ManagerState
<1>3. PICK x \in Workers : x = pick_worker
  <2>1. mgr.next_worker_idx \in Nat
    BY <1>1, Zenon DEF ManagerState
  <2>2. pick_worker \in 0 .. NWorkers - 1
    BY <2>1, PoolSize DEF pick_worker
  <2> QED
    BY <2>2, Zenon DEF Workers
<1>4. PICK j \in Jobs : j = mgr.next_job_id
  BY <1>1, JobBound DEF Dispatch, TakeJob, Jobs, ManagerState
<1>5. wk[x] \in WorkerState /\ WorkerOK(x)
  BY Zenon DEF IInv, Shape
<1>6. PICK q \in Seq(Jobs) : q = Append(wk[x].sub, j) /\ Len(q) = Len(wk[x].sub) + 1
  BY <1>5, Rings, ZenonT(40) DEF WorkerState
<1>7. /\ main.pc = "js" /\ mgr.opaque
      /\ mgr' = [mgr EXCEPT !.next_job_id = i, !.next_worker_idx = k]
      /\ main' = [main EXCEPT !.pc = "post", !.tgt = x]
  BY <1>1, <1>2, <1>3, Zenon DEF Dispatch, TakeJob
<1>8. mgr' \in ManagerState /\ mgr'.opaque /\ mgr'.life = mgr.life
  BY <1>1, <1>7, Zenon DEF ManagerState
<1>9. /\ main' \in MainState /\ main'.pc = "post" /\ main'.tgt = x /\ main'.ret = main.ret
      /\ main'.fin = main.fin /\ main'.res = main.res /\ main'.cur = main.cur
      /\ main'.frame = main.frame
  BY <1>1, <1>7, Zenon DEF MainState
<1>10. ~ Closing /\ ~ Closing' /\ At = "js" /\ At' = "js" /\ main.ret = "js"
  BY <1>1, <1>7, <1>9, Zenon DEF Closing, At, MainOK, CloseOK
<1>11. MainOK'
  BY <1>1, <1>7, <1>8, <1>9, <1>10, Zenon DEF MainOK, PlaceOK, CloseOK, DeleteOK
<1>12. \A w \in Workers : /\ ~ Stopped(w) /\ ~ Stopped(w)'
                          /\ CurShare(main', w) = CurShare(main, w) /\ PostShare(main, w) = 0
                          /\ PostShare(main', w) = IF w = x THEN 1 ELSE 0
  BY <1>7, <1>8, <1>9, <1>10, Zenon DEF Stopped, CurShare, PostShare
<1> DEFINE n == [wk[x] EXCEPT !.sub = q]
<1>13. wk' = [wk EXCEPT ![x] = n]
  BY <1>3, <1>4, <1>6, Zenon DEF Dispatch, IInv, Shape
<1>14. /\ n \in WorkerState /\ n.sub = q /\ n.results = wk[x].results /\ n.job = wk[x].job
       /\ n.pc = wk[x].pc /\ n.handle = wk[x].handle /\ n.bell = wk[x].bell
       /\ n.in_flight = wk[x].in_flight /\ n.ref = wk[x].ref
  BY <1>5, Zenon DEF WorkerState
<1> HIDE DEF n
<1>15. OwnShare(n) = OwnShare(wk[x]) + 1
  <2>1. Len(wk[x].sub) \in Nat /\ Len(wk[x].results) \in Nat
    BY <1>5 DEF WorkerState
  <2>2. PICK h \in {0, 1} : h = IF wk[x].job # NoJob THEN 1 ELSE 0
    BY Zenon
  <2>3. OwnShare(n) = Len(q) + Len(wk[x].results) + h
        /\ OwnShare(wk[x]) = Len(wk[x].sub) + Len(wk[x].results) + h
    BY <2>2, <1>14, Zenon DEF OwnShare
  <2>4. PICK a \in Nat, b \in Nat : a = Len(wk[x].sub) /\ b = Len(wk[x].results)
    BY <2>1, Zenon
  <2>5. OwnShare(n) = a + 1 + b + h /\ OwnShare(wk[x]) = a + b + h
    BY <2>3, <2>4, <1>6, Zenon
  <2> QED
    BY <2>5
<1>16. OwnShare(wk[x]) \in Nat /\ CurShare(main, x) \in {0, 1} /\ CurShare(main', x) \in {0, 1}
  BY <1>1, <1>5, <1>9, ShareType, Zenon
<1>17. n.handle = "open" =>
         /\ n.in_flight = OwnShare(n) + CurShare(main', x) - PostShare(main', x)
         /\ n.ref <=> n.in_flight > 0
  <2>1. CurShare(main', x) = CurShare(main, x) /\ PostShare(main, x) = 0 /\ PostShare(main', x) = 1
    BY <1>12, Zenon
  <2>2. OwnShare(n) + CurShare(main', x) - PostShare(main', x)
          = OwnShare(wk[x]) + CurShare(main, x) - PostShare(main, x)
    BY <1>15, <1>16, <2>1
  <2> QED
    BY <1>5, <1>14, <2>2, Zenon DEF WorkerOK, CountOK
<1>18. /\ n.pc = "push" <=> n.job # NoJob
       /\ n.handle # "open" => n.pc = "exited" /\ n.results = <<>>
       /\ (n.results # <<>> /\ n.handle = "open") => n.bell \/ n.pc = "send" \/ main'.cur = x
  BY <1>5, <1>9, <1>14, Zenon DEF WorkerOK, Silent, ResultOK
<1>19. \A w \in Workers : w # x =>
         /\ Stopped(w)' => Stopped(w)
         /\ main.cur = w => main'.cur = w \/ wk[w].results = <<>>
         /\ wk[w].handle = "open" => /\ CurShare(main', w) = CurShare(main, w)
                                     /\ PostShare(main', w) = PostShare(main, w)
  BY <1>9, <1>12, Zenon
<1> QED
  BY <1>8, <1>9, <1>11, <1>12, <1>13, <1>14, <1>17, <1>18, <1>19, WorkerStep, Zenon

\* enqueue counts the job and references the doorbell.
LEMMA EnqueueStep ==
  ASSUME IInv, EnqueuePost
  PROVE  IInv'
<1>1. mgr \in ManagerState /\ main \in MainState /\ MainOK /\ main.pc = "post"
  BY Zenon DEF IInv, Shape, EnqueuePost
<1>2. PICK x \in Workers : x = main.tgt
  BY <1>1, Zenon DEF MainState
<1>3. wk[x] \in WorkerState /\ WorkerOK(x)
  BY Zenon DEF IInv, Shape
<1>4. PICK s \in Int, i \in Int, r \in BOOLEAN :
        s = wk[x].sem + 1 /\ i = wk[x].in_flight + 1 /\ r = (wk[x].ref \/ wk[x].in_flight = 0)
  <2>1. wk[x].sem + 1 \in Int /\ wk[x].in_flight + 1 \in Int
    BY <1>3 DEF WorkerState
  <2>2. (wk[x].ref \/ wk[x].in_flight = 0) \in BOOLEAN
    BY Zenon
  <2> QED
    BY <2>1, <2>2, Zenon
<1>5. PICK st \in [Jobs -> {"unknown", "pending", "done", "error"}] :
        st = [mgr.job_status EXCEPT ![mgr.next_job_id - 1] = "pending"]
  BY <1>1, Zenon DEF ManagerState
<1>6. mgr' = [mgr EXCEPT !.job_status = st] /\ main' = [main EXCEPT !.pc = "js"]
  BY <1>1, <1>5, Zenon DEF EnqueuePost
<1>7. mgr' \in ManagerState /\ mgr'.opaque = mgr.opaque /\ mgr'.life = mgr.life
  BY <1>1, <1>6, Zenon DEF ManagerState
<1>8. /\ main' \in MainState /\ main'.pc = "js" /\ main'.tgt = x /\ main'.ret = main.ret
      /\ main'.fin = main.fin /\ main'.res = main.res /\ main'.cur = main.cur
      /\ main'.frame = main.frame
  BY <1>1, <1>2, <1>6, Zenon DEF MainState
<1>9. ~ Closing /\ ~ Closing' /\ At = "js" /\ At' = "js"
  BY <1>1, <1>8, Zenon DEF Closing, At
<1>10. MainOK'
  BY <1>1, <1>7, <1>8, <1>9, Zenon DEF MainOK, PlaceOK, CloseOK, DeleteOK
<1>11. \A w \in Workers : /\ Stopped(w)' <=> Stopped(w)
                          /\ CurShare(main', w) = CurShare(main, w) /\ PostShare(main', w) = 0
                          /\ PostShare(main, w) = IF w = x THEN 1 ELSE 0
  BY <1>1, <1>2, <1>7, <1>8, <1>9, Zenon DEF Stopped, CurShare, PostShare
<1> DEFINE n == [wk[x] EXCEPT !.sem = s, !.in_flight = i, !.ref = r]
<1>12. wk' = [wk EXCEPT ![x] = n]
  BY <1>2, <1>3, <1>4, Zenon DEF EnqueuePost, IInv, Shape, WorkerState
<1>13. /\ n \in WorkerState /\ n.sub = wk[x].sub /\ n.results = wk[x].results /\ n.job = wk[x].job
       /\ n.pc = wk[x].pc /\ n.handle = wk[x].handle /\ n.bell = wk[x].bell
       /\ n.in_flight = i /\ n.ref = r
  BY <1>3, Zenon DEF WorkerState
<1> HIDE DEF n
<1>14. OwnShare(n) = OwnShare(wk[x])
  BY <1>13, Zenon DEF OwnShare
<1>15. OwnShare(wk[x]) \in Nat /\ CurShare(main, x) \in {0, 1} /\ wk[x].in_flight \in Int
  BY <1>1, <1>3, ShareType, Zenon DEF WorkerState
<1>16. ASSUME n.handle = "open"
       PROVE  /\ n.in_flight = OwnShare(n) + CurShare(main', x) - PostShare(main', x)
              /\ n.ref <=> n.in_flight > 0
  <2>1. /\ wk[x].in_flight = OwnShare(wk[x]) + CurShare(main, x) - 1
        /\ wk[x].ref <=> wk[x].in_flight > 0
    BY <1>3, <1>11, <1>13, <1>16, Zenon DEF WorkerOK, CountOK
  <2>2. i = OwnShare(n) + CurShare(main', x) - PostShare(main', x)
    BY <1>4, <1>11, <1>14, <1>15, <2>1
  <2>3. wk[x].in_flight >= -1
    BY <1>15, <2>1
  <2>4. i > 0 <=> (wk[x].in_flight > 0 \/ wk[x].in_flight = 0)
    BY <1>4, <1>15, <2>3
  <2>5. r <=> i > 0
    BY <1>4, <2>1, <2>4, Zenon
  <2> QED
    BY <1>13, <2>2, <2>5, Zenon
<1>17. /\ n.pc = "push" <=> n.job # NoJob
       /\ n.handle # "open" => n.pc = "exited" /\ n.results = <<>>
       /\ Stopped(x)' => n.handle # "open"
       /\ (n.results # <<>> /\ n.handle = "open") => n.bell \/ n.pc = "send" \/ main'.cur = x
  BY <1>3, <1>8, <1>11, <1>13, Zenon DEF WorkerOK, Silent, ResultOK
<1>18. \A w \in Workers : w # x =>
         /\ Stopped(w)' => Stopped(w)
         /\ main.cur = w => main'.cur = w \/ wk[w].results = <<>>
         /\ wk[w].handle = "open" => /\ CurShare(main', w) = CurShare(main, w)
                                     /\ PostShare(main', w) = PostShare(main, w)
  BY <1>8, <1>11, Zenon
<1> QED
  BY <1>7, <1>8, <1>10, <1>12, <1>13, <1>16, <1>17, <1>18, WorkerStep, Zenon
\* stop() tells the thread and wakes it.
LEMMA StopSignalStep ==
  ASSUME IInv, StopStore \/ StopPost
  PROVE  IInv'
<1>1. mgr \in ManagerState /\ main \in MainState /\ MainOK /\ mgr' = mgr
  BY Zenon DEF IInv, Shape, StopStore, StopPost
<1>2. PICK x \in Workers : x = main.tgt
  BY <1>1, Zenon DEF MainState
<1>3. wk[x] \in WorkerState /\ WorkerOK(x)
  BY Zenon DEF IInv, Shape
<1>4. PICK p \in {"stopPost", "join"} : main' = [main EXCEPT !.pc = p]
  BY Zenon DEF StopStore, StopPost
<1>5. PICK t \in BOOLEAN, k \in Int : wk' = [wk EXCEPT ![x] = [wk[x] EXCEPT !.stopped = t, !.sem = k]]
  <2>1. CASE StopStore
    <3>1. wk[x].sem \in Int
      BY <1>3, Zenon DEF WorkerState
    <3>2. wk' = [wk EXCEPT ![x] = [wk[x] EXCEPT !.stopped = TRUE, !.sem = wk[x].sem]]
      BY <1>2, <1>3, <2>1, Zenon DEF StopStore, IInv, Shape, WorkerState
    <3> QED
      BY <3>1, <3>2, Zenon
  <2>2. CASE StopPost
    <3>1. wk[x].sem + 1 \in Int /\ wk[x].stopped \in BOOLEAN
      BY <1>3 DEF WorkerState
    <3>2. wk' = [wk EXCEPT ![x] = [wk[x] EXCEPT !.stopped = wk[x].stopped, !.sem = wk[x].sem + 1]]
      BY <1>2, <1>3, <2>2, Zenon DEF StopPost, IInv, Shape, WorkerState
    <3> QED
      BY <3>1, <3>2, Zenon
  <2> QED
    BY <2>1, <2>2, Zenon
<1>6. /\ main' \in MainState /\ main'.pc = p /\ main'.tgt = main.tgt /\ main'.ret = main.ret
      /\ main'.fin = main.fin /\ main'.res = main.res /\ main'.cur = main.cur
      /\ main'.frame = main.frame
  BY <1>1, <1>4, Zenon DEF MainState
<1>7. Closing /\ Closing' /\ At = main.ret /\ At' = main.ret
  BY <1>6, Zenon DEF StopStore, StopPost, Closing, At
<1>8. MainOK'
  BY <1>1, <1>6, <1>7, Zenon DEF MainOK, PlaceOK, CloseOK, DeleteOK
<1>9. \A w \in Workers : /\ Stopped(w)' <=> Stopped(w)
                         /\ CurShare(main', w) = CurShare(main, w)
                         /\ PostShare(main', w) = PostShare(main, w)
  BY <1>1, <1>6, <1>7, Zenon DEF Stopped, CurShare, PostShare, Closing
<1> DEFINE n == [wk[x] EXCEPT !.stopped = t, !.sem = k]
<1>10. wk' = [wk EXCEPT ![x] = n]
  BY <1>5, Zenon
<1>11. /\ n \in WorkerState /\ n.sub = wk[x].sub /\ n.results = wk[x].results /\ n.job = wk[x].job
       /\ n.pc = wk[x].pc /\ n.handle = wk[x].handle /\ n.bell = wk[x].bell
       /\ n.in_flight = wk[x].in_flight /\ n.ref = wk[x].ref
  BY <1>3, Zenon DEF WorkerState
<1> HIDE DEF n
<1>12. OwnShare(n) = OwnShare(wk[x])
  BY <1>11, Zenon DEF OwnShare
<1>13. n.handle = "open" =>
         /\ n.in_flight = OwnShare(n) + CurShare(main', x) - PostShare(main', x)
         /\ n.ref <=> n.in_flight > 0
  BY <1>3, <1>9, <1>11, <1>12, Zenon DEF WorkerOK, CountOK
<1>14. /\ n.pc = "push" <=> n.job # NoJob
       /\ n.handle # "open" => n.pc = "exited" /\ n.results = <<>>
       /\ Stopped(x)' => n.handle # "open"
       /\ (n.results # <<>> /\ n.handle = "open") => n.bell \/ n.pc = "send" \/ main'.cur = x
  BY <1>3, <1>6, <1>9, <1>11, Zenon DEF WorkerOK, Silent, ResultOK
<1>15. \A w \in Workers : w # x =>
         /\ Stopped(w)' => Stopped(w)
         /\ main.cur = w => main'.cur = w \/ wk[w].results = <<>>
         /\ wk[w].handle = "open" => /\ CurShare(main', w) = CurShare(main, w)
                                     /\ PostShare(main', w) = PostShare(main, w)
  BY <1>6, <1>9, Zenon
<1> QED
  BY <1>1, <1>6, <1>8, <1>10, <1>11, <1>13, <1>14, <1>15, WorkerStep, Zenon

\* stop() joins the thread, drains the rings and closes the doorbell; the last
\* one ends js_close.
LEMMA StopJoinStep ==
  ASSUME IInv, StopJoin
  PROVE  IInv'
<1>1. mgr \in ManagerState /\ main \in MainState /\ MainOK /\ main.pc = "join"
  BY Zenon DEF IInv, Shape, StopJoin
<1>2. PICK x \in Workers : x = main.tgt
  BY <1>1, Zenon DEF MainState
<1>3. wk[x] \in WorkerState /\ WorkerOK(x) /\ wk[x].pc = "exited"
  BY <1>2, Zenon DEF IInv, Shape, StopJoin
<1>4. PICK p \in {"stop"} \cup {main.ret} : p = IF x + 1 \notin Workers THEN main.ret ELSE "stop"
  BY Zenon
<1>5. PICK t \in Workers : t = IF x + 1 \notin Workers THEN x ELSE x + 1
  BY Zenon
<1>6. PICK l \in {"open", "closed", "deleted"} :
        l = IF x + 1 \in Workers THEN mgr.life ELSE IF main.fin THEN "deleted" ELSE "closed"
  BY <1>1, Zenon DEF ManagerState
<1>7. main' = [main EXCEPT !.pc = p, !.tgt = t] /\ mgr' = [mgr EXCEPT !.life = l]
  BY <1>1, <1>2, <1>4, <1>5, <1>6, Zenon DEF StopJoin
<1>8. mgr' \in ManagerState /\ mgr'.opaque = mgr.opaque /\ mgr'.life = l
  BY <1>1, <1>7, Zenon DEF ManagerState
<1>9. /\ main' \in MainState /\ main'.pc = p /\ main'.tgt = t /\ main'.ret = main.ret
      /\ main'.fin = main.fin /\ main'.res = main.res /\ main'.cur = main.cur
      /\ main'.frame = main.frame /\ main.ret \in {"js", "account", "end"}
  BY <1>1, <1>4, <1>7, Zenon DEF MainState
<1>10. Closing /\ At = main.ret /\ At' = main.ret /\ (Closing' <=> x + 1 \in Workers) /\ ~ mgr.opaque
  BY <1>1, <1>4, <1>9, Zenon DEF Closing, At, MainOK, CloseOK
<1>11. MainOK'
  BY <1>1, <1>6, <1>8, <1>9, <1>10, Zenon DEF MainOK, PlaceOK, CloseOK, DeleteOK
<1>12. ASSUME NEW w \in Workers, w # x, Stopped(w)' PROVE Stopped(w)
  <2>1. w \in Nat /\ x \in Nat /\ w < NWorkers /\ x < NWorkers
    BY PoolSize DEF Workers
  <2>2. CASE x + 1 \in Workers
    BY <1>2, <1>5, <1>9, <1>10, <1>12, <2>1, <2>2 DEF Stopped
  <2>3. CASE x + 1 \notin Workers
    <3>1. x + 1 = NWorkers
      BY <2>1, <2>3, PoolSize DEF Workers
    <3>2. w < x
      BY <1>12, <2>1, <3>1, PoolSize
    <3> QED
      BY <1>2, <1>10, <3>2, Zenon DEF Stopped
  <2> QED
    BY <2>2, <2>3, Zenon
<1>13. \A w \in Workers : /\ CurShare(main', w) = CurShare(main, w)
                          /\ PostShare(main', w) = PostShare(main, w)
  BY <1>1, <1>4, <1>9, Zenon DEF CurShare, PostShare
<1>14. PICK e \in Seq(Jobs), f \in Seq(Result) : e = <<>> /\ f = <<>>
  <2>1. <<>> \in Seq(Jobs) /\ <<>> \in Seq(Result)
    OBVIOUS
  <2> QED
    BY <2>1, Zenon
<1> DEFINE n == [wk[x] EXCEPT !.sub = e, !.results = f, !.handle = "closing"]
<1>15. wk' = [wk EXCEPT ![x] = n]
  BY <1>2, <1>3, <1>14, Zenon DEF StopJoin, IInv, Shape
<1>16. n \in WorkerState /\ n.results = f /\ n.job = wk[x].job
       /\ n.pc = wk[x].pc /\ n.handle = "closing"
  BY <1>3, Zenon DEF WorkerState
<1> HIDE DEF n
<1>17. n.pc = "push" <=> n.job # NoJob
  BY <1>3, <1>16, Zenon DEF WorkerOK
<1>18. \A w \in Workers : w # x =>
         /\ Stopped(w)' => Stopped(w)
         /\ main.cur = w => main'.cur = w \/ wk[w].results = <<>>
         /\ wk[w].handle = "open" => /\ CurShare(main', w) = CurShare(main, w)
                                     /\ PostShare(main', w) = PostShare(main, w)
  BY <1>9, <1>12, <1>13, Zenon
<1>19. n.pc = "exited" /\ n.results = <<>> /\ n.handle # "open" /\ n \in WorkerState
  BY <1>3, <1>14, <1>16, Zenon
<1>20. main' \in MainState /\ mgr' \in ManagerState
  BY <1>8, <1>9, Zenon
<1> QED
  BY <1>11, <1>15, <1>17, <1>18, <1>19, <1>20, WorkerStep, Zenon

\* The loop answers the doorbell: on_result_ready takes over the results.
LEMMA RingStep ==
  ASSUME IInv, NEW x \in Workers, Ring(x)
  PROVE  IInv'
<1>1. mgr \in ManagerState /\ main \in MainState /\ MainOK /\ mgr' = mgr /\ main.pc = "loop"
      /\ main' = [main EXCEPT !.pc = "drain", !.cur = x]
  BY Zenon DEF IInv, Shape, Ring
<1>2. wk[x] \in WorkerState /\ WorkerOK(x) /\ wk[x].handle = "open"
  BY Zenon DEF IInv, Shape, Ring
<1>3. /\ main' \in MainState /\ main'.pc = "drain" /\ main'.tgt = main.tgt /\ main'.ret = main.ret
      /\ main'.fin = main.fin /\ main'.res = main.res /\ main'.cur = x
      /\ main'.frame = main.frame
  BY <1>1, Zenon DEF MainState
<1>4. ~ Closing /\ ~ Closing' /\ At = "loop" /\ At' = "drain"
  BY <1>1, <1>3, Zenon DEF Closing, At
<1>5. main.cur = NoWorker /\ main.res = NoJob
  BY <1>1, <1>4, Zenon DEF MainOK, PlaceOK
<1>6. MainOK'
  BY <1>1, <1>3, <1>4, <1>5, Zenon DEF MainOK, PlaceOK, CloseOK, DeleteOK
<1>7. mgr.opaque /\ main.ret = "js"
  BY <1>1, <1>2, <1>4, Zenon DEF WorkerOK, Stopped, MainOK, CloseOK
<1>8. \A w \in Workers : /\ ~ Stopped(w)'
                         /\ CurShare(main', w) = CurShare(main, w)
                         /\ PostShare(main', w) = PostShare(main, w)
  BY <1>1, <1>3, <1>5, <1>7, Indices, Zenon DEF Stopped, CurShare, PostShare
<1> DEFINE n == [wk[x] EXCEPT !.bell = FALSE]
<1>9. wk' = [wk EXCEPT ![x] = n]
  BY Zenon DEF Ring, IInv, Shape
<1>10. /\ n \in WorkerState /\ n.sub = wk[x].sub /\ n.results = wk[x].results /\ n.job = wk[x].job
       /\ n.pc = wk[x].pc /\ n.handle = "open"
       /\ n.in_flight = wk[x].in_flight /\ n.ref = wk[x].ref
  BY <1>2, Zenon DEF WorkerState
<1> HIDE DEF n
<1>11. OwnShare(n) = OwnShare(wk[x])
  BY <1>10, Zenon DEF OwnShare
<1>12. n.handle = "open" =>
         /\ n.in_flight = OwnShare(n) + CurShare(main', x) - PostShare(main', x)
         /\ n.ref <=> n.in_flight > 0
  BY <1>2, <1>8, <1>10, <1>11, Zenon DEF WorkerOK, CountOK
<1>13. n.pc = "push" <=> n.job # NoJob
  BY <1>2, <1>10, Zenon DEF WorkerOK
<1>14. \A w \in Workers : w # x =>
         /\ Stopped(w)' => Stopped(w)
         /\ main.cur = w => main'.cur = w \/ wk[w].results = <<>>
         /\ wk[w].handle = "open" => /\ CurShare(main', w) = CurShare(main, w)
                                     /\ PostShare(main', w) = PostShare(main, w)
  BY <1>5, <1>8, Indices, Zenon
<1> QED
  BY <1>1, <1>3, <1>6, <1>8, <1>9, <1>10, <1>12, <1>13, <1>14, WorkerStep, Zenon

\* The close callback of a doorbell deletes its worker.
LEMMA DeleteStep ==
  ASSUME IInv, NEW x \in Workers, DeleteWorker(x)
  PROVE  IInv'
<1>1. mgr \in ManagerState /\ main \in MainState /\ MainOK /\ mgr' = mgr /\ main' = main
  BY Zenon DEF IInv, Shape, DeleteWorker
<1>2. wk[x] \in WorkerState /\ WorkerOK(x) /\ wk[x].handle = "closing"
  BY Zenon DEF IInv, Shape, DeleteWorker
<1>3. MainOK'
  BY <1>1, Zenon DEF MainOK, PlaceOK, CloseOK, DeleteOK, At, Closing
<1> DEFINE n == [wk[x] EXCEPT !.handle = "deleted"]
<1>4. wk' = [wk EXCEPT ![x] = n]
  BY Zenon DEF DeleteWorker, IInv, Shape
<1>5. /\ n \in WorkerState /\ n.results = wk[x].results /\ n.job = wk[x].job
      /\ n.pc = wk[x].pc /\ n.handle = "deleted"
  BY <1>2, Zenon DEF WorkerState
<1> HIDE DEF n
<1>6. (n.pc = "push" <=> n.job # NoJob) /\ n.pc = "exited" /\ n.results = <<>>
  BY <1>2, <1>5, Zenon DEF WorkerOK, Silent
<1>7. \A w \in Workers : Stopped(w)' <=> Stopped(w)
  BY <1>1, Zenon DEF Stopped, Closing
<1>8. \A w \in Workers : w # x =>
         /\ Stopped(w)' => Stopped(w)
         /\ main.cur = w => main'.cur = w \/ wk[w].results = <<>>
         /\ wk[w].handle = "open" => /\ CurShare(main', w) = CurShare(main, w)
                                     /\ PostShare(main', w) = PostShare(main, w)
  BY <1>1, <1>7, Zenon
<1> QED
  BY <1>1, <1>3, <1>4, <1>5, <1>6, <1>8, WorkerStep, Zenon
\* on_result_ready pops a result and calls back: it stays outstanding, and the
\* manager is open.
LEMMA DrainStep ==
  ASSUME IInv, DrainPop
  PROVE  IInv' /\ mgr.opaque
<1>1. mgr \in ManagerState /\ main \in MainState /\ MainOK /\ main.pc = "drain"
  BY Zenon DEF IInv, Shape, DrainPop
<1>2. ~ Closing /\ At = "drain"
  BY <1>1, Zenon DEF Closing, At
<1>3. PICK x \in Workers : x = main.cur
  BY <1>1, <1>2, Zenon DEF MainOK, PlaceOK
<1>4. wk[x] \in WorkerState /\ WorkerOK(x) /\ wk[x].results # <<>>
  BY <1>3, Zenon DEF IInv, Shape, DrainPop
<1>5. mgr.opaque /\ main.ret = "js" /\ main.res = NoJob /\ wk[x].handle = "open"
  BY <1>1, <1>2, <1>4, Zenon DEF WorkerOK, Silent, Stopped, MainOK, PlaceOK, CloseOK
<1>6. PICK q \in Seq(Result) : q = Tail(wk[x].results) /\ Len(q) = Len(wk[x].results) - 1
  BY <1>4, Rings, Zenon DEF WorkerState
<1>7. PICK j \in Jobs : j = Head(wk[x].results).job
  <2>1. Head(wk[x].results) \in Result
    BY <1>4, Rings, Zenon DEF WorkerState
  <2> QED
    BY <2>1, Zenon DEF Result
<1>8. PICK st \in [Jobs -> {"unknown", "pending", "done", "error"}] :
        mgr' = [mgr EXCEPT !.job_status = st]
  <2>1. PICK v \in {"done", "error"} : v = IF Head(wk[x].results).error THEN "error" ELSE "done"
    BY Zenon
  <2>2. [mgr.job_status EXCEPT ![j] = v] \in [Jobs -> {"unknown", "pending", "done", "error"}]
    BY <1>1, Zenon DEF ManagerState
  <2>3. mgr' = [mgr EXCEPT !.job_status = [mgr.job_status EXCEPT ![j] = v]]
    BY <1>1, <1>3, <1>7, <2>1, Zenon DEF DrainPop
  <2> QED
    BY <2>2, <2>3, Zenon
<1>9. mgr' \in ManagerState /\ mgr'.opaque = mgr.opaque /\ mgr'.life = mgr.life
  BY <1>1, <1>8, Zenon DEF ManagerState
<1>10. main' = [main EXCEPT !.pc = "js", !.frame = "callback", !.res = j]
  BY <1>3, <1>7, Zenon DEF DrainPop
<1>11. /\ main' \in MainState /\ main'.pc = "js" /\ main'.tgt = main.tgt /\ main'.ret = main.ret
       /\ main'.fin = main.fin /\ main'.res = j /\ main'.cur = x /\ main'.frame = "callback"
  BY <1>1, <1>3, <1>10, Zenon DEF MainState
<1>12. ~ Closing' /\ At' = "js" /\ j # NoJob
  BY <1>11, Indices, Zenon DEF Closing, At
<1>13. MainOK'
  BY <1>1, <1>2, <1>5, <1>9, <1>11, <1>12, Zenon DEF MainOK, PlaceOK, CloseOK, DeleteOK
<1>14. \A w \in Workers : /\ ~ Stopped(w)'
                          /\ CurShare(main, w) = 0
                          /\ CurShare(main', w) = IF w = x THEN 1 ELSE 0
                          /\ PostShare(main', w) = 0 /\ PostShare(main, w) = 0
  BY <1>1, <1>3, <1>5, <1>9, <1>11, <1>12, Zenon DEF Stopped, CurShare, PostShare
<1> DEFINE n == [wk[x] EXCEPT !.results = q]
<1>15. wk' = [wk EXCEPT ![x] = n]
  BY <1>3, <1>6, Zenon DEF DrainPop, IInv, Shape
<1>16. /\ n \in WorkerState /\ n.sub = wk[x].sub /\ n.results = q /\ n.job = wk[x].job
       /\ n.pc = wk[x].pc /\ n.handle = "open" /\ n.bell = wk[x].bell
       /\ n.in_flight = wk[x].in_flight /\ n.ref = wk[x].ref
  BY <1>4, <1>5, Zenon DEF WorkerState
<1> HIDE DEF n
<1>17. OwnShare(n) + 1 = OwnShare(wk[x])
  <2>1. Len(wk[x].sub) \in Nat /\ Len(wk[x].results) \in Nat
    BY <1>4 DEF WorkerState
  <2>2. PICK h \in {0, 1} : h = IF wk[x].job # NoJob THEN 1 ELSE 0
    BY Zenon
  <2>3. OwnShare(n) = Len(wk[x].sub) + Len(q) + h
        /\ OwnShare(wk[x]) = Len(wk[x].sub) + Len(wk[x].results) + h
    BY <2>2, <1>16, Zenon DEF OwnShare
  <2>4. PICK a \in Nat, b \in Nat : a = Len(wk[x].sub) /\ b = Len(wk[x].results)
    BY <2>1, Zenon
  <2>5. OwnShare(n) = a + (b - 1) + h /\ OwnShare(wk[x]) = a + b + h
    BY <2>3, <2>4, <1>6, Zenon
  <2> QED
    BY <2>5
<1>18. OwnShare(wk[x]) \in Nat /\ OwnShare(n) \in Nat
  BY <1>1, <1>4, <1>16, ShareType, Zenon
<1>19. n.handle = "open" =>
         /\ n.in_flight = OwnShare(n) + CurShare(main', x) - PostShare(main', x)
         /\ n.ref <=> n.in_flight > 0
  <2>1. /\ CurShare(main, x) = 0 /\ PostShare(main, x) = 0
        /\ CurShare(main', x) = 1 /\ PostShare(main', x) = 0
    BY <1>14, Zenon
  <2>2. OwnShare(n) + CurShare(main', x) - PostShare(main', x)
          = OwnShare(wk[x]) + CurShare(main, x) - PostShare(main, x)
    BY <1>17, <1>18, <2>1
  <2> QED
    BY <1>4, <1>5, <1>16, <2>2, Zenon DEF WorkerOK, CountOK
<1>20. n.pc = "push" <=> n.job # NoJob
  BY <1>4, <1>16, Zenon DEF WorkerOK
<1>21. \A w \in Workers : w # x =>
         /\ Stopped(w)' => Stopped(w)
         /\ main.cur = w => main'.cur = w \/ wk[w].results = <<>>
         /\ wk[w].handle = "open" => /\ CurShare(main', w) = CurShare(main, w)
                                     /\ PostShare(main', w) = PostShare(main, w)
  BY <1>3, <1>14, Zenon
<1>22. IInv'
  BY <1>9, <1>11, <1>13, <1>14, <1>15, <1>16, <1>19, <1>20, <1>21, WorkerStep, Zenon
<1> QED
  BY <1>5, <1>22, Zenon

\* on_result_ready takes the handled result off the count.
LEMMA AccountStep ==
  ASSUME IInv, Account
  PROVE  IInv'
<1>1. mgr \in ManagerState /\ main \in MainState /\ MainOK /\ main.pc = "account" /\ mgr' = mgr
      /\ main' = [main EXCEPT !.pc = "drain"]
  BY Zenon DEF IInv, Shape, Account
<1>2. ~ Closing /\ At = "account"
  BY <1>1, Zenon DEF Closing, At
<1>3. PICK x \in Workers : x = main.cur /\ main.res = NoJob
  BY <1>1, <1>2, Zenon DEF MainOK, PlaceOK
<1>4. wk[x] \in WorkerState /\ WorkerOK(x)
  BY Zenon DEF IInv, Shape
<1>5. PICK i \in Int, r \in BOOLEAN :
        i = wk[x].in_flight - 1 /\ r = (wk[x].ref /\ wk[x].in_flight # 1)
  <2>1. wk[x].in_flight - 1 \in Int
    BY <1>4 DEF WorkerState
  <2>2. (wk[x].ref /\ wk[x].in_flight # 1) \in BOOLEAN
    BY Zenon
  <2> QED
    BY <2>1, <2>2, Zenon
<1>6. /\ main' \in MainState /\ main'.pc = "drain" /\ main'.tgt = main.tgt /\ main'.ret = main.ret
      /\ main'.fin = main.fin /\ main'.res = NoJob /\ main'.cur = x /\ main'.frame = main.frame
  BY <1>1, <1>3, Zenon DEF MainState
<1>7. ~ Closing' /\ At' = "drain"
  BY <1>6, Zenon DEF Closing, At
<1>8. MainOK'
  BY <1>1, <1>2, <1>3, <1>6, <1>7, Zenon DEF MainOK, PlaceOK, CloseOK, DeleteOK
<1>9. \A w \in Workers : Stopped(w)' <=> Stopped(w)
  BY <1>1, <1>2, <1>7, Zenon DEF Stopped
<1>10. \A w \in Workers : wk[w].handle = "open" =>
         /\ CurShare(main, w) = (IF w = x THEN 1 ELSE 0) /\ CurShare(main', w) = 0
         /\ PostShare(main', w) = 0 /\ PostShare(main, w) = 0
  <2>1. ASSUME NEW w \in Workers, wk[w].handle = "open" PROVE main.ret = "js"
    BY <1>1, <1>2, <2>1, Zenon DEF IInv, WorkerOK, Stopped, MainOK, CloseOK
  <2> QED
    BY <1>1, <1>3, <1>6, <2>1, Zenon DEF CurShare, PostShare
<1> DEFINE n == [wk[x] EXCEPT !.in_flight = i, !.ref = r]
<1>11. wk' = [wk EXCEPT ![x] = n]
  BY <1>3, <1>4, <1>5, Zenon DEF Account, IInv, Shape, WorkerState
<1>12. /\ n \in WorkerState /\ n.sub = wk[x].sub /\ n.results = wk[x].results /\ n.job = wk[x].job
       /\ n.pc = wk[x].pc /\ n.handle = wk[x].handle /\ n.bell = wk[x].bell
       /\ n.in_flight = i /\ n.ref = r
  BY <1>4, Zenon DEF WorkerState
<1> HIDE DEF n
<1>13. OwnShare(n) = OwnShare(wk[x])
  BY <1>12, Zenon DEF OwnShare
<1>14. OwnShare(wk[x]) \in Nat /\ wk[x].in_flight \in Int
  BY <1>1, <1>4, ShareType, Zenon DEF WorkerState
<1>15. ASSUME n.handle = "open"
       PROVE  /\ n.in_flight = OwnShare(n) + CurShare(main', x) - PostShare(main', x)
              /\ n.ref <=> n.in_flight > 0
  <2>1. /\ wk[x].in_flight = OwnShare(wk[x]) + CurShare(main, x) - PostShare(main, x)
        /\ wk[x].ref <=> wk[x].in_flight > 0
    BY <1>4, <1>12, <1>15, Zenon DEF WorkerOK, CountOK
  <2>2. /\ CurShare(main, x) = 1 /\ CurShare(main', x) = 0
        /\ PostShare(main', x) = 0 /\ PostShare(main, x) = 0
    BY <1>10, <1>12, <1>15, Zenon
  <2>3. wk[x].in_flight = OwnShare(wk[x]) + 1
    BY <1>14, <2>1, <2>2
  <2>4. i = OwnShare(n) + CurShare(main', x) - PostShare(main', x)
    BY <1>5, <1>13, <1>14, <2>3, <2>2
  <2>5. i > 0 <=> (wk[x].in_flight > 0 /\ wk[x].in_flight # 1)
    BY <1>5, <1>14, <2>3
  <2>6. r <=> i > 0
    BY <1>5, <2>1, <2>5, Zenon
  <2> QED
    BY <1>12, <2>4, <2>6, Zenon
<1>16. /\ n.pc = "push" <=> n.job # NoJob
       /\ n.handle # "open" => n.pc = "exited" /\ n.results = <<>>
       /\ Stopped(x)' => n.handle # "open"
       /\ (n.results # <<>> /\ n.handle = "open") => n.bell \/ n.pc = "send" \/ main'.cur = x
  BY <1>4, <1>6, <1>9, <1>12, Zenon DEF WorkerOK, Silent, ResultOK
<1>17. \A w \in Workers : w # x =>
         /\ Stopped(w)' => Stopped(w)
         /\ main.cur = w => main'.cur = w \/ wk[w].results = <<>>
         /\ wk[w].handle = "open" => /\ CurShare(main', w) = CurShare(main, w)
                                     /\ PostShare(main', w) = PostShare(main, w)
  BY <1>3, <1>9, <1>10, Zenon
<1> QED
  BY <1>1, <1>6, <1>8, <1>11, <1>12, <1>15, <1>16, <1>17, WorkerStep, Zenon
-----------------------------------------------------------------------------
(* Every step.                                                             *)

LEMMA InitIInv ==
  ASSUME NEW pc \in {"boot", "wait"}, InitAt(pc)
  PROVE  IInv
<1>1. mgr \in ManagerState /\ mgr.opaque /\ mgr.life = "open"
  BY Zenon DEF InitAt, ManagerState
<1>2. /\ main \in MainState /\ main.pc = "js" /\ main.ret = "js" /\ main.frame = "script"
      /\ main.cur = NoWorker /\ main.res = NoJob
  BY PoolSize DEF InitAt, MainState, Workers
<1>3. ASSUME NEW w \in Workers
      PROVE  /\ wk[w] \in WorkerState /\ wk[w].sub = <<>> /\ wk[w].results = <<>>
             /\ wk[w].job = NoJob /\ wk[w].pc = pc /\ wk[w].handle = "open"
             /\ wk[w].in_flight = 0 /\ wk[w].ref = FALSE
  <2>1. PICK e \in Seq(Jobs), f \in Seq(Result) : e = <<>> /\ f = <<>>
    <3>1. <<>> \in Seq(Jobs) /\ <<>> \in Seq(Result)
      OBVIOUS
    <3> QED
      BY <3>1, Zenon
  <2>2. wk[w] = [sub |-> e, sem |-> 0, stopped |-> FALSE, results |-> f, pc |-> pc, job |-> NoJob,
                 in_flight |-> 0, bell |-> FALSE, ref |-> FALSE, handle |-> "open"]
    BY <2>1, Zenon DEF InitAt, NewWorker
  <2>3. wk[w] \in WorkerState
    <3>1. ASSUME NEW a \in Seq(Jobs), NEW b \in Seq(Result)
          PROVE  [sub |-> a, sem |-> 0, stopped |-> FALSE, results |-> b, pc |-> pc, job |-> NoJob,
                  in_flight |-> 0, bell |-> FALSE, ref |-> FALSE, handle |-> "open"] \in WorkerState
      BY DEF WorkerState
    <3> QED
      BY <2>2, <3>1, Zenon
  <2>4. /\ wk[w].sub = e /\ wk[w].results = f /\ wk[w].job = NoJob /\ wk[w].pc = pc
        /\ wk[w].handle = "open" /\ wk[w].in_flight = 0 /\ wk[w].ref = FALSE
    BY <2>2
  <2> QED
    BY <2>1, <2>3, <2>4, Zenon
<1>4. Shape
  BY <1>1, <1>2, <1>3, Zenon DEF Shape, InitAt
<1>5. MainOK
  BY <1>1, <1>2, Zenon DEF MainOK, PlaceOK, CloseOK, DeleteOK, At, Closing
<1>6. ASSUME NEW w \in Workers PROVE WorkerOK(w)
  <2>1. CurShare(main, w) = 0 /\ PostShare(main, w) = 0
    BY <1>2, Indices, Zenon DEF CurShare, PostShare
  <2>2. OwnShare(wk[w]) = 0
    <3>1. wk[w].sub = <<>> /\ wk[w].results = <<>> /\ ~ (wk[w].job # NoJob)
      BY <1>3, Zenon
    <3>2. Len(<<>>) = 0 /\ 0 + 0 + 0 = 0
      OBVIOUS
    <3> QED
      BY <3>1, <3>2, Zenon DEF OwnShare
  <2>3. CountOK(w)
    <3>1. wk[w].in_flight = 0 /\ ~ wk[w].ref
      BY <1>3, Zenon
    <3>2. 0 + 0 - 0 = 0 /\ ~ (0 > 0)
      OBVIOUS
    <3> QED
      BY <3>1, <3>2, <2>1, <2>2, Zenon DEF CountOK
  <2> QED
    BY <1>1, <1>3, <2>3, Zenon DEF WorkerOK, ResultOK, Stopped
<1> QED
  BY <1>4, <1>5, <1>6, Zenon DEF IInv

LEMMA Stutter ==
  ASSUME IInv, UNCHANGED <<mgr, main, wk>>
  PROVE  IInv'
<1>1. MainOK'
  BY Zenon DEF IInv, MainOK, PlaceOK, CloseOK, DeleteOK, At, Closing
<1>2. \A w \in Workers : Stopped(w)' <=> Stopped(w)
  BY Zenon DEF Stopped, Closing
<1> QED
  BY <1>1, <1>2, MainOnly, Zenon DEF IInv, Shape

\* close(), the finalizer in the script, in on_result and in tear_down.
LEMMA ClosingStep ==
  ASSUME IInv, Close \/ DropManager \/ FreeCallbackAndManager \/ TearDown
  PROVE  IInv'
<1>1. CASE Close
  BY <1>1, CloseStep, Zenon DEF Close
<1>2. CASE DropManager
  BY <1>2, CloseStep, Zenon DEF DropManager
<1>3. CASE FreeCallbackAndManager
  BY <1>3, CloseStep, Zenon DEF FreeCallbackAndManager
<1>4. CASE TearDown
  <2>1. CASE StopAll("end", TRUE, main.res)
    BY <1>4, <2>1, CloseStep, Zenon DEF TearDown
  <2>2. CASE main' = [main EXCEPT !.pc = "end"] /\ UNCHANGED <<mgr, wk>>
    BY <1>4, <2>2, MoveStep, Zenon DEF TearDown
  <2> QED
    BY <1>4, <2>1, <2>2, Zenon DEF TearDown
<1> QED
  BY <1>1, <1>2, <1>3, <1>4, Zenon

LEMMA MainIInv ==
  ASSUME IInv, Main
  PROVE  IInv'
<1>1. CASE Dispatch \/ DispatchFull \/ EnqueuePost
  BY <1>1, DispatchStep, FullStep, EnqueueStep, Zenon
<1>2. CASE Close \/ DropManager \/ FreeCallbackAndManager \/ TearDown
  BY <1>2, ClosingStep, Zenon
<1>3. CASE StopStore \/ StopPost \/ StopJoin
  BY <1>3, StopSignalStep, StopJoinStep, Zenon
<1>4. CASE JsReturn \/ DrainEmpty \/ FreeCallback \/ OtherEvent \/ LoopExit \/ Interrupt
  BY <1>4, MoveStep, Zenon
<1>5. CASE DrainPop \/ Account
  BY <1>5, DrainStep, AccountStep, Zenon
<1>6. CASE \E w \in Workers : Ring(w) \/ DeleteWorker(w)
  BY <1>6, RingStep, DeleteStep, Zenon
<1> QED
  BY <1>1, <1>2, <1>3, <1>4, <1>5, <1>6, Zenon DEF Main, MainStep

LEMMA ThreadIInv ==
  ASSUME IInv, NEW w \in Workers,
         Thread(w) \/ LoadScript(w) \/ PushResult(w, TRUE)
  PROVE  IInv'
<1>1. CASE Spin(w)
  BY <1>1, Stutter, Zenon DEF Spin, vars
<1>2. CASE LoadScript(w)
  BY <1>2, LoadStep, Zenon
<1>3. CASE Wait(w) \/ CheckStopped(w) \/ Pop(w) \/ Send(w)
  BY <1>3, WaitStep, CheckStep, PopStep, SendStep, Zenon
<1>4. CASE \E error \in BOOLEAN : PushResult(w, error)
  BY <1>4, PushStep, Zenon
<1> QED
  BY <1>1, <1>2, <1>3, <1>4, Zenon DEF Thread

LEMMA NextIInv ==
  ASSUME IInv, [Next]_vars
  PROVE  IInv'
<1>1. CASE Finished \/ UNCHANGED vars
  BY <1>1, Stutter, Zenon DEF Finished, vars
<1> QED
  BY <1>1, MainIInv, ThreadIInv, Zenon DEF Next

LEMMA JSNextIInv ==
  ASSUME IInv, [JSNext]_jsVars
  PROVE  IInv'
<1>1. CASE Finished \/ UNCHANGED jsVars
  BY <1>1, Stutter, Zenon DEF Finished, vars, jsVars
<1>2. CASE \/ js_dispatch \/ js_enqueue \/ jsw_close \/ js_finalizer \/ js_stop
           \/ js_on_result \/ js_on_result_ready \/ js_loop
           \/ \E w \in Workers : js_ring(w) \/ js_delete(w)
  <2>1. Main
    BY <1>2, Zenon DEF Main, MainStep, js_dispatch, js_enqueue, jsw_close, js_finalizer, js_stop,
                js_on_result, js_on_result_ready, js_loop, js_ring, js_delete
  <2> QED
    BY <2>1, MainIInv, Zenon
<1>3. ASSUME NEW w \in Workers, JSThread(w) PROVE IInv'
  BY <1>3, ThreadIInv, Zenon DEF JSThread, ProcessThrows
<1> QED
  BY <1>1, <1>2, <1>3, Zenon DEF JSNext

\* Only on_result calls a callback, and it finds the manager open.
LEMMA CallOpen ==
  ASSUME IInv, [JSNext]_jsVars \/ [Next]_vars
  PROVE  [~ mgr.opaque => calls' = calls]_vars
<1>1. CASE DrainPop
  BY <1>1, DrainStep, Zenon
<1>2. ASSUME Main, ~ DrainPop PROVE calls' = calls
  BY <1>2, Zenon DEF Main, MainStep, Dispatch, DispatchFull, TakeJob, Close, DropManager,
     FreeCallbackAndManager, StopAll, OtherEvent, Interrupt, Ring, DeleteWorker, EnqueuePost,
     JsReturn, StopStore, StopPost, StopJoin, DrainEmpty, FreeCallback, Account, LoopExit, TearDown
<1>3. ASSUME NEW w \in Workers, Thread(w) \/ LoadScript(w) \/ PushResult(w, TRUE)
      PROVE  calls' = calls
  BY <1>3, Zenon DEF Thread, LoadScript, PushResult, Wait, CheckStopped, Pop, Spin, vars, Send
<1>4. CASE [Next]_vars
  BY <1>1, <1>2, <1>3, <1>4, Zenon DEF Next, Finished, vars
<1>5. CASE [JSNext]_jsVars
  <2>1. CASE Finished \/ UNCHANGED jsVars
    BY <2>1, Zenon DEF Finished, vars, jsVars
  <2>2. CASE Main
    BY <1>1, <1>2, <2>2, Zenon
  <2>3. ASSUME NEW w \in Workers, JSThread(w) PROVE calls' = calls
    BY <1>3, <2>3, Zenon DEF JSThread, ProcessThrows
  <2> QED
    BY <1>5, <2>1, <2>2, <2>3, Zenon DEF JSNext, Main, MainStep, js_dispatch, js_enqueue, jsw_close,
       js_finalizer, js_stop, js_on_result, js_on_result_ready, js_loop, js_ring, js_delete
<1> QED
  BY <1>4, <1>5, Zenon

-----------------------------------------------------------------------------
(* Who owns a callback.                                                    *)

LEMMA OwnSame ==
  ASSUME NEW H \in Holding, NEW m, NEW next, NEW st, NEW rc, Owned(H, m, next, st, rc), next \in Nat,
         NEW st2, \A j \in Jobs : st2[j] # st[j] => j \in Held(H, m)
  PROVE  Owned(H, m, next, st2, rc)
<1>1. ASSUME NEW j \in Jobs, j >= next PROVE st2[j] = "unknown"
  BY <1>1, Indices DEF Owned
<1> QED
  BY <1>1, Zenon DEF Owned

\* js_dispatch gives the next job to worker x, or fails to.
LEMMA OwnTake ==
  ASSUME NEW H \in Holding, NEW m, NEW next \in Jobs, NEW st, NEW rc \in [Jobs -> Int],
         Owned(H, m, next, st, rc), NEW x \in Workers
  PROVE  /\ Owned([H EXCEPT ![x] = H[x] \cup {next}], m, next + 1, st,
                  [rc EXCEPT ![next] = rc[next] + 1])
         /\ Owned(H, m, next + 1, st, [rc EXCEPT ![next] = rc[next] + 1])
<1> DEFINE G == [H EXCEPT ![x] = H[x] \cup {next}]
           r2 == [rc EXCEPT ![next] = rc[next] + 1]
<1>1. next \in Nat /\ next \notin Held(H, m) /\ rc[next] = 0 /\ st[next] = "unknown"
  BY Indices DEF Owned
<1>2. /\ \A w \in Workers : G[w] = IF w = x THEN H[w] \cup {next} ELSE H[w]
      /\ \A j \in Jobs : r2[j] = IF j = next THEN 1 ELSE rc[j]
  BY <1>1 DEF Holding
<1>3. next # m /\ \A w \in Workers : next \notin H[w]
  BY <1>1, Zenon DEF Held
<1> HIDE DEF G, r2
<1>4. Held(G, m) = Held(H, m) \cup {next}
  BY <1>2, Zenon DEF Held
<1>5. \A j \in Jobs : j >= next + 1 => j >= next /\ j # next
  BY <1>1, Indices
<1>6. \A j \in Jobs : j < next => j < next + 1 /\ j # next
  BY <1>1, Indices
<1>7. next < next + 1
  BY <1>1
<1>8. Held(H, m) \subseteq Jobs
  BY Zenon DEF Held
<1>9. Owned(H, m, next + 1, st, r2)
  BY <1>1, <1>2, <1>5, <1>6, <1>8, Zenon DEF Owned
<1>10. Owned(G, m, next + 1, st, r2)
  <2>1. ASSUME NEW v \in Workers, NEW w \in Workers, v # w PROVE G[v] \cap G[w] = {}
    <3>1. H[v] \cap H[w] = {}
      BY <2>1, Zenon DEF Owned
    <3>2. G[v] \in {H[v], H[v] \cup {next}} /\ G[w] \in {H[w], H[w] \cup {next}}
          /\ (G[v] = H[v] \/ G[w] = H[w])
      BY <1>2, <2>1, Zenon
    <3> QED
      BY <1>3, <3>1, <3>2, Zenon
  <2>2. ASSUME NEW w \in Workers PROVE m \notin G[w]
    <3>1. m \notin H[w]
      BY Zenon DEF Owned
    <3>2. G[w] \in {H[w], H[w] \cup {next}}
      BY <1>2, Zenon
    <3> QED
      BY <1>3, <3>1, <3>2, Zenon
  <2>3. \A j \in Held(G, m) : r2[j] = 1 /\ j < next + 1
    BY <1>2, <1>4, <1>6, <1>7, <1>8, Zenon DEF Owned
  <2> QED
    BY <1>4, <1>9, <2>1, <2>2, <2>3, Zenon DEF Owned
<1> QED
  BY <1>9, <1>10, Zenon DEF G, r2

\* on_result_ready takes job j from worker x.
LEMMA OwnPop ==
  ASSUME NEW H \in Holding, NEW next, NEW st, NEW rc, Owned(H, NoJob, next, st, rc),
         NEW x \in Workers, NEW j \in H[x]
  PROVE  /\ Owned([H EXCEPT ![x] = H[x] \ {j}], j, next, st, rc)
         /\ Held([H EXCEPT ![x] = H[x] \ {j}], j) = Held(H, NoJob)
<1> DEFINE G == [H EXCEPT ![x] = H[x] \ {j}]
<1>1. \A w \in Workers : G[w] = IF w = x THEN H[w] \ {j} ELSE H[w]
  BY Zenon DEF Holding
<1>2. j \in Jobs
  BY Zenon DEF Holding
<1>3. \A w \in Workers : j \notin G[w]
  BY <1>1 DEF Owned
<1> HIDE DEF G
<1>4. Held(G, j) = Held(H, NoJob)
  BY <1>1, <1>2, Indices, Zenon DEF Held
<1>5. Owned(G, j, next, st, rc)
  <2>1. \A w \in Workers : G[w] \subseteq H[w]
    BY <1>1, Zenon
  <2>2. \A v, w \in Workers : v # w => G[v] \cap G[w] = {}
    BY <2>1, Zenon DEF Owned
  <2> QED
    BY <1>3, <1>4, <2>2, Zenon DEF Owned
<1> QED
  BY <1>4, <1>5, Zenon DEF G

\* on_result frees the callback of the job it has.
LEMMA OwnFree ==
  ASSUME NEW H \in Holding, NEW m \in Jobs, NEW next, NEW st, NEW rc \in [Jobs -> Int],
         Owned(H, m, next, st, rc)
  PROVE  Owned(H, NoJob, next, st, [rc EXCEPT ![m] = rc[m] - 1])
<1> DEFINE r2 == [rc EXCEPT ![m] = rc[m] - 1]
<1>1. m \in Held(H, m)
  BY Zenon DEF Held
<1>2. \A j \in Jobs : r2[j] = IF j = m THEN 0 ELSE rc[j]
  BY <1>1 DEF Owned
<1> HIDE DEF r2
<1>3. Held(H, NoJob) = Held(H, m) \ {m}
  BY Indices, Zenon DEF Held, Owned
<1>4. NoJob \notin Jobs /\ \A w \in Workers : H[w] \subseteq Jobs
  BY Indices, Zenon DEF Holding
<1>5. Held(H, m) \subseteq Jobs
  BY Zenon DEF Held
<1>6. Owned(H, NoJob, next, st, r2)
  BY <1>2, <1>3, <1>4, <1>5, Zenon DEF Owned
<1> QED
  BY <1>6, Zenon DEF r2

\* stop() frees the callbacks that worker x has.
LEMMA OwnDrain ==
  ASSUME NEW H \in Holding, NEW m, NEW next, NEW st, NEW rc \in [Jobs -> Int],
         Owned(H, m, next, st, rc), NEW x \in Workers,
         NEW r2, \A j \in Jobs : r2[j] = IF j \in H[x] THEN rc[j] - 1 ELSE rc[j]
  PROVE  Owned([H EXCEPT ![x] = {}], m, next, st, r2)
<1> DEFINE G == [H EXCEPT ![x] = {}]
<1>1. \A w \in Workers : G[w] = IF w = x THEN {} ELSE H[w]
  BY Zenon DEF Holding
<1>2. H[x] \subseteq Held(H, m)
  BY Zenon DEF Held, Holding
<1>3. Held(H, m) \subseteq Jobs
  BY Zenon DEF Held
<1>4. \A j \in Jobs : r2[j] = IF j \in H[x] THEN 0 ELSE rc[j]
  <2>1. ASSUME NEW j \in Jobs, j \in H[x] PROVE r2[j] = 0
    BY <1>2, <2>1 DEF Owned
  <2> QED
    BY <2>1, Zenon
<1> HIDE DEF G
<1>5. Held(G, m) = Held(H, m) \ H[x]
  BY <1>1, ZenonT(40) DEF Held, Owned
<1>6. Owned(G, m, next, st, r2)
  BY <1>1, <1>3, <1>4, <1>5, Zenon DEF Owned
<1> QED
  BY <1>6, Zenon DEF G

-----------------------------------------------------------------------------
(* The jobs a worker has.                                                  *)

\* The jobs whose callbacks worker n has, and that it has each of them once.
Has(n) ==
  Range(n.sub) \cup {n.results[i].job : i \in DOMAIN n.results} \cup ({n.job} \ {NoJob})

Once(n) ==
  /\ \A i, k \in DOMAIN n.sub : n.sub[i] = n.sub[k] => i = k
  /\ \A i, k \in DOMAIN n.results : n.results[i].job = n.results[k].job => i = k
  /\ \A i \in DOMAIN n.sub, k \in DOMAIN n.results : n.sub[i] # n.results[k].job
  /\ \A i \in DOMAIN n.sub : n.sub[i] # n.job
  /\ \A k \in DOMAIN n.results : n.results[k].job # n.job

Having == [w \in Workers |-> Has(wk[w])]

OInv ==
  /\ refs \in [Jobs -> Int]
  /\ \A w \in Workers : Once(wk[w])
  /\ Owned(Having, main.res, mgr.next_job_id, mgr.job_status, refs)
  /\ main.pc = "post" => mgr.next_job_id - 1 \in Held(Having, main.res)

LEMMA Taken ==
  ASSUME NEW S, NEW q \in Seq(S), q # <<>>
  PROVE  \E l \in Nat :
           /\ l >= 1 /\ DOMAIN q = 1 .. l /\ DOMAIN Tail(q) = 1 .. (l - 1)
           /\ \A i \in 1 .. l : q[i] \in S
           /\ Head(q) = q[1] /\ \A i \in 1 .. (l - 1) : Tail(q)[i] = q[i + 1]
<1>1. Len(q) \in Nat /\ Len(q) >= 1 /\ DOMAIN q = 1 .. Len(q) /\ DOMAIN Tail(q) = 1 .. (Len(q) - 1)
      /\ Head(q) = q[1] /\ \A i \in 1 .. Len(q) : q[i] \in S
  OBVIOUS
<1>2. \A i \in 1 .. (Len(q) - 1) : Tail(q)[i] = q[i + 1]
  OBVIOUS
<1> QED
  BY <1>1, <1>2, Zenon

LEMMA Added ==
  ASSUME NEW S, NEW q \in Seq(S), NEW e \in S
  PROVE  \E l \in Nat :
           /\ DOMAIN q = 1 .. l /\ DOMAIN Append(q, e) = 1 .. (l + 1)
           /\ \A i \in 1 .. l : q[i] \in S /\ Append(q, e)[i] = q[i]
           /\ Append(q, e)[l + 1] = e
<1>1. Len(q) \in Nat
  OBVIOUS
<1>2. PICK t : t = Append(q, e)
  BY Zenon
<1>3. PICK l \in Nat : l = Len(q)
  BY <1>1, Zenon
<1>4. DOMAIN q = 1 .. l /\ DOMAIN t = 1 .. (l + 1) /\ t[l + 1] = e
  BY <1>2, <1>3
<1>5. \A i \in 1 .. l : q[i] \in S /\ t[i] = q[i]
  BY <1>2, <1>3
<1>6. /\ DOMAIN q = 1 .. l /\ DOMAIN t = 1 .. (l + 1)
      /\ \A i \in 1 .. l : q[i] \in S /\ t[i] = q[i]
      /\ t[l + 1] = e
  BY <1>4, <1>5, Zenon
<1>7. \E m \in Nat : /\ DOMAIN q = 1 .. m /\ DOMAIN t = 1 .. (m + 1)
                     /\ \A i \in 1 .. m : q[i] \in S /\ t[i] = q[i]
                     /\ t[m + 1] = e
  BY <1>6, Zenon
<1> QED
  BY <1>2, <1>7, Zenon

LEMMA TailRange ==
  ASSUME NEW S, NEW q \in Seq(S), q # <<>>
  PROVE  Range(q) = Range(Tail(q)) \cup {Head(q)}
<1>1. PICK l \in Nat :
        /\ l >= 1 /\ DOMAIN q = 1 .. l /\ DOMAIN Tail(q) = 1 .. (l - 1)
        /\ Head(q) = q[1] /\ \A i \in 1 .. (l - 1) : Tail(q)[i] = q[i + 1]
  BY Taken
<1>2. ASSUME NEW j \in Range(q) PROVE j \in Range(Tail(q)) \cup {Head(q)}
  <2>1. PICK i \in 1 .. l : j = q[i]
    BY <1>1, <1>2, Zenon DEF Range
  <2>2. CASE i # 1
    <3>1. i - 1 \in 1 .. (l - 1) /\ (i - 1) + 1 = i
      BY <2>2
    <3>2. j = Tail(q)[i - 1]
      BY <1>1, <2>1, <3>1, Zenon
    <3> QED
      BY <1>1, <3>1, <3>2, Zenon DEF Range
  <2> QED
    BY <1>1, <2>1, <2>2, Zenon
<1>3. ASSUME NEW j \in Range(Tail(q)) PROVE j \in Range(q)
  <2>1. PICK i \in 1 .. (l - 1) : j = Tail(q)[i]
    BY <1>1, <1>3, Zenon DEF Range
  <2>2. i + 1 \in 1 .. l
    OBVIOUS
  <2> QED
    BY <1>1, <2>1, <2>2, Zenon DEF Range
<1>4. Head(q) \in Range(q)
  BY <1>1 DEF Range
<1> QED
  BY <1>2, <1>3, <1>4, Zenon

\* The thread takes a job from its queue.
LEMMA PopHas ==
  ASSUME NEW r \in WorkerState, NEW n \in WorkerState, Once(r), r.sub # <<>>, r.job = NoJob,
         n.sub = Tail(r.sub), n.job = Head(r.sub), n.results = r.results
  PROVE  Once(n) /\ Has(n) = Has(r)
<1>1. r.sub \in Seq(Jobs)
  BY Zenon DEF WorkerState
<1>2. PICK l \in Nat :
         /\ l >= 1 /\ DOMAIN r.sub = 1 .. l /\ DOMAIN n.sub = 1 .. (l - 1)
         /\ \A i \in 1 .. l : r.sub[i] \in Jobs
         /\ n.job = r.sub[1] /\ \A i \in 1 .. (l - 1) : n.sub[i] = r.sub[i + 1]
  BY <1>1, Taken
<1>3. n.job # NoJob
  BY <1>2, Indices
<1>4. Range(r.sub) = Range(n.sub) \cup {n.job}
  BY <1>1, TailRange, Zenon
<1>5. Has(n) = Has(r)
  BY <1>3, <1>4, Zenon DEF Has
<1>6. Once(n)
  <2>1. \A i \in 1 .. (l - 1) : i + 1 \in 1 .. l /\ i + 1 # 1
    OBVIOUS
  <2>2. \A i, k \in DOMAIN n.sub : n.sub[i] = n.sub[k] => i = k
    <3>1. ASSUME NEW i \in 1 .. (l - 1), NEW k \in 1 .. (l - 1), n.sub[i] = n.sub[k] PROVE i = k
      <4>1. i + 1 = k + 1
        BY <1>2, <2>1, <3>1, SMTT(40) DEF Once
      <4> QED
        BY <4>1
    <3> QED
      BY <1>2, <3>1, Zenon
  <2>3. \A i \in DOMAIN n.sub : n.sub[i] # n.job
    BY <1>2, <2>1 DEF Once
  <2>4. \A i \in DOMAIN n.sub, k \in DOMAIN n.results : n.sub[i] # n.results[k].job
    BY <1>2, <2>1, SMTT(40) DEF Once
  <2>5. \A k \in DOMAIN n.results : n.results[k].job # n.job
    BY <1>2 DEF Once
  <2> QED
    BY <2>2, <2>3, <2>4, <2>5, Zenon DEF Once
<1> QED
  BY <1>5, <1>6, Zenon

\* The thread pushes the result of its job.
LEMMA PushHas ==
  ASSUME NEW r \in WorkerState, NEW n \in WorkerState, Once(r), r.job # NoJob,
         NEW e \in Result, e.job = r.job, n.results = Append(r.results, e), n.job = NoJob,
         n.sub = r.sub
  PROVE  Once(n) /\ Has(n) = Has(r)
<1>1. r.results \in Seq(Result) /\ r.sub \in Seq(Jobs)
  BY Zenon DEF WorkerState
<1>2. PICK l \in Nat :
         /\ DOMAIN r.results = 1 .. l /\ DOMAIN n.results = 1 .. (l + 1)
         /\ \A i \in 1 .. l : r.results[i] \in Result /\ n.results[i] = r.results[i]
         /\ n.results[l + 1] = e
  BY <1>1, Added, SMTT(40)
<1>3. 1 .. (l + 1) = (1 .. l) \cup {l + 1} /\ l + 1 \notin 1 .. l
  OBVIOUS
<1>4. /\ \A i \in 1 .. l : n.results[i].job = r.results[i].job /\ r.results[i].job \in Jobs
      /\ n.results[l + 1].job = r.job
  BY <1>2, Zenon DEF Result
<1>5. Has(n) = Has(r)
  <2>1. {n.results[i].job : i \in DOMAIN n.results} =
          {r.results[i].job : i \in DOMAIN r.results} \cup {r.job}
    BY <1>2, <1>3, <1>4
  <2> QED
    BY <2>1, Zenon DEF Has
<1>6. Once(n)
  <2>1. \A i \in DOMAIN n.sub : n.sub[i] \in Jobs
    BY <1>1
  <2>2. \A i, k \in DOMAIN n.results : n.results[i].job = n.results[k].job => i = k
    BY <1>2, <1>3, <1>4 DEF Once
  <2>3. \A i \in DOMAIN n.sub, k \in DOMAIN n.results : n.sub[i] # n.results[k].job
    BY <1>2, <1>3, <1>4 DEF Once
  <2>4. \A i \in DOMAIN n.sub : n.sub[i] # n.job
    BY <2>1, Indices, Zenon
  <2>5. \A k \in DOMAIN n.results : n.results[k].job # n.job
    <3>1. r.job \in Jobs
      BY Zenon DEF Result
    <3> QED
      BY <1>2, <1>3, <1>4, <3>1, Indices, Zenon
  <2>6. \A i, k \in DOMAIN n.sub : n.sub[i] = n.sub[k] => i = k
    BY Zenon DEF Once
  <2> QED
    BY <2>2, <2>3, <2>4, <2>5, <2>6, Zenon DEF Once
<1> QED
  BY <1>5, <1>6, Zenon

\* js_dispatch pushes a new job.
LEMMA DispatchHas ==
  ASSUME NEW r \in WorkerState, NEW n \in WorkerState, Once(r), NEW j \in Jobs, j \notin Has(r),
         n.sub = Append(r.sub, j), n.results = r.results, n.job = r.job
  PROVE  Once(n) /\ Has(n) = Has(r) \cup {j}
<1>1. r.sub \in Seq(Jobs)
  BY Zenon DEF WorkerState
<1>2. PICK l \in Nat :
         /\ DOMAIN r.sub = 1 .. l /\ DOMAIN n.sub = 1 .. (l + 1)
         /\ \A i \in 1 .. l : r.sub[i] \in Jobs /\ n.sub[i] = r.sub[i]
         /\ n.sub[l + 1] = j
  BY <1>1, Added
<1>3. 1 .. (l + 1) = (1 .. l) \cup {l + 1} /\ l + 1 \notin 1 .. l
  OBVIOUS
<1>4. /\ \A i \in 1 .. l : r.sub[i] # j
      /\ \A k \in DOMAIN r.results : r.results[k].job # j
      /\ r.job # j
  <2>1. NoJob # j
    BY Indices, Zenon
  <2> QED
    BY <1>2, <2>1, Zenon DEF Has, Range
<1>5. Range(n.sub) = Range(r.sub) \cup {j}
  BY <1>2, <1>3 DEF Range
<1>6. Has(n) = Has(r) \cup {j}
  BY <1>5, Zenon DEF Has
<1>7. Once(n)
  BY <1>2, <1>3, <1>4 DEF Once
<1> QED
  BY <1>6, <1>7, Zenon

\* on_result_ready pops the oldest result.
LEMMA DrainHas ==
  ASSUME NEW r \in WorkerState, NEW n \in WorkerState, Once(r), r.results # <<>>,
         n.results = Tail(r.results), n.sub = r.sub, n.job = r.job
  PROVE  /\ Once(n) /\ Head(r.results).job \in Has(r)
         /\ Has(n) = Has(r) \ {Head(r.results).job}
<1>1. r.results \in Seq(Result)
  BY Zenon DEF WorkerState
<1>2. PICK l \in Nat :
         /\ l >= 1 /\ DOMAIN r.results = 1 .. l /\ DOMAIN n.results = 1 .. (l - 1)
         /\ \A i \in 1 .. l : r.results[i] \in Result
         /\ Head(r.results) = r.results[1]
         /\ \A i \in 1 .. (l - 1) : n.results[i] = r.results[i + 1]
  <2>1. PICK l \in Nat :
           /\ l >= 1 /\ DOMAIN r.results = 1 .. l /\ DOMAIN Tail(r.results) = 1 .. (l - 1)
           /\ \A i \in 1 .. l : r.results[i] \in Result
           /\ Head(r.results) = r.results[1]
           /\ \A i \in 1 .. (l - 1) : Tail(r.results)[i] = r.results[i + 1]
    BY <1>1, Taken, Zenon
  <2> QED
    BY <2>1, Zenon
<1>3. PICK j : j = r.results[1].job
  BY Zenon
<1>4. j \in Jobs /\ j # NoJob
  BY <1>2, <1>3, Indices DEF Result
<1>5. \A i \in 1 .. (l - 1) : i + 1 \in 1 .. l /\ i + 1 # 1
  OBVIOUS
<1>6. \A i \in 1 .. l : i # 1 => i - 1 \in 1 .. (l - 1) /\ (i - 1) + 1 = i
  OBVIOUS
<1>7. {n.results[i].job : i \in DOMAIN n.results}
        = {r.results[i].job : i \in DOMAIN r.results} \ {j}
  <2>1. ASSUME NEW i \in 1 .. (l - 1)
        PROVE  /\ n.results[i].job # j
               /\ n.results[i].job \in {r.results[k].job : k \in DOMAIN r.results}
    BY <1>2, <1>3, <1>5 DEF Once
  <2>2. ASSUME NEW i \in 1 .. l, r.results[i].job # j
        PROVE  r.results[i].job \in {n.results[k].job : k \in DOMAIN n.results}
    <3>1. i # 1
      BY <1>3, <2>2, Zenon
    <3>2. n.results[i - 1] = r.results[i]
      BY <1>2, <1>6, <3>1, Zenon
    <3> QED
      BY <1>2, <1>6, <3>1, <3>2, Zenon
  <2> QED
    BY <1>2, <2>1, <2>2, ZenonT(40)
<1>8. j \notin Range(r.sub) /\ j # r.job /\ j \in {r.results[i].job : i \in DOMAIN r.results}
  BY <1>2, <1>3 DEF Once, Range
<1>9. Has(n) = Has(r) \ {j} /\ j \in Has(r)
  BY <1>7, <1>8, Zenon DEF Has
<1>10. Once(n)
  <2>1. \A i, k \in DOMAIN n.results : n.results[i].job = n.results[k].job => i = k
    <3>1. ASSUME NEW i \in 1 .. (l - 1), NEW k \in 1 .. (l - 1),
                 n.results[i].job = n.results[k].job
          PROVE  i = k
      <4>1. i + 1 = k + 1
        BY <1>2, <1>5, <3>1, SMTT(40) DEF Once
      <4> QED
        BY <4>1
    <3> QED
      BY <1>2, <3>1, Zenon
  <2>2. \A i \in DOMAIN n.sub, k \in DOMAIN n.results : n.sub[i] # n.results[k].job
    BY <1>2, <1>5 DEF Once
  <2>3. \A k \in DOMAIN n.results : n.results[k].job # n.job
    BY <1>2, <1>5 DEF Once
  <2> QED
    BY <2>1, <2>2, <2>3, Zenon DEF Once
<1> QED
  BY <1>2, <1>3, <1>9, <1>10, Zenon

-----------------------------------------------------------------------------
(* Every step keeps the ownership of callbacks.                            *)

LEMMA HavingType ==
  ASSUME IInv
  PROVE  Having \in Holding
<1>1. ASSUME NEW w \in Workers PROVE Has(wk[w]) \subseteq Jobs
  <2>1. wk[w].sub \in Seq(Jobs) /\ wk[w].results \in Seq(Result) /\ wk[w].job \in Jobs \cup {NoJob}
    BY Zenon DEF IInv, Shape, WorkerState
  <2>2. Range(wk[w].sub) \subseteq Jobs
    BY <2>1 DEF Range
  <2>3. ASSUME NEW i \in DOMAIN wk[w].results PROVE wk[w].results[i].job \in Jobs
    <3>1. wk[w].results[i] \in Result
      BY <2>1
    <3> QED
      BY <3>1, Zenon DEF Result
  <2> QED
    BY <2>1, <2>2, <2>3, Zenon DEF Has
<1> QED
  BY <1>1, Zenon DEF Having, Holding

LEMMA HavingStep ==
  ASSUME IInv, NEW x \in Workers, NEW n, wk' = [wk EXCEPT ![x] = n]
  PROVE  /\ Having' = [Having EXCEPT ![x] = Has(n)]
         /\ wk'[x] = n /\ \A w \in Workers : w # x => wk'[w] = wk[w]
         /\ Having[x] = Has(wk[x])
<1>1. wk'[x] = n /\ \A w \in Workers : w # x => wk'[w] = wk[w]
  BY Zenon DEF IInv, Shape
<1>2. \A w \in Workers : Having'[w] = IF w = x THEN Has(n) ELSE Having[w]
  <2>1. \A w \in Workers : Having'[w] = Has(wk'[w]) /\ Having[w] = Has(wk[w])
    BY Zenon DEF Having
  <2> QED
    BY <1>1, <2>1, Zenon
<1> QED
  BY <1>1, <1>2, Zenon DEF Having

\* A step by which no job changes hands.
LEMMA StayOwned ==
  ASSUME IInv, OInv, Having' = Having, \A w \in Workers : Once(wk'[w]),
         main'.res = main.res, mgr'.next_job_id = mgr.next_job_id, UNCHANGED refs,
         \A j \in Jobs : mgr'.job_status[j] # mgr.job_status[j] => j \in Held(Having, main.res),
         main'.pc = "post" => main.pc = "post"
  PROVE  OInv'
<1>1. mgr.next_job_id \in Nat
  BY Zenon DEF IInv, Shape, ManagerState
<1>2. Owned(Having, main.res, mgr.next_job_id, mgr'.job_status, refs)
  BY <1>1, HavingType, OwnSame, Zenon DEF OInv
<1> QED
  BY <1>2, Zenon DEF OInv

LEMMA SameHas ==
  ASSUME NEW r, NEW n, n.sub = r.sub, n.results = r.results, n.job = r.job
  PROVE  Has(n) = Has(r) /\ (Once(r) => Once(n))
<1>1. Has(n) = Has(r)
  BY Zenon DEF Has
<1>2. Once(r) => Once(n)
  BY DEF Once
<1> QED
  BY <1>1, <1>2, Zenon

\* The thread of worker x moves a job along, or does something else.
LEMMA ThreadOwn ==
  ASSUME IInv, OInv, NEW x \in Workers, NEW n, wk' = [wk EXCEPT ![x] = n],
         Once(n), Has(n) = Has(wk[x]), UNCHANGED <<mgr, main, refs>>
  PROVE  OInv'
<1>1. Having' = [Having EXCEPT ![x] = Having[x]]
  BY HavingStep, ZenonT(40)
<1>2. Having' = Having
  BY <1>1, HavingType, Zenon DEF Holding
<1>3. \A w \in Workers : Once(wk'[w])
  BY HavingStep, Zenon DEF OInv
<1> QED
  BY <1>2, <1>3, StayOwned, Zenon

LEMMA ThreadsOwn ==
  ASSUME IInv, OInv, NEW x \in Workers, Thread(x) \/ LoadScript(x) \/ PushResult(x, TRUE)
  PROVE  OInv'
<1>1. wk[x] \in WorkerState /\ WorkerOK(x) /\ Once(wk[x])
  BY Zenon DEF IInv, Shape, OInv
<1>2. UNCHANGED <<mgr, main, refs>>
  BY Zenon DEF Thread, LoadScript, PushResult, Wait, CheckStopped, Pop, Spin, vars, Send
<1>3. ASSUME NEW n \in WorkerState, wk' = [wk EXCEPT ![x] = n],
             n.sub = wk[x].sub, n.results = wk[x].results, n.job = wk[x].job
      PROVE  OInv'
  <2>1. Once(n) /\ Has(n) = Has(wk[x])
    BY <1>1, <1>3, SameHas, Zenon
  <2> QED
    BY <1>2, <1>3, <2>1, ThreadOwn, Zenon
<1>4. ASSUME NEW p \in {"wait", "check", "pop", "exited"}, NEW s \in Int, NEW b \in BOOLEAN,
             wk' = [wk EXCEPT ![x] = [wk[x] EXCEPT !.pc = p, !.sem = s, !.bell = b]]
      PROVE  OInv'
  <2> DEFINE n == [wk[x] EXCEPT !.pc = p, !.sem = s, !.bell = b]
  <2>1. n \in WorkerState /\ n.sub = wk[x].sub /\ n.results = wk[x].results /\ n.job = wk[x].job
    BY <1>1, Zenon DEF WorkerState
  <2> QED
    BY <1>3, <1>4, <2>1, Zenon
<1>5. wk[x].sem \in Int /\ wk[x].sem - 1 \in Int /\ wk[x].bell \in BOOLEAN
  BY <1>1 DEF WorkerState
<1>6. CASE Wait(x)
  <2>1. wk' = [wk EXCEPT ![x] = [wk[x] EXCEPT !.pc = "check", !.sem = wk[x].sem - 1, !.bell = wk[x].bell]]
    BY <1>1, <1>6, Zenon DEF Wait, IInv, Shape, WorkerState
  <2> QED
    BY <1>4, <1>5, <2>1, Zenon
<1>7. CASE CheckStopped(x) \/ LoadScript(x) \/ (Pop(x) /\ wk[x].sub = <<>>)
  <2>1. PICK p \in {"wait", "pop", "exited"} : wk' = [wk EXCEPT ![x] = [wk[x] EXCEPT !.pc = p]]
    <3>1. CASE CheckStopped(x) \/ LoadScript(x)
      BY <1>1, <3>1, Zenon DEF CheckStopped, LoadScript, IInv, Shape
    <3>2. CASE Pop(x) /\ wk[x].sub = <<>>
      BY <1>1, <3>2, Zenon DEF Pop, IInv, Shape, WorkerState
    <3> QED
      BY <1>7, <3>1, <3>2, Zenon
  <2> DEFINE n == [wk[x] EXCEPT !.pc = p]
  <2>2. n \in WorkerState /\ n.sub = wk[x].sub /\ n.results = wk[x].results /\ n.job = wk[x].job
    BY <1>1, Zenon DEF WorkerState
  <2> QED
    BY <1>3, <2>1, <2>2, Zenon
<1>8. CASE Send(x)
  <2>1. wk' = [wk EXCEPT ![x] = [wk[x] EXCEPT !.pc = "wait", !.sem = wk[x].sem, !.bell = TRUE]]
    BY <1>1, <1>8, Zenon DEF Send, IInv, Shape, WorkerState
  <2> QED
    BY <1>4, <1>5, <2>1, Zenon
<1>9. CASE Pop(x) /\ wk[x].sub # <<>>
  <2>1. wk[x].sub \in Seq(Jobs) /\ wk[x].job = NoJob /\ wk[x].pc = "pop"
    BY <1>1, <1>9, Zenon DEF WorkerState, WorkerOK, Pop
  <2>2. PICK j \in Jobs, t \in Seq(Jobs) : j = Head(wk[x].sub) /\ t = Tail(wk[x].sub)
    BY <1>9, <2>1, Rings, Zenon
  <2> DEFINE n == [wk[x] EXCEPT !.pc = "push", !.job = j, !.sub = t]
  <2>3. wk' = [wk EXCEPT ![x] = n]
    BY <1>1, <1>9, <2>2, Zenon DEF Pop, IInv, Shape
  <2>4. n \in WorkerState /\ n.job = j /\ n.results = wk[x].results /\ n.sub = t
    BY <1>1, Zenon DEF WorkerState
  <2> HIDE DEF n
  <2>5. Once(n) /\ Has(n) = Has(wk[x])
    BY <1>1, <1>9, <2>1, <2>2, <2>4, PopHas, Zenon
  <2> QED
    BY <1>2, <2>3, <2>5, ThreadOwn, Zenon
<1>10. ASSUME NEW error \in BOOLEAN, PushResult(x, error) PROVE OInv'
  <2>1. wk[x].results \in Seq(Result) /\ wk[x].job \in Jobs /\ wk[x].job # NoJob
    BY <1>1, <1>10, Zenon DEF WorkerState, WorkerOK, PushResult
  <2>2. PICK e \in Result : e = [job |-> wk[x].job, error |-> error]
    BY <2>1, Zenon DEF Result
  <2>3. e.job = wk[x].job
    BY <2>2, Zenon
  <2>4. PICK q \in Seq(Result) : q = Append(wk[x].results, e)
    BY <2>1, Rings, Zenon
  <2> DEFINE n == [wk[x] EXCEPT !.results = q, !.pc = "send", !.job = NoJob]
  <2>5. wk' = [wk EXCEPT ![x] = n]
    BY <1>1, <1>10, <2>2, <2>4, Zenon DEF PushResult, IInv, Shape
  <2>6. n \in WorkerState /\ n.job = NoJob /\ n.results = q /\ n.sub = wk[x].sub
    BY <1>1, Zenon DEF WorkerState
  <2> HIDE DEF n
  <2>7. Once(n) /\ Has(n) = Has(wk[x])
    BY <1>1, <2>1, <2>3, <2>4, <2>6, PushHas, Zenon
  <2> QED
    BY <1>2, <2>5, <2>7, ThreadOwn, Zenon
<1>11. CASE Spin(x)
  <2>1. UNCHANGED wk /\ \A w \in Workers : Once(wk'[w])
    BY <1>11, Zenon DEF Spin, vars, OInv
  <2>2. Having' = Having
    BY <2>1, Zenon DEF Having
  <2> QED
    BY <1>2, <2>1, <2>2, StayOwned, Zenon
<1> QED
  BY <1>6, <1>7, <1>8, <1>9, <1>10, <1>11, Zenon DEF Thread

\* The main thread does something by which no job changes hands.
LEMMA MainQuiet ==
  ASSUME IInv, OInv,
         \A w \in Workers : /\ wk'[w].sub = wk[w].sub /\ wk'[w].results = wk[w].results
                            /\ wk'[w].job = wk[w].job,
         main'.res = main.res, mgr'.next_job_id = mgr.next_job_id, UNCHANGED refs,
         \A j \in Jobs : mgr'.job_status[j] # mgr.job_status[j] => j \in Held(Having, main.res),
         main'.pc # "post"
  PROVE  OInv'
<1>1. \A w \in Workers : Has(wk'[w]) = Has(wk[w]) /\ Once(wk'[w])
  BY SameHas, Zenon DEF OInv
<1>2. Having' = Having
  <2>1. \A w \in Workers : Having'[w] = Has(wk'[w]) /\ Having[w] = Has(wk[w])
    BY Zenon DEF Having
  <2>2. Having' = [w \in Workers |-> Having'[w]] /\ Having = [w \in Workers |-> Having[w]]
    BY Zenon DEF Having
  <2> QED
    BY <1>1, <2>1, <2>2
<1> QED
  BY <1>1, <1>2, StayOwned, Zenon

LEMMA QuietOwn ==
  ASSUME IInv, OInv,
         \/ StopStore \/ StopPost \/ Account \/ JsReturn \/ DrainEmpty \/ OtherEvent
         \/ LoopExit \/ Interrupt \/ Close \/ DropManager \/ TearDown
         \/ \E w \in Workers : Ring(w) \/ DeleteWorker(w)
  PROVE  OInv'
<1>1. mgr \in ManagerState /\ main \in MainState /\ wk \in [Workers -> WorkerState]
  BY Zenon DEF IInv, Shape
<1>2. UNCHANGED refs
  BY Zenon DEF StopStore, StopPost, Account, JsReturn, DrainEmpty, OtherEvent, LoopExit, Interrupt,
     Close, DropManager, TearDown, StopAll, Ring, DeleteWorker
<1>3. mgr'.next_job_id = mgr.next_job_id /\ mgr'.job_status = mgr.job_status
  <2>1. UNCHANGED mgr \/ mgr' = [mgr EXCEPT !.opaque = FALSE]
    BY Zenon DEF StopStore, StopPost, Account, JsReturn, DrainEmpty, OtherEvent, LoopExit, Interrupt,
       Close, DropManager, TearDown, StopAll, Ring, DeleteWorker
  <2> QED
    BY <1>1, <2>1, Zenon DEF ManagerState
<1>4. main'.res = main.res /\ main'.pc # "post"
  <2>2. CASE StopStore \/ StopPost \/ Account \/ LoopExit \/ Interrupt
    BY <1>1, <2>2, Zenon DEF StopStore, StopPost, Account, LoopExit, Interrupt, MainState
  <2>3. CASE JsReturn \/ OtherEvent
    BY <1>1, <2>3, Zenon DEF JsReturn, OtherEvent, MainState
  <2>4. CASE DrainEmpty \/ \E w \in Workers : Ring(w)
    BY <1>1, <2>4, Zenon DEF DrainEmpty, Ring, MainState
  <2>5. CASE \E w \in Workers : DeleteWorker(w)
    BY <1>1, <2>5, Zenon DEF DeleteWorker
  <2>6. ASSUME NEW from, NEW fin, StopAll(from, fin, main.res)
        PROVE  main'.res = main.res /\ main'.pc # "post"
    BY <1>1, <2>6, Zenon DEF StopAll, MainState
  <2>7. CASE Close \/ DropManager \/ TearDown
    BY <1>1, <2>6, <2>7, Zenon DEF Close, DropManager, TearDown, MainState
  <2> QED
    BY <2>2, <2>3, <2>4, <2>5, <2>7, Zenon
<1>5. ASSUME NEW w \in Workers
      PROVE  wk'[w].sub = wk[w].sub /\ wk'[w].results = wk[w].results /\ wk'[w].job = wk[w].job
  <2>1. wk[w] \in WorkerState
    BY <1>1, Zenon
  <2>2. ASSUME NEW v \in Workers, Ring(v) \/ DeleteWorker(v)
        PROVE  wk'[w].sub = wk[w].sub /\ wk'[w].results = wk[w].results /\ wk'[w].job = wk[w].job
    <3>1. CASE Ring(v)
      BY <1>1, <2>1, <3>1, Zenon DEF Ring, WorkerState
    <3>2. CASE DeleteWorker(v)
      BY <1>1, <2>1, <3>2, Zenon DEF DeleteWorker, WorkerState
    <3> QED
      BY <2>2, <3>1, <3>2, Zenon
  <2>3. CASE StopStore \/ StopPost \/ Account
    <3>1. CASE StopStore
      BY <1>1, <2>1, <3>1, Zenon DEF StopStore, WorkerState
    <3>2. CASE StopPost
      BY <1>1, <2>1, <3>2, Zenon DEF StopPost, WorkerState
    <3>3. CASE Account
      BY <1>1, <2>1, <3>3, Zenon DEF Account, WorkerState
    <3> QED
      BY <2>3, <3>1, <3>2, <3>3, Zenon
  <2>4. CASE ~ (StopStore \/ StopPost \/ Account \/ \E v \in Workers : Ring(v) \/ DeleteWorker(v))
    BY <2>4, Zenon DEF JsReturn, DrainEmpty, OtherEvent, LoopExit, Interrupt, Close, DropManager, TearDown,
       StopAll
  <2> QED
    BY <2>2, <2>3, <2>4, Zenon
<1> QED
  BY <1>2, <1>3, <1>4, <1>5, MainQuiet, Zenon

\* enqueue records the job it has pushed as pending; some thread may have it by now.
LEMMA EnqueueOwn ==
  ASSUME IInv, OInv, EnqueuePost
  PROVE  OInv'
<1>1. mgr \in ManagerState /\ main \in MainState /\ wk \in [Workers -> WorkerState]
  BY Zenon DEF IInv, Shape
<1>2. PICK j : j = mgr.next_job_id - 1
  BY Zenon
<1>3. j \in Held(Having, main.res)
  BY <1>2, Zenon DEF OInv, EnqueuePost
<1>4. PICK st : st = [mgr.job_status EXCEPT ![j] = "pending"]
  BY Zenon
<1>5. mgr' = [mgr EXCEPT !.job_status = st] /\ main' = [main EXCEPT !.pc = "js"] /\ UNCHANGED refs
  BY <1>1, <1>2, <1>4, Zenon DEF EnqueuePost
<1>6. mgr'.next_job_id = mgr.next_job_id /\ mgr'.job_status = st
  BY <1>1, <1>5, Zenon DEF ManagerState
<1>7. main'.res = main.res /\ main'.pc = "js"
  BY <1>1, <1>5, Zenon DEF MainState
<1>8. \A k \in Jobs : k # j => st[k] = mgr.job_status[k]
  BY <1>1, <1>4, Zenon DEF ManagerState
<1>9. ASSUME NEW w \in Workers
      PROVE  wk'[w].sub = wk[w].sub /\ wk'[w].results = wk[w].results /\ wk'[w].job = wk[w].job
  <2>1. wk[w] \in WorkerState
    BY <1>1, Zenon
  <2> QED
    BY <1>1, <2>1, Zenon DEF EnqueuePost, WorkerState
<1> QED
  BY <1>3, <1>5, <1>6, <1>7, <1>8, <1>9, MainQuiet, Zenon

\* js_dispatch: the picked worker has the new job, or it is nobody's.
LEMMA DispatchOwn ==
  ASSUME IInv, OInv, Dispatch \/ DispatchFull
  PROVE  OInv'
<1>1. mgr \in ManagerState /\ main \in MainState
  BY Zenon DEF IInv, Shape
<1>2. PICK j \in Jobs : j = mgr.next_job_id
  BY <1>1, JobBound DEF Dispatch, DispatchFull, TakeJob, Jobs, ManagerState
<1>3. PICK i \in Nat, k \in Nat : i = j + 1 /\ k = mgr.next_worker_idx + 1
  BY <1>1, <1>2, Indices DEF ManagerState
<1>4. /\ mgr' = [mgr EXCEPT !.next_job_id = i, !.next_worker_idx = k]
      /\ refs' = [refs EXCEPT ![j] = refs[j] + 1]
      /\ main.pc = "js"
  BY <1>1, <1>2, <1>3, Zenon DEF Dispatch, DispatchFull, TakeJob, OInv
<1>5. mgr'.next_job_id = j + 1 /\ mgr'.job_status = mgr.job_status
  BY <1>1, <1>3, <1>4, Zenon DEF ManagerState
<1>6. refs' \in [Jobs -> Int]
  BY <1>4 DEF OInv
<1>7. Having \in Holding /\ refs \in [Jobs -> Int]
      /\ Owned(Having, main.res, j, mgr.job_status, refs)
  BY <1>2, HavingType, Zenon DEF OInv
<1>8. ASSUME NEW w \in Workers
      PROVE  /\ Owned([Having EXCEPT ![w] = Having[w] \cup {j}], main.res, j + 1, mgr.job_status, refs')
             /\ Owned(Having, main.res, j + 1, mgr.job_status, refs')
  BY <1>4, <1>7, OwnTake, Zenon
<1>9. 0 \in Workers
  BY PoolSize DEF Workers
<1>10. CASE DispatchFull
  <2>1. UNCHANGED <<wk, main>>
    BY <1>10, Zenon DEF DispatchFull
  <2>2. Having' = Having
    BY <2>1, Zenon DEF Having
  <2>3. Owned(Having, main.res, j + 1, mgr.job_status, refs')
    BY <1>8, <1>9, Zenon
  <2> QED
    BY <1>4, <1>5, <1>6, <2>1, <2>2, <2>3, Zenon DEF OInv
<1>11. CASE Dispatch
  <2>1. PICK x \in Workers : x = pick_worker
    <3>1. mgr.next_worker_idx \in Nat
      BY <1>1, Zenon DEF ManagerState
    <3>2. pick_worker \in 0 .. NWorkers - 1
      BY <3>1, PoolSize DEF pick_worker
    <3> QED
      BY <3>2, Zenon DEF Workers
  <2>2. wk[x] \in WorkerState /\ Once(wk[x])
    BY Zenon DEF IInv, Shape, OInv
  <2>3. PICK q \in Seq(Jobs) : q = Append(wk[x].sub, j)
    BY <2>2, Rings, Zenon DEF WorkerState
  <2> DEFINE n == [wk[x] EXCEPT !.sub = q]
  <2>4. wk' = [wk EXCEPT ![x] = n] /\ main' = [main EXCEPT !.pc = "post", !.tgt = x]
    BY <1>2, <1>11, <2>1, <2>3, Zenon DEF Dispatch, IInv, Shape
  <2>5. n \in WorkerState /\ n.sub = q /\ n.results = wk[x].results /\ n.job = wk[x].job
    BY <2>2, Zenon DEF WorkerState
  <2> HIDE DEF n
  <2>6. main'.res = main.res
    BY <1>1, <2>4, Zenon DEF MainState
  <2>7. j \notin Has(wk[x])
    <3>1. j \notin Held(Having, main.res)
      BY <1>7, Indices DEF Owned
    <3> QED
      BY <3>1, Zenon DEF Held, Having
  <2>8. Once(n) /\ Has(n) = Has(wk[x]) \cup {j}
    BY <2>2, <2>3, <2>5, <2>7, DispatchHas
  <2>9. Having' = [Having EXCEPT ![x] = Having[x] \cup {j}]
    BY <2>4, <2>8, HavingStep, Zenon
  <2>10. \A w \in Workers : Once(wk'[w])
    BY <2>4, <2>8, HavingStep, Zenon DEF OInv
  <2>11. Owned(Having', main'.res, mgr'.next_job_id, mgr'.job_status, refs')
    BY <1>5, <1>8, <2>6, <2>9, Zenon
  <2>12. mgr'.next_job_id - 1 = j
    BY <1>2, <1>5, Indices
  <2>13. j \in Held(Having', main'.res)
    BY <1>7, <2>9, Zenon DEF Held, Holding
  <2> QED
    BY <1>6, <2>10, <2>11, <2>12, <2>13, Zenon DEF OInv
<1> QED
  BY <1>10, <1>11, Zenon

\* on_result_ready takes a result over from the worker.
LEMMA DrainOwn ==
  ASSUME IInv, OInv, DrainPop
  PROVE  OInv'
<1>1. mgr \in ManagerState /\ main \in MainState /\ MainOK /\ main.pc = "drain"
  BY Zenon DEF IInv, Shape, DrainPop
<1>2. PICK x \in Workers : x = main.cur /\ main.res = NoJob
  BY <1>1, Zenon DEF MainOK, PlaceOK, At, Closing
<1>3. wk[x] \in WorkerState /\ Once(wk[x]) /\ wk[x].results # <<>>
  BY <1>2, Zenon DEF IInv, Shape, DrainPop, OInv
<1>4. PICK q \in Seq(Result) : q = Tail(wk[x].results)
  BY <1>3, Rings, Zenon DEF WorkerState
<1>5. PICK j : j = Head(wk[x].results).job
  BY Zenon
<1>6. PICK st : /\ mgr' = [mgr EXCEPT !.job_status = st]
                /\ \E v : st = [mgr.job_status EXCEPT ![j] = v]
  BY <1>1, <1>2, <1>5, Zenon DEF DrainPop
<1>7. mgr'.next_job_id = mgr.next_job_id /\ mgr'.job_status = st
  BY <1>1, <1>6, Zenon DEF ManagerState
<1>8. \A k \in Jobs : k # j => st[k] = mgr.job_status[k]
  BY <1>1, <1>6, Zenon DEF ManagerState
<1>9. main' = [main EXCEPT !.pc = "js", !.frame = "callback", !.res = j]
  BY <1>2, <1>5, Zenon DEF DrainPop
<1>10. main'.res = j /\ main'.pc = "js" /\ UNCHANGED refs
  BY <1>1, <1>9, Zenon DEF MainState, DrainPop
<1> DEFINE n == [wk[x] EXCEPT !.results = q]
<1>11. wk' = [wk EXCEPT ![x] = n]
  BY <1>2, <1>4, Zenon DEF DrainPop, IInv, Shape
<1>12. n \in WorkerState /\ n.sub = wk[x].sub /\ n.results = q /\ n.job = wk[x].job
  BY <1>3, Zenon DEF WorkerState
<1> HIDE DEF n
<1>13. Once(n) /\ j \in Has(wk[x]) /\ Has(n) = Has(wk[x]) \ {j}
  BY <1>3, <1>4, <1>5, <1>12, DrainHas, Zenon
<1>14. Having' = [Having EXCEPT ![x] = Having[x] \ {j}] /\ j \in Having[x]
  BY <1>11, <1>13, HavingStep, Zenon
<1>15. \A w \in Workers : Once(wk'[w])
  BY <1>11, <1>13, HavingStep, Zenon DEF OInv
<1>16. Having \in Holding /\ Having' \in Holding
  BY <1>14, HavingType, Zenon DEF Holding
<1>17. Owned(Having', j, mgr.next_job_id, mgr.job_status, refs)
  BY <1>2, <1>14, <1>16, OwnPop, Zenon DEF OInv
<1>18. j \in Held(Having', j) /\ mgr.next_job_id \in Nat
  BY <1>1, <1>14, <1>16, Zenon DEF Held, Holding, ManagerState
<1>19. Owned(Having', j, mgr.next_job_id, st, refs)
  BY <1>8, <1>16, <1>17, <1>18, OwnSame, Zenon
<1> QED
  BY <1>7, <1>10, <1>15, <1>19, Zenon DEF OInv

\* on_result frees the callback it has called.
LEMMA FreeOwn ==
  ASSUME IInv, OInv, FreeCallback \/ FreeCallbackAndManager
  PROVE  OInv'
<1>1. mgr \in ManagerState /\ main \in MainState /\ MainOK /\ main.pc = "free"
  BY Zenon DEF IInv, Shape, FreeCallback, FreeCallbackAndManager
<1>2. PICK j \in Jobs : j = main.res
  BY <1>1, Zenon DEF MainOK, PlaceOK, At, Closing, MainState
<1>3. refs' = [refs EXCEPT ![j] = refs[j] - 1] /\ UNCHANGED wk
  BY <1>2, Zenon DEF FreeCallback, FreeCallbackAndManager, StopAll, OInv
<1>4. refs' \in [Jobs -> Int]
  BY <1>3 DEF OInv
<1>5. mgr'.next_job_id = mgr.next_job_id /\ mgr'.job_status = mgr.job_status
  BY <1>1, Zenon DEF FreeCallback, FreeCallbackAndManager, StopAll, ManagerState
<1>6. main'.res = NoJob /\ main'.pc # "post"
  <2>1. CASE FreeCallback
    BY <1>1, <2>1, Zenon DEF FreeCallback, MainState
  <2>2. CASE FreeCallbackAndManager
    BY <1>1, <2>2, Zenon DEF FreeCallbackAndManager, StopAll, MainState
  <2> QED
    BY <2>1, <2>2, Zenon
<1>7. Having' = Having /\ \A w \in Workers : Once(wk'[w])
  BY <1>3, Zenon DEF Having, OInv
<1>8. Owned(Having, NoJob, mgr.next_job_id, mgr.job_status, refs')
  <2>1. Owned(Having, j, mgr.next_job_id, mgr.job_status, refs) /\ refs \in [Jobs -> Int]
    BY <1>2, Zenon DEF OInv
  <2> QED
    BY <1>3, <2>1, HavingType, OwnFree, Zenon
<1> QED
  BY <1>4, <1>5, <1>6, <1>7, <1>8, Zenon DEF OInv

\* stop() frees what it finds in the two queues; the thread has ended and has
\* nothing in hand.
LEMMA JoinOwn ==
  ASSUME IInv, OInv, StopJoin
  PROVE  OInv'
<1>1. mgr \in ManagerState /\ main \in MainState /\ main.pc = "join"
  BY Zenon DEF IInv, Shape, StopJoin
<1>2. PICK x \in Workers : x = main.tgt
  BY <1>1, Zenon DEF MainState
<1>3. wk[x] \in WorkerState /\ wk[x].job = NoJob
  BY <1>2, Zenon DEF IInv, Shape, StopJoin, WorkerOK
<1>4. Queued(x) = Has(wk[x])
  BY <1>3, Zenon DEF Queued, Has, Range
<1>5. refs' = [j \in Jobs |-> IF j \in Has(wk[x]) THEN refs[j] - 1 ELSE refs[j]]
  BY <1>2, <1>4, Zenon DEF StopJoin
<1>6. refs' \in [Jobs -> Int]
  BY <1>5 DEF OInv
<1>7. mgr'.next_job_id = mgr.next_job_id /\ mgr'.job_status = mgr.job_status
  BY <1>1, Zenon DEF StopJoin, ManagerState
<1>8. main'.res = main.res /\ main'.pc # "post"
  <2>1. PICK p \in {"stop"} \cup {main.ret} : p = IF x + 1 \notin Workers THEN main.ret ELSE "stop"
    BY Zenon
  <2>2. PICK t \in Workers : t = IF x + 1 \notin Workers THEN x ELSE x + 1
    BY Zenon
  <2>3. main' = [main EXCEPT !.pc = p, !.tgt = t]
    BY <1>1, <1>2, <2>1, <2>2, Zenon DEF StopJoin
  <2>4. p # "post"
    BY <1>1, <2>1, Zenon DEF MainState
  <2> QED
    BY <1>1, <2>3, <2>4, Zenon DEF MainState
<1> DEFINE n == [wk[x] EXCEPT !.sub = <<>>, !.results = <<>>, !.handle = "closing"]
<1>9. wk' = [wk EXCEPT ![x] = n]
  BY <1>2, <1>3, Zenon DEF StopJoin, IInv, Shape
<1>10. n.sub = <<>> /\ n.results = <<>> /\ n.job = NoJob
  BY <1>3, Zenon DEF WorkerState
<1> HIDE DEF n
<1>11. DOMAIN n.sub = {} /\ DOMAIN n.results = {}
  BY <1>10
<1>12. Once(n) /\ Has(n) = {}
  BY <1>10, <1>11, Zenon DEF Once, Has, Range
<1>13. Having' = [Having EXCEPT ![x] = {}] /\ Having[x] = Has(wk[x])
  BY <1>9, <1>12, HavingStep, Zenon
<1>14. \A w \in Workers : Once(wk'[w])
  BY <1>9, <1>12, HavingStep, Zenon DEF OInv
<1>15. \A j \in Jobs : refs'[j] = IF j \in Having[x] THEN refs[j] - 1 ELSE refs[j]
  BY <1>5, <1>13, Zenon
<1>16. Owned(Having', main.res, mgr.next_job_id, mgr.job_status, refs')
  BY <1>13, <1>15, HavingType, OwnDrain, Zenon DEF OInv
<1> QED
  BY <1>6, <1>7, <1>8, <1>14, <1>16, Zenon DEF OInv

LEMMA InitOInv ==
  ASSUME NEW pc \in {"boot", "wait"}, InitAt(pc)
  PROVE  OInv
<1>1. /\ refs \in [Jobs -> Int] /\ \A j \in Jobs : refs[j] = 0
      /\ main.res = NoJob /\ main.pc = "js" /\ \A j \in Jobs : mgr.job_status[j] = "unknown"
  BY DEF InitAt
<1>2. ASSUME NEW w \in Workers PROVE Once(wk[w]) /\ Has(wk[w]) = {}
  <2>1. wk[w].sub = <<>> /\ wk[w].results = <<>> /\ wk[w].job = NoJob
    BY Zenon DEF InitAt, NewWorker
  <2>2. DOMAIN wk[w].sub = {} /\ DOMAIN wk[w].results = {}
    BY <2>1
  <2> QED
    BY <2>1, <2>2, Zenon DEF Once, Has, Range
<1>3. \A w \in Workers : Having[w] = {}
  BY <1>2, Zenon DEF Having
<1>4. Held(Having, NoJob) = {}
  BY <1>3, Indices, Zenon DEF Held
<1>5. Owned(Having, NoJob, mgr.next_job_id, mgr.job_status, refs)
  BY <1>1, <1>3, <1>4, Zenon DEF Owned
<1> QED
  BY <1>1, <1>2, <1>5, Zenon DEF OInv

LEMMA StutterOwn ==
  ASSUME IInv, OInv, UNCHANGED vars
  PROVE  OInv'
<1>1. UNCHANGED <<mgr, main, wk, refs>>
  BY Zenon DEF vars
<1>2. Having' = Having
  BY <1>1, Zenon DEF Having
<1> QED
  BY <1>1, <1>2, Zenon DEF OInv

LEMMA MainOwn ==
  ASSUME IInv, OInv, Main
  PROVE  OInv'
<1>1. CASE Dispatch \/ DispatchFull \/ EnqueuePost
  BY <1>1, DispatchOwn, EnqueueOwn, Zenon
<1>2. CASE DrainPop \/ FreeCallback \/ FreeCallbackAndManager \/ StopJoin
  BY <1>2, DrainOwn, FreeOwn, JoinOwn, Zenon
<1> QED
  BY <1>1, <1>2, QuietOwn, Zenon DEF Main, MainStep

LEMMA NextOInv ==
  ASSUME IInv, OInv, [Next]_vars
  PROVE  OInv'
BY MainOwn, ThreadsOwn, StutterOwn, Zenon DEF Next, Finished

LEMMA JSNextOInv ==
  ASSUME IInv, OInv, [JSNext]_jsVars
  PROVE  OInv'
<1>1. CASE Finished \/ UNCHANGED jsVars
  BY <1>1, StutterOwn, Zenon DEF Finished, jsVars
<1>2. CASE \/ js_dispatch \/ js_enqueue \/ jsw_close \/ js_finalizer \/ js_stop
           \/ js_on_result \/ js_on_result_ready \/ js_loop
           \/ \E w \in Workers : js_ring(w) \/ js_delete(w)
  <2>1. Main
    BY <1>2, Zenon DEF Main, MainStep, js_dispatch, js_enqueue, jsw_close, js_finalizer, js_stop,
                js_on_result, js_on_result_ready, js_loop, js_ring, js_delete
  <2> QED
    BY <2>1, MainOwn, Zenon
<1>3. ASSUME NEW w \in Workers, JSThread(w) PROVE OInv'
  BY <1>3, ThreadsOwn, Zenon DEF JSThread, ProcessThrows
<1> QED
  BY <1>1, <1>2, <1>3, Zenon DEF JSNext

\* A held job is in one of the places of Holders, any other job in none.
LEMMA OneHolder ==
  ASSUME IInv, OInv, NEW j \in Jobs
  PROVE  IF j \in Held(Having, main.res) THEN \E h : Holders(j) = {h} ELSE Holders(j) = {}
<1> DEFINE S(v) == j \in Range(wk[v].sub)
           T(v) == wk[v].job = j
           R(v) == \E r \in Range(wk[v].results) : r.job = j
<1>1. \A v \in Workers : j \in Having[v] <=> S(v) \/ T(v) \/ R(v)
  <2>1. j # NoJob
    BY Indices, Zenon
  <2> QED
    BY <2>1, Zenon DEF Having, Has, Range
<1>2. \A v \in Workers : ~ (S(v) /\ T(v)) /\ ~ (S(v) /\ R(v)) /\ ~ (T(v) /\ R(v))
  BY DEF OInv, Once, Range
<1>3. Holders(j) = {<<"sub", w>> : w \in {v \in Workers : S(v)}} \cup
                   {<<"thread", w>> : w \in {v \in Workers : T(v)}} \cup
                   {<<"results", w>> : w \in {v \in Workers : R(v)}} \cup
                   (IF main.res = j THEN {<<"main", main.cur>>} ELSE {})
  BY Zenon DEF Holders
<1> HIDE DEF S, T, R
<1>4. CASE j \notin Held(Having, main.res)
  <2>1. main.res # j /\ \A v \in Workers : ~ S(v) /\ ~ T(v) /\ ~ R(v)
    BY <1>1, <1>4, Zenon DEF Held
  <2> QED
    BY <1>3, <1>4, <2>1, Zenon
<1>5. CASE j = main.res
  <2>1. \A v \in Workers : ~ S(v) /\ ~ T(v) /\ ~ R(v)
    BY <1>1, <1>5, Zenon DEF OInv, Owned
  <2>2. Holders(j) = {<<"main", main.cur>>}
    BY <1>3, <1>5, <2>1, Zenon
  <2>3. j \in Held(Having, main.res)
    BY <1>5, Zenon DEF Held
  <2> QED
    BY <2>2, <2>3, Zenon
<1>6. ASSUME NEW w \in Workers, j \in Having[w] PROVE \E h : Holders(j) = {h}
  <2>1. j # main.res
    BY <1>6, Zenon DEF OInv, Owned
  <2>2. \A v \in Workers : v # w => ~ S(v) /\ ~ T(v) /\ ~ R(v)
    <3>1. \A v \in Workers : v # w => j \notin Having[v]
      BY <1>6, Zenon DEF OInv, Owned
    <3> QED
      BY <1>1, <3>1, Zenon
  <2>3. CASE S(w)
    <3>1. Holders(j) = {<<"sub", w>>}
      BY <1>2, <1>3, <2>1, <2>2, <2>3, Zenon
    <3> QED
      BY <3>1, Zenon
  <2>4. CASE T(w)
    <3>1. Holders(j) = {<<"thread", w>>}
      BY <1>2, <1>3, <2>1, <2>2, <2>4, Zenon
    <3> QED
      BY <3>1, Zenon
  <2>5. CASE R(w)
    <3>1. Holders(j) = {<<"results", w>>}
      BY <1>2, <1>3, <2>1, <2>2, <2>5, Zenon
    <3> QED
      BY <3>1, Zenon
  <2> QED
    BY <1>1, <1>6, <2>3, <2>4, <2>5, Zenon
<1>7. j \in Held(Having, main.res) => \E h : Holders(j) = {h}
  BY <1>5, <1>6, Zenon DEF Held
<1> QED
  BY <1>4, <1>7, Zenon

-----------------------------------------------------------------------------
(* A deleted worker.                                                       *)

\* A doorbell is closed by stop(), and its worker deleted when on_result_ready is
\* not on the stack; enqueue is called through an open manager only.
DeadOK(w) ==
  /\ wk[w].handle # "open" => Stopped(w)
  /\ wk[w].handle = "deleted" => main.cur # w

DInv == (main.pc = "post" => mgr.opaque) /\ \A w \in Workers : DeadOK(w)

SameHandles == \A w \in Workers : wk'[w].handle = wk[w].handle

\* Steps that leave the doorbells and the progress of js_close alone.
LEMMA DeadSame ==
  ASSUME DInv, SameHandles, mgr'.opaque = mgr.opaque, Closing' <=> Closing,
         Closing => main'.tgt = main.tgt, main'.cur \in {main.cur, NoWorker},
         main'.pc = "post" => mgr.opaque
  PROVE  DInv'
<1>1. ASSUME NEW w \in Workers
      PROVE  DeadOK(w)'
  <2>1. wk'[w].handle = wk[w].handle /\ DeadOK(w) /\ w # NoWorker
    BY Indices, Zenon DEF SameHandles, DInv
  <2>2. Stopped(w)' <=> Stopped(w)
    BY Zenon DEF Stopped
  <2> QED
    BY <2>1, <2>2, Zenon DEF DeadOK
<1> QED
  BY <1>1, Zenon DEF DInv

\* A thread changes neither.
LEMMA DeadThread ==
  ASSUME IInv, DInv, NEW w \in Workers, Thread(w) \/ LoadScript(w) \/ PushResult(w, TRUE)
  PROVE  DInv'
<1>1. wk \in [Workers -> WorkerState]
  BY Zenon DEF IInv, Shape
<1>2. mgr' = mgr /\ main' = main
  BY Zenon DEF Thread, LoadScript, PushResult, Wait, CheckStopped, Pop, Spin, vars, Send
<1>3. SameHandles
  <2>1. CASE Wait(w)
    BY <1>1, <2>1, ZenonT(40) DEF SameHandles, WorkerState, Wait
  <2>6. CASE CheckStopped(w)
    BY <1>1, <2>6, ZenonT(40) DEF SameHandles, WorkerState, CheckStopped
  <2>7. CASE Send(w)
    BY <1>1, <2>7, ZenonT(40) DEF SameHandles, WorkerState, Send
  <2>2. CASE Pop(w)
    BY <1>1, <2>2, SMTT(20) DEF SameHandles, WorkerState, Pop
  <2>3. CASE \E error \in BOOLEAN : PushResult(w, error)
    BY <1>1, <2>3, SMTT(20) DEF SameHandles, WorkerState, PushResult
  <2>4. CASE LoadScript(w)
    BY <1>1, <2>4, SMTT(20) DEF SameHandles, WorkerState, LoadScript
  <2>5. CASE Spin(w)
    BY <2>5, Zenon DEF SameHandles, Spin, vars
  <2> QED
    BY <2>1, <2>2, <2>3, <2>4, <2>5, <2>6, <2>7, Zenon DEF Thread
<1>4. /\ Closing' <=> Closing
      /\ main'.pc = "post" => mgr.opaque
  BY <1>2, Zenon DEF Closing, DInv
<1> QED
  BY <1>2, <1>3, <1>4, DeadSame, Zenon

\* A finalizer or close() finds every doorbell open.
LEMMA DeadClosing ==
  ASSUME IInv, DInv, NEW from, NEW fin, NEW res, StopAll(from, fin, res)
  PROVE  DInv'
<1>1. mgr.opaque /\ wk' = wk /\ main' = [main EXCEPT !.pc = "stop", !.tgt = 0, !.ret = from, !.fin = fin, !.res = res]
  BY Zenon DEF StopAll
<1>2. \A w \in Workers : wk[w].handle = "open"
  BY <1>1, Zenon DEF DInv, DeadOK, Stopped
<1>3. main'.pc = "stop"
  BY <1>1, Zenon DEF IInv, Shape, MainState
<1>4. main'.pc # "post" /\ "open" # "deleted"
  BY <1>3, SMT
<1> QED
  BY <1>1, <1>2, <1>4, Zenon DEF DInv, DeadOK

\* stop() closes the doorbell of the worker it has joined.
LEMMA DeadJoin ==
  ASSUME IInv, DInv, StopJoin
  PROVE  DInv'
<1>1. main \in MainState /\ mgr \in ManagerState /\ wk \in [Workers -> WorkerState] /\ main.pc = "join"
  BY Zenon DEF IInv, Shape, StopJoin
<1>2. PICK x \in Workers : x = main.tgt
  BY <1>1, Zenon DEF MainState
<1>3. /\ \A w \in Workers : w # x => wk'[w].handle = wk[w].handle
      /\ wk'[x].handle = "closing"
  BY <1>1, <1>2, SMTT(20) DEF StopJoin, WorkerState
<1>4. PICK p, t : /\ p = (IF x + 1 \notin Workers THEN main.ret ELSE "stop")
                  /\ t = (IF x + 1 \notin Workers THEN x ELSE x + 1)
                  /\ main' = [main EXCEPT !.pc = p, !.tgt = t]
  BY <1>1, <1>2, Zenon DEF StopJoin
<1>5. main'.pc = p /\ main'.tgt = t /\ main'.cur = main.cur /\ main.ret \in {"js", "account", "end"}
  BY <1>1, <1>4, Zenon DEF MainState
<1>6. ~ mgr.opaque /\ Closing
  BY <1>1, Zenon DEF IInv, MainOK, CloseOK, Closing
<1>7. mgr'.opaque = mgr.opaque
  BY <1>1, SMTT(20) DEF StopJoin, ManagerState
<1>8. p # "post" /\ (Closing' => x + 1 \in Workers)
  BY <1>4, <1>5, SMT DEF Closing
<1>9. ASSUME NEW w \in Workers
      PROVE  DeadOK(w)'
  <2>1. w \in Nat /\ x \in Nat
    BY Indices, Zenon
  <2>2. CASE w = x
    <3>1. Closing' => w < t
      BY <1>4, <1>8, <2>1, <2>2, SMT
    <3>2. Stopped(w)'
      BY <1>5, <1>6, <1>7, <3>1, Zenon DEF Stopped
    <3>3. wk'[w].handle # "deleted"
      BY <1>3, <2>2, SMT
    <3> QED
      BY <3>2, <3>3, Zenon DEF DeadOK
  <2>3. CASE w # x
    <3>1. DeadOK(w) /\ wk'[w].handle = wk[w].handle
      BY <1>3, <2>3, Zenon DEF DInv
    <3>2. w < x /\ Closing' => w < t
      BY <1>4, <1>8, <2>1, SMT
    <3>3. Stopped(w) => Stopped(w)'
      BY <1>2, <1>5, <1>6, <1>7, <3>2, Zenon DEF Stopped
    <3> QED
      BY <1>5, <3>1, <3>3, Zenon DEF DeadOK
  <2> QED
    BY <2>2, <2>3, Zenon
<1> QED
  BY <1>5, <1>8, <1>9, Zenon DEF DInv

\* on_result_ready is called for an open doorbell, and the loop deletes a worker
\* when on_result_ready has returned.
LEMMA DeadLoop ==
  ASSUME IInv, DInv, NEW x \in Workers, Ring(x) \/ DeleteWorker(x)
  PROVE  DInv'
<1>1. main \in MainState /\ wk \in [Workers -> WorkerState] /\ mgr' = mgr /\ main.pc = "loop"
  BY Zenon DEF IInv, Shape, Ring, DeleteWorker
<1>2. main.cur = NoWorker /\ ~ Closing
  BY <1>1, Zenon DEF IInv, MainOK, PlaceOK, At, Closing
<1>3. CASE Ring(x)
  <2>1. /\ wk[x].handle = "open" /\ SameHandles
        /\ main'.cur = x /\ main'.pc = "drain"
    BY <1>1, <1>3, SMTT(20) DEF Ring, WorkerState, MainState, SameHandles
  <2>2. ~ Closing' /\ main'.pc # "post" /\ "open" # "deleted"
    BY <2>1, SMT DEF Closing
  <2>3. ASSUME NEW w \in Workers
        PROVE  DeadOK(w)'
    <3>1. DeadOK(w) /\ wk'[w].handle = wk[w].handle
      BY <2>1, Zenon DEF DInv, SameHandles
    <3>2. Stopped(w) => Stopped(w)'
      BY <1>1, <2>2, Zenon DEF Stopped
    <3>3. wk[w].handle = "deleted" => w # x
      BY <2>1, <2>2, Zenon
    <3> QED
      BY <2>1, <3>1, <3>2, <3>3, Zenon DEF DeadOK
  <2> QED
    BY <2>2, <2>3, Zenon DEF DInv
<1>4. CASE DeleteWorker(x)
  <2>1. main' = main /\ wk[x].handle = "closing"
    BY <1>4, Zenon DEF DeleteWorker
  <2>2. \A w \in Workers : w # x => wk'[w].handle = wk[w].handle
    BY <1>1, <1>4, SMTT(20) DEF DeleteWorker, WorkerState
  <2>3. \A w \in Workers : Stopped(w)' <=> Stopped(w)
    BY <1>1, <2>1, Zenon DEF Stopped, Closing
  <2>4. Stopped(x)
    <3>1. wk[x].handle # "open"
      BY <2>1, SMT
    <3> QED
      BY <3>1, Zenon DEF DInv, DeadOK
  <2>5. \A w \in Workers : main'.cur # w
    BY <1>2, <2>1, Indices, Zenon
  <2> QED
    BY <1>1, <2>1, <2>2, <2>3, <2>4, <2>5, Zenon DEF DInv, DeadOK
<1> QED
  BY <1>3, <1>4, Zenon

\* The other steps of the main thread.
LEMMA DeadMain ==
  ASSUME IInv, DInv, Main
  PROVE  DInv'
<1>1. main \in MainState /\ mgr \in ManagerState /\ wk \in [Workers -> WorkerState]
  BY Zenon DEF IInv, Shape
<1>2. CASE Dispatch
  <2>1. main.pc = "js" /\ mgr.opaque
    BY <1>2, Zenon DEF Dispatch, TakeJob
  <2>2. mgr'.opaque = mgr.opaque
    BY <1>1, <1>2, ZenonT(40) DEF Dispatch, TakeJob, ManagerState
  <2>3. main'.pc = "post" /\ main'.cur = main.cur
    BY <1>1, <1>2, SMTT(20) DEF Dispatch, MainState
  <2>4. SameHandles
    BY <1>1, <1>2, SMTT(20) DEF Dispatch, WorkerState, SameHandles
  <2>5. ~ Closing /\ ~ Closing'
    BY <2>1, <2>3, SMT DEF Closing
  <2> QED
    BY <2>1, <2>2, <2>3, <2>4, <2>5, DeadSame, Zenon
<1>3. CASE DispatchFull
  <2>1. main' = main /\ wk' = wk
    BY <1>3, Zenon DEF DispatchFull
  <2>2. mgr'.opaque = mgr.opaque
    BY <1>1, <1>3, ZenonT(40) DEF DispatchFull, TakeJob, ManagerState
  <2>3. Closing' <=> Closing
    BY <2>1, Zenon DEF Closing
  <2> QED
    BY <2>1, <2>2, <2>3, DeadSame, Zenon DEF SameHandles, DInv
<1>4. CASE EnqueuePost
  <2>1. mgr'.opaque = mgr.opaque /\ main.pc = "post"
    BY <1>1, <1>4, SMTT(20) DEF EnqueuePost, ManagerState
  <2>2. main'.pc = "js" /\ main'.cur = main.cur
    BY <1>1, <1>4, SMTT(20) DEF EnqueuePost, MainState
  <2>3. SameHandles
    BY <1>1, <1>4, SMTT(20) DEF EnqueuePost, WorkerState, SameHandles
  <2>4. ~ Closing /\ ~ Closing' /\ main'.pc # "post"
    BY <2>1, <2>2, SMT DEF Closing
  <2> QED
    BY <2>1, <2>2, <2>3, <2>4, DeadSame, Zenon
<1>5. CASE Close \/ DropManager \/ FreeCallbackAndManager \/ (TearDown /\ mgr.opaque)
  BY <1>5, DeadClosing, Zenon DEF Close, DropManager, FreeCallbackAndManager, TearDown
<1>6. CASE StopStore \/ StopPost
  <2>1. /\ mgr' = mgr /\ main.pc \in {"stop", "stopPost"} /\ main'.pc \in {"stopPost", "join"}
        /\ main'.cur = main.cur /\ main'.tgt = main.tgt
    BY <1>1, <1>6, SMTT(20) DEF StopStore, StopPost, MainState
  <2>2. SameHandles
    <3>1. CASE StopStore
      BY <1>1, <3>1, ZenonT(40) DEF StopStore, WorkerState, SameHandles
    <3>2. CASE StopPost
      BY <1>1, <3>2, ZenonT(40) DEF StopPost, WorkerState, SameHandles
    <3> QED
      BY <1>6, <3>1, <3>2, Zenon
  <2>3. Closing /\ Closing' /\ main'.pc # "post"
    BY <2>1, SMT DEF Closing
  <2> QED
    BY <2>1, <2>2, <2>3, DeadSame, Zenon
<1>7. CASE DrainPop \/ Account
  <2>1. mgr'.opaque = mgr.opaque
    BY <1>1, <1>7, ZenonT(40) DEF DrainPop, Account, ManagerState
  <2>2. main.pc \in {"drain", "account"} /\ main'.pc \in {"js", "drain"} /\ main'.cur = main.cur
    BY <1>1, <1>7, ZenonT(40) DEF DrainPop, Account, MainState
  <2>3. SameHandles
    <3>1. CASE DrainPop
      BY <1>1, <3>1, ZenonT(40) DEF DrainPop, WorkerState, SameHandles
    <3>2. CASE Account
      BY <1>1, <3>2, ZenonT(40) DEF Account, WorkerState, SameHandles
    <3> QED
      BY <1>7, <3>1, <3>2, Zenon
  <2>4. ~ Closing /\ ~ Closing' /\ main'.pc # "post"
    BY <2>2, SMT DEF Closing
  <2> QED
    BY <2>1, <2>2, <2>3, <2>4, DeadSame, Zenon
<1>8. CASE \/ JsReturn \/ DrainEmpty \/ FreeCallback \/ OtherEvent \/ LoopExit \/ Interrupt
           \/ (TearDown /\ ~ mgr.opaque)
  <2>1. mgr' = mgr /\ wk' = wk
    BY <1>8, Zenon DEF JsReturn, DrainEmpty, FreeCallback, OtherEvent, LoopExit, Interrupt,
                       TearDown, StopAll
  <2>2. /\ main.pc \in {"js", "drain", "free", "loop", "exit"}
        /\ main'.pc \in {"loop", "free", "account", "js", "exit", "end"}
        /\ main'.cur \in {main.cur, NoWorker}
    BY <1>1, <1>8, ZenonT(40) DEF JsReturn, DrainEmpty, FreeCallback, OtherEvent, LoopExit,
                       Interrupt, TearDown, StopAll, MainState
  <2>3. ~ Closing /\ ~ Closing' /\ main'.pc # "post"
    BY <2>2, SMT DEF Closing
  <2> QED
    BY <2>1, <2>2, <2>3, DeadSame, Zenon DEF SameHandles
<1> QED
  BY <1>2, <1>3, <1>4, <1>5, <1>6, <1>7, <1>8, DeadJoin, DeadLoop, Zenon DEF Main, MainStep

\* DInv is preserved by every step of the JavaScript workers.
LEMMA JSNextDInv ==
  ASSUME IInv, DInv, [JSNext]_jsVars
  PROVE  DInv'
<1>1. CASE Finished \/ UNCHANGED jsVars
  <2>1. mgr' = mgr /\ main' = main /\ wk' = wk
    BY <1>1, Zenon DEF Finished, vars, jsVars
  <2> QED
    BY <2>1, Zenon DEF DInv, DeadOK, Stopped, Closing
<1>2. CASE Main
  BY <1>2, DeadMain, Zenon
<1>3. ASSUME NEW w \in Workers, JSThread(w) PROVE DInv'
  BY <1>3, DeadThread, Zenon DEF JSThread, ProcessThrows
<1> QED
  BY <1>1, <1>2, <1>3, Zenon DEF JSNext, Main, MainStep, js_dispatch, js_enqueue, jsw_close,
     js_finalizer, js_stop, js_on_result, js_on_result_ready, js_loop, js_ring, js_delete

-----------------------------------------------------------------------------
(* What is proved, for the Fibonacci workers and for the JavaScript ones.  *)

\* What a result in a ring and the count of a doorbell owe to the invariant.
LEMMA Consequences ==
  ASSUME IInv
  PROVE  NoLostResult /\ DoorbellCounts
<1>1. \A w \in Workers : WorkerOK(w)
  BY Zenon DEF IInv
<1>2. NoLostResult
  BY <1>1, Zenon DEF NoLostResult, WorkerOK, ResultOK
<1>4. ASSUME NEW w \in Workers
      PROVE  Outstanding(w) = OwnShare(wk[w]) + CurShare(main, w) - PostShare(main, w)
  BY Zenon DEF Outstanding, OwnShare, CurShare, PostShare
<1>5. DoorbellCounts
  BY <1>1, <1>4, Zenon DEF DoorbellCounts, WorkerOK, CountOK
<1> QED
  BY <1>2, <1>5, Zenon

\* The invariant holds of the Fibonacci workers.
THEOREM Invariant == Spec => []IInv
<1>1. Init => IInv
  BY InitIInv, Zenon DEF Init
<1>2. IInv /\ [Next]_vars => IInv'
  BY NextIInv, Zenon
<1> QED
  BY <1>1, <1>2, PTL DEF Spec

\* The invariant holds of the JavaScript workers.
THEOREM JSInvariant == JSSpec => []IInv
<1>1. JSInit => IInv
  BY InitIInv, Zenon DEF JSInit
<1>2. IInv /\ [JSNext]_jsVars => IInv'
  BY JSNextIInv, Zenon
<1> QED
  BY <1>1, <1>2, PTL DEF JSSpec

\* A result in a Fibonacci worker's ring always has a wakeup on its way
\* (run() pushes before uv_async_send; on_result_ready drains the ring).
THEOREM ResultsNotLost == Spec => []NoLostResult
BY Invariant, Consequences, PTL

\* A JavaScript worker is not used after it has been deleted, also when a callback
\* that on_result_ready has called closes the manager (the close callback that
\* deletes the worker runs after on_result_ready has returned).
THEOREM DeletedWorkerUnused == JSSpec => []NoUseOfDeletedWorker
<1>1. JSInit => DInv
  <2>1. SUFFICES ASSUME JSInit
                 PROVE  DInv
    BY Zenon
  <2>2. main.pc = "js" /\ wk = [w \in Workers |-> NewWorker("boot")]
    BY <2>1, SMT DEF JSInit, InitAt
  <2>3. main.pc # "post" /\ "open" # "deleted"
    BY <2>2, SMT
  <2>4. \A w \in Workers : wk[w].handle = "open"
    BY <2>2, Zenon DEF NewWorker
  <2> QED
    BY <2>3, <2>4, Zenon DEF DInv, DeadOK
<1>2. IInv /\ DInv /\ [JSNext]_jsVars => DInv'
  BY JSNextDInv, Zenon
<1>3. ASSUME IInv, DInv
      PROVE  NoUseOfDeletedWorker
  <2>1. SUFFICES ASSUME NEW w \in Workers, wk[w].handle = "deleted"
                 PROVE  /\ wk[w].pc = "exited"
                        /\ main.cur # w
                        /\ main.pc \in {"post", "stop", "stopPost", "join"} => main.tgt # w
    BY Zenon DEF NoUseOfDeletedWorker
  <2>2. wk[w].handle # "open"
    BY <2>1, SMT
  <2>3. wk[w].pc = "exited" /\ main.cur # w /\ Stopped(w)
    BY <1>3, <2>1, <2>2, Zenon DEF IInv, WorkerOK, Silent, DInv, DeadOK
  <2>4. main.pc # "post" /\ (Closing => w < main.tgt)
    BY <1>3, <2>3, Zenon DEF DInv, Stopped
  <2>5. w \in Nat /\ ~ (w < w)
    BY Indices, SMT
  <2> QED
    BY <2>3, <2>4, <2>5, Zenon DEF Closing
<1> QED
  BY <1>1, <1>2, <1>3, JSInvariant, PTL DEF JSSpec

\* in_flight_ counts the outstanding jobs of a JavaScript worker, and its doorbell
\* is referenced exactly while there are any (enqueue, on_result_ready).
THEOREM DoorbellsCounted == JSSpec => []DoorbellCounts
BY JSInvariant, Consequences, PTL

\* Once close() has begun no callback of a JavaScript worker's job is called
\* (on_result_ready finds the rings of a stopped worker empty).
THEOREM ClosedIsSilent == JSSpec => CloseSilences
<1>1. IInv /\ [JSNext]_jsVars => [~ mgr.opaque => calls' = calls]_vars
  BY CallOpen, Zenon
<1> QED
  BY <1>1, JSInvariant, PTL DEF JSSpec, CloseSilences

\* As long as no callback drops the last reference to the Fibonacci manager while
\* it runs, on_result never reads a manager that the finalizer has deleted.
THEOREM DeletedManagerUnused ==
  ASSUME ~ DropInCallback
  PROVE  Spec => []NoUseOfDeletedManager
<1>1. ASSUME IInv PROVE NoUseOfDeletedManager
  <2>1. CASE mgr.life = "deleted"
    <3>1. DeleteOK /\ ~ mgr.opaque /\ main.fin
      BY <1>1, <2>1, Zenon DEF IInv, MainOK, DeleteOK
    <3>2. main.pc # "free"
      BY <3>1, Zenon DEF DeleteOK, At, Closing
    <3>3. ASSUME main.pc = "drain" PROVE wk[main.cur].results = <<>>
      <4>1. main.cur \in Workers /\ Stopped(main.cur)
        BY <1>1, <3>1, <3>3, Zenon DEF IInv, MainOK, PlaceOK, At, Closing, Stopped
      <4> QED
        BY <1>1, <4>1, Zenon DEF IInv, WorkerOK, Silent
    <3> QED
      BY <3>2, <3>3, Zenon DEF NoUseOfDeletedManager
  <2> QED
    BY <2>1, Zenon DEF NoUseOfDeletedManager
<1> QED
  BY <1>1, Invariant, PTL

\* The ownership of callbacks, for the Fibonacci workers.
THEOREM Ownership == Spec => []OInv
<1>1. Init => OInv
  BY InitOInv, Zenon DEF Init
<1>2. IInv /\ OInv /\ [Next]_vars => OInv'
  BY NextOInv, Zenon
<1> QED
  BY <1>1, <1>2, Invariant, PTL DEF Spec

\* The ownership of callbacks, for the JavaScript workers.
THEOREM JSOwnership == JSSpec => []OInv
<1>1. JSInit => OInv
  BY InitOInv, Zenon DEF JSInit
<1>2. IInv /\ OInv /\ [JSNext]_jsVars => OInv'
  BY JSNextOInv, Zenon
<1> QED
  BY <1>1, <1>2, JSInvariant, PTL DEF JSSpec

-----------------------------------------------------------------------------
(* The number of references.                                               *)

INSTANCE FiniteSetTheorems

\* A callback has as many references as holders: one, or none.
LEMMA OwnedOnce ==
  ASSUME IInv, OInv
  PROVE  CallbackOwnedOnce
<1>1. SUFFICES ASSUME NEW j \in Jobs, js_get_progress(j) # "unknown"
               PROVE  refs[j] = Cardinality(Holders(j)) /\ refs[j] \in {0, 1}
  BY Zenon DEF CallbackOwnedOnce
<1>2. CASE j \in Held(Having, main.res)
  <2>1. PICK h : Holders(j) = {h}
    BY <1>2, OneHolder, Zenon
  <2>2. Cardinality(Holders(j)) = 1
    BY <2>1, FS_Singleton, Zenon
  <2> QED
    BY <1>2, <2>2, Zenon DEF OInv, Owned
<1>3. CASE j \notin Held(Having, main.res)
  <2>1. Cardinality(Holders(j)) = 0
    BY <1>3, OneHolder, FS_EmptySet, Zenon
  <2>2. refs[j] = 0
    BY <1>1, <1>3, Zenon DEF OInv, Owned, js_get_progress
  <2> QED
    BY <2>1, <2>2, Zenon
<1> QED
  BY <1>2, <1>3, Zenon

\* For every number of JavaScript workers, jobs and places in their rings, the
\* callback of an accepted job is owned by exactly one of the queues, a thread or
\* on_result until it is freed, and it is freed once, also when close() or the
\* finalizer runs inside a callback (js_dispatch, on_result, stop).
THEOREM CallbacksOwnedOnce == JSSpec => []CallbackOwnedOnce
<1>1. IInv /\ OInv => CallbackOwnedOnce
  BY OwnedOnce, Zenon
<1> QED
  BY <1>1, JSInvariant, JSOwnership, PTL

\* The same for the Fibonacci workers.
THEOREM FibCallbacksOwnedOnce == Spec => []CallbackOwnedOnce
<1>1. IInv /\ OInv => CallbackOwnedOnce
  BY OwnedOnce, Zenon
<1> QED
  BY <1>1, Invariant, Ownership, PTL
=============================================================================
