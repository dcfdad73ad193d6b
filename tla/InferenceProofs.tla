-------------------------- MODULE InferenceProofs ---------------------------
(***************************************************************************)
(* The inference engine, for every number of workers, jobs and tokens and  *)
(* every size of the two queues.  SInv counts the streams of a worker and  *)
(* says where js_close is; SOInv says which worker has the callback of a   *)
(* stream, by the accounting (Owned) of PoolState.  Neither is inductive   *)
(* alone: what stop() frees when it drains a ring is one callback per      *)
(* stream only because of SOInv, and SOInv needs SInv to know that the     *)
(* joined thread has no stream left.                                       *)
(***************************************************************************)
EXTENDS InferencePool, PoolState, FiniteSetTheorems, TLAPS

TokenResult == [job : Jobs, error : BOOLEAN, is_done : BOOLEAN]

StreamState ==
  [sub : Seq(Jobs), sem : Int, stopped : BOOLEAN, results : Seq(TokenResult),
   pc : {"boot", "wait", "check", "pop", "push", "send", "exited"},
   job : Jobs \cup {NoJob}, in_flight : Int, bell : BOOLEAN, ref : BOOLEAN,
   handle : {"open", "closing", "deleted"}]

StreamShape ==
  /\ mgr \in ManagerState /\ main \in MainState /\ wk \in [Workers -> StreamState]
  /\ is_done \in BOOLEAN /\ refs \in [Jobs -> Int]

\* The last results that wait in the ring of worker n.
LastOf(q) == {i \in DOMAIN q : q[i].is_done}
Last(n) == LastOf(n.results)

\* The streams of a worker that are open: those it has itself, and the one whose
\* last result the main thread is handling (d).
StreamShare(n) == Len(n.sub) + Cardinality(Last(n)) + (IF n.job # NoJob THEN 1 ELSE 0)

LastShare(m, d, w) ==
  IF m.cur = w /\ d /\ (m.res # NoJob \/ "account" \in {m.pc, m.ret}) THEN 1 ELSE 0

StreamCount(w) ==
  wk[w].handle = "open" =>
    /\ wk[w].in_flight = StreamShare(wk[w]) + LastShare(main, is_done, w) - PostShare(main, w)
    /\ wk[w].ref <=> wk[w].in_flight > 0

StreamWorkerOK(w) ==
  /\ wk[w].pc = "push" => wk[w].job # NoJob
  /\ wk[w].job # NoJob => wk[w].pc \in {"push", "send"}
  /\ wk[w].handle # "open" => Silent(w)
  /\ Stopped(w) => wk[w].handle # "open"
  /\ StreamCount(w)

\* js_close frees the models after it has stopped the workers; only the last
\* result of a stream is counted; and on_result has no result in hand when
\* js_close runs.
StreamMainOK ==
  /\ PlaceOK /\ CloseOK
  /\ At = "account" => is_done
  /\ models = "freed" => ~ mgr.opaque /\ ~ Closing
  /\ (~ DropInCallback /\ ~ mgr.opaque) => main.res = NoJob

SInv == StreamShape /\ StreamMainOK /\ \A w \in Workers : StreamWorkerOK(w)

\* The jobs whose callbacks worker n has: their last result is yet to come, or
\* waits in the ring.
StreamHas(n) ==
  Range(n.sub) \cup {n.results[i].job : i \in Last(n)} \cup ({n.job} \ {NoJob})

StreamOnce(n) ==
  /\ \A i, k \in DOMAIN n.sub : n.sub[i] = n.sub[k] => i = k
  /\ \A i, k \in Last(n) : n.results[i].job = n.results[k].job => i = k
  /\ \A i \in DOMAIN n.sub, k \in Last(n) : n.sub[i] # n.results[k].job
  /\ \A i \in DOMAIN n.sub : n.sub[i] # n.job
  /\ \A k \in Last(n) : n.results[k].job # n.job

\* A result that is not the last is followed by the last one, or its stream is
\* still with the thread.
Followed(n) ==
  \A i \in DOMAIN n.results :
    \/ n.results[i].job = n.job
    \/ \E k \in Last(n) : k >= i /\ n.results[k].job = n.results[i].job

Streaming == [w \in Workers |-> StreamHas(wk[w])]

\* The job whose callback on_result is about to free.
InHand == IF is_done THEN main.res ELSE NoJob

SOInv ==
  /\ \A w \in Workers : StreamOnce(wk[w]) /\ Followed(wk[w])
  /\ Owned(Streaming, InHand, mgr.next_job_id, mgr.job_status, refs)
  /\ main.pc = "post" => mgr.next_job_id - 1 \in Held(Streaming, InHand)
  /\ (mgr.opaque /\ main.res # NoJob) => main.res \in Held(Streaming, InHand)

-----------------------------------------------------------------------------
(* Queues and owners: the facts of WorkerPoolProofs that are needed here.  *)

LEMMA Indices ==
  /\ Workers \subseteq Nat /\ NoWorker \notin Workers
  /\ Jobs \subseteq Nat /\ NoJob \notin Jobs
BY PoolSize, JobBound DEF Workers, Jobs, NoWorker, NoJob

\* The queues of a worker, as a step may change them.
LEMMA Rings ==
  ASSUME NEW S, NEW q \in Seq(S)
  PROVE  /\ Len(q) \in Nat
         /\ \A e \in S : Append(q, e) \in Seq(S) /\ Len(Append(q, e)) = Len(q) + 1
                        /\ Append(q, e) # <<>>
         /\ q # <<>> => Head(q) \in S /\ Tail(q) \in Seq(S) /\ Len(Tail(q)) = Len(q) - 1
OBVIOUS

LEMMA Taken ==
  ASSUME NEW S, NEW q \in Seq(S), q # <<>>
  PROVE  \E l \in Nat :
           /\ l >= 1 /\ DOMAIN q = 1 .. l /\ DOMAIN Tail(q) = 1 .. (l - 1)
           /\ \A i \in 1 .. l : q[i] \in S
           /\ Head(q) = q[1] /\ \A i \in 1 .. (l - 1) : Tail(q)[i] = q[i + 1]
<1>1. Len(q) \in Nat /\ Len(q) >= 1 /\ DOMAIN q = 1 .. Len(q) /\ DOMAIN Tail(q) = 1 .. (Len(q) - 1)
      /\ Head(q) = q[1] /\ \A i \in 1 .. Len(q) : q[i] \in S
  OBVIOUS
<1>2. \A i \in 1 .. (Len(q) - 1) : Tail(q)[i] = q[i + 1]
  OBVIOUS
<1> QED
  BY <1>1, <1>2, Zenon

LEMMA Added ==
  ASSUME NEW S, NEW q \in Seq(S), NEW e \in S
  PROVE  \E l \in Nat :
           /\ DOMAIN q = 1 .. l /\ DOMAIN Append(q, e) = 1 .. (l + 1)
           /\ \A i \in 1 .. l : q[i] \in S /\ Append(q, e)[i] = q[i]
           /\ Append(q, e)[l + 1] = e
<1>1. Len(q) \in Nat
  OBVIOUS
<1>2. PICK t : t = Append(q, e)
  BY Zenon
<1>3. PICK l \in Nat : l = Len(q)
  BY <1>1, Zenon
<1>4. DOMAIN q = 1 .. l /\ DOMAIN t = 1 .. (l + 1) /\ t[l + 1] = e
  BY <1>2, <1>3
<1>5. \A i \in 1 .. l : q[i] \in S /\ t[i] = q[i]
  BY <1>2, <1>3
<1>6. /\ DOMAIN q = 1 .. l /\ DOMAIN t = 1 .. (l + 1)
      /\ \A i \in 1 .. l : q[i] \in S /\ t[i] = q[i]
      /\ t[l + 1] = e
  BY <1>4, <1>5, Zenon
<1>7. \E m \in Nat : /\ DOMAIN q = 1 .. m /\ DOMAIN t = 1 .. (m + 1)
                     /\ \A i \in 1 .. m : q[i] \in S /\ t[i] = q[i]
                     /\ t[m + 1] = e
  BY <1>6, Zenon
<1> QED
  BY <1>2, <1>7, Zenon

LEMMA TailRange ==
  ASSUME NEW S, NEW q \in Seq(S), q # <<>>
  PROVE  Range(q) = Range(Tail(q)) \cup {Head(q)}
<1>1. PICK l \in Nat :
        /\ l >= 1 /\ DOMAIN q = 1 .. l /\ DOMAIN Tail(q) = 1 .. (l - 1)
        /\ Head(q) = q[1] /\ \A i \in 1 .. (l - 1) : Tail(q)[i] = q[i + 1]
  BY Taken
<1>2. ASSUME NEW j \in Range(q) PROVE j \in Range(Tail(q)) \cup {Head(q)}
  <2>1. PICK i \in 1 .. l : j = q[i]
    BY <1>1, <1>2, Zenon DEF Range
  <2>2. CASE i # 1
    <3>1. i - 1 \in 1 .. (l - 1) /\ (i - 1) + 1 = i
      BY <2>2
    <3>2. j = Tail(q)[i - 1]
      BY <1>1, <2>1, <3>1, Zenon
    <3> QED
      BY <1>1, <3>1, <3>2, Zenon DEF Range
  <2> QED
    BY <1>1, <2>1, <2>2, Zenon
<1>3. ASSUME NEW j \in Range(Tail(q)) PROVE j \in Range(q)
  <2>1. PICK i \in 1 .. (l - 1) : j = Tail(q)[i]
    BY <1>1, <1>3, Zenon DEF Range
  <2>2. i + 1 \in 1 .. l
    OBVIOUS
  <2> QED
    BY <1>1, <2>1, <2>2, Zenon DEF Range
<1>4. Head(q) \in Range(q)
  BY <1>1 DEF Range
<1> QED
  BY <1>2, <1>3, <1>4, Zenon

LEMMA OwnSame ==
  ASSUME NEW H \in Holding, NEW m, NEW next, NEW st, NEW rc, Owned(H, m, next, st, rc), next \in Nat,
         NEW st2, \A j \in Jobs : st2[j] # st[j] => j \in Held(H, m)
  PROVE  Owned(H, m, next, st2, rc)
<1>1. ASSUME NEW j \in Jobs, j >= next PROVE st2[j] = "unknown"
  BY <1>1, Indices DEF Owned
<1> QED
  BY <1>1, Zenon DEF Owned

\* js_dispatch gives the next job to worker x, or fails to.
LEMMA OwnTake ==
  ASSUME NEW H \in Holding, NEW m, NEW next \in Jobs, NEW st, NEW rc \in [Jobs -> Int],
         Owned(H, m, next, st, rc), NEW x \in Workers
  PROVE  /\ Owned([H EXCEPT ![x] = H[x] \cup {next}], m, next + 1, st,
                  [rc EXCEPT ![next] = rc[next] + 1])
         /\ Owned(H, m, next + 1, st, [rc EXCEPT ![next] = rc[next] + 1])
<1> DEFINE G == [H EXCEPT ![x] = H[x] \cup {next}]
           r2 == [rc EXCEPT ![next] = rc[next] + 1]
<1>1. next \in Nat /\ next \notin Held(H, m) /\ rc[next] = 0 /\ st[next] = "unknown"
  BY Indices DEF Owned
<1>2. /\ \A w \in Workers : G[w] = IF w = x THEN H[w] \cup {next} ELSE H[w]
      /\ \A j \in Jobs : r2[j] = IF j = next THEN 1 ELSE rc[j]
  BY <1>1 DEF Holding
<1>3. next # m /\ \A w \in Workers : next \notin H[w]
  BY <1>1, Zenon DEF Held
<1> HIDE DEF G, r2
<1>4. Held(G, m) = Held(H, m) \cup {next}
  BY <1>2, Zenon DEF Held
<1>5. \A j \in Jobs : j >= next + 1 => j >= next /\ j # next
  BY <1>1, Indices
<1>6. \A j \in Jobs : j < next => j < next + 1 /\ j # next
  BY <1>1, Indices
<1>7. next < next + 1
  BY <1>1
<1>8. Held(H, m) \subseteq Jobs
  BY Zenon DEF Held
<1>9. Owned(H, m, next + 1, st, r2)
  BY <1>1, <1>2, <1>5, <1>6, <1>8, Zenon DEF Owned
<1>10. Owned(G, m, next + 1, st, r2)
  <2>1. ASSUME NEW v \in Workers, NEW w \in Workers, v # w PROVE G[v] \cap G[w] = {}
    <3>1. H[v] \cap H[w] = {}
      BY <2>1, Zenon DEF Owned
    <3>2. G[v] \in {H[v], H[v] \cup {next}} /\ G[w] \in {H[w], H[w] \cup {next}}
          /\ (G[v] = H[v] \/ G[w] = H[w])
      BY <1>2, <2>1, Zenon
    <3> QED
      BY <1>3, <3>1, <3>2, Zenon
  <2>2. ASSUME NEW w \in Workers PROVE m \notin G[w]
    <3>1. m \notin H[w]
      BY Zenon DEF Owned
    <3>2. G[w] \in {H[w], H[w] \cup {next}}
      BY <1>2, Zenon
    <3> QED
      BY <1>3, <3>1, <3>2, Zenon
  <2>3. \A j \in Held(G, m) : r2[j] = 1 /\ j < next + 1
    BY <1>2, <1>4, <1>6, <1>7, <1>8, Zenon DEF Owned
  <2> QED
    BY <1>4, <1>9, <2>1, <2>2, <2>3, Zenon DEF Owned
<1> QED
  BY <1>9, <1>10, Zenon DEF G, r2

\* on_result_ready takes job j from worker x.
LEMMA OwnPop ==
  ASSUME NEW H \in Holding, NEW next, NEW st, NEW rc, Owned(H, NoJob, next, st, rc),
         NEW x \in Workers, NEW j \in H[x]
  PROVE  /\ Owned([H EXCEPT ![x] = H[x] \ {j}], j, next, st, rc)
         /\ Held([H EXCEPT ![x] = H[x] \ {j}], j) = Held(H, NoJob)
<1> DEFINE G == [H EXCEPT ![x] = H[x] \ {j}]
<1>1. \A w \in Workers : G[w] = IF w = x THEN H[w] \ {j} ELSE H[w]
  BY Zenon DEF Holding
<1>2. j \in Jobs
  BY Zenon DEF Holding
<1>3. \A w \in Workers : j \notin G[w]
  BY <1>1 DEF Owned
<1> HIDE DEF G
<1>4. Held(G, j) = Held(H, NoJob)
  BY <1>1, <1>2, Indices, Zenon DEF Held
<1>5. Owned(G, j, next, st, rc)
  <2>1. \A w \in Workers : G[w] \subseteq H[w]
    BY <1>1, Zenon
  <2>2. \A v, w \in Workers : v # w => G[v] \cap G[w] = {}
    BY <2>1, Zenon DEF Owned
  <2> QED
    BY <1>3, <1>4, <2>2, Zenon DEF Owned
<1> QED
  BY <1>4, <1>5, Zenon DEF G

\* on_result frees the callback of the job it has.
LEMMA OwnFree ==
  ASSUME NEW H \in Holding, NEW m \in Jobs, NEW next, NEW st, NEW rc \in [Jobs -> Int],
         Owned(H, m, next, st, rc)
  PROVE  Owned(H, NoJob, next, st, [rc EXCEPT ![m] = rc[m] - 1])
<1> DEFINE r2 == [rc EXCEPT ![m] = rc[m] - 1]
<1>1. m \in Held(H, m)
  BY Zenon DEF Held
<1>2. \A j \in Jobs : r2[j] = IF j = m THEN 0 ELSE rc[j]
  BY <1>1 DEF Owned
<1> HIDE DEF r2
<1>3. Held(H, NoJob) = Held(H, m) \ {m}
  BY Indices, Zenon DEF Held, Owned
<1>4. NoJob \notin Jobs /\ \A w \in Workers : H[w] \subseteq Jobs
  BY Indices, Zenon DEF Holding
<1>5. Held(H, m) \subseteq Jobs
  BY Zenon DEF Held
<1>6. Owned(H, NoJob, next, st, r2)
  BY <1>2, <1>3, <1>4, <1>5, Zenon DEF Owned
<1> QED
  BY <1>6, Zenon DEF r2

\* stop() frees the callbacks that worker x has.
LEMMA OwnDrain ==
  ASSUME NEW H \in Holding, NEW m, NEW next, NEW st, NEW rc \in [Jobs -> Int],
         Owned(H, m, next, st, rc), NEW x \in Workers,
         NEW r2, \A j \in Jobs : r2[j] = IF j \in H[x] THEN rc[j] - 1 ELSE rc[j]
  PROVE  Owned([H EXCEPT ![x] = {}], m, next, st, r2)
<1> DEFINE G == [H EXCEPT ![x] = {}]
<1>1. \A w \in Workers : G[w] = IF w = x THEN {} ELSE H[w]
  BY Zenon DEF Holding
<1>2. H[x] \subseteq Held(H, m)
  BY Zenon DEF Held, Holding
<1>3. Held(H, m) \subseteq Jobs
  BY Zenon DEF Held
<1>4. \A j \in Jobs : r2[j] = IF j \in H[x] THEN 0 ELSE rc[j]
  <2>1. ASSUME NEW j \in Jobs, j \in H[x] PROVE r2[j] = 0
    BY <1>2, <2>1 DEF Owned
  <2> QED
    BY <2>1, Zenon
<1> HIDE DEF G
<1>5. Held(G, m) = Held(H, m) \ H[x]
  BY <1>1, ZenonT(40) DEF Held, Owned
<1>6. Owned(G, m, next, st, r2)
  BY <1>1, <1>3, <1>4, <1>5, Zenon DEF Owned
<1> QED
  BY <1>6, Zenon DEF G

-----------------------------------------------------------------------------
(* The last results in a ring.                                             *)

LEMMA LastType ==
  ASSUME NEW q \in Seq(TokenResult)
  PROVE  IsFiniteSet(LastOf(q)) /\ Cardinality(LastOf(q)) \in Nat
<1>1. IsFiniteSet(1 .. Len(q)) /\ LastOf(q) \subseteq 1 .. Len(q)
  <2>1. Len(q) \in Nat /\ DOMAIN q = 1 .. Len(q)
    OBVIOUS
  <2> QED
    BY <2>1, FS_Interval DEF LastOf
<1>2. IsFiniteSet(LastOf(q))
  BY <1>1, FS_Subset, Zenon
<1> QED
  BY <1>2, FS_CardinalityType, Zenon

LEMMA LastAppend ==
  ASSUME NEW q \in Seq(TokenResult), NEW e \in TokenResult
  PROVE  \E l \in Nat :
           /\ DOMAIN q = 1 .. l /\ l + 1 \notin LastOf(q) /\ Append(q, e)[l + 1] = e
           /\ \A i \in 1 .. l : Append(q, e)[i] = q[i]
           /\ DOMAIN Append(q, e) = (1 .. l) \cup {l + 1}
           /\ LastOf(Append(q, e)) = IF e.is_done THEN LastOf(q) \cup {l + 1} ELSE LastOf(q)
           /\ Cardinality(LastOf(Append(q, e))) =
                Cardinality(LastOf(q)) + IF e.is_done THEN 1 ELSE 0
<1>1. PICK l \in Nat :
           /\ DOMAIN q = 1 .. l /\ DOMAIN Append(q, e) = 1 .. (l + 1)
           /\ \A i \in 1 .. l : q[i] \in TokenResult /\ Append(q, e)[i] = q[i]
           /\ Append(q, e)[l + 1] = e
  BY Added
<1>2. 1 .. (l + 1) = (1 .. l) \cup {l + 1} /\ l + 1 \notin 1 .. l
  OBVIOUS
<1>3. l + 1 \notin LastOf(q)
  BY <1>1, <1>2, Zenon DEF LastOf
<1>4. LastOf(Append(q, e)) = IF e.is_done THEN LastOf(q) \cup {l + 1} ELSE LastOf(q)
  <2>1. CASE e.is_done
    BY <1>1, <1>2, <2>1, Zenon DEF LastOf
  <2>2. CASE ~ e.is_done
    BY <1>1, <1>2, <2>2, Zenon DEF LastOf
  <2> QED
    BY <2>1, <2>2, Zenon
<1>5. Cardinality(LastOf(Append(q, e))) = Cardinality(LastOf(q)) + IF e.is_done THEN 1 ELSE 0
  <2>1. IsFiniteSet(LastOf(q)) /\ Cardinality(LastOf(q)) \in Nat
    BY LastType, Zenon
  <2>2. CASE e.is_done
    <3>1. Cardinality(LastOf(q) \cup {l + 1}) = Cardinality(LastOf(q)) + 1
      BY <1>3, <2>1, FS_AddElement, Zenon
    <3> QED
      BY <1>4, <2>2, <3>1, Zenon
  <2>3. CASE ~ e.is_done
    <3>1. Cardinality(LastOf(q)) = Cardinality(LastOf(q)) + 0
      BY <2>1
    <3> QED
      BY <1>4, <2>3, <3>1, Zenon
  <2> QED
    BY <2>2, <2>3, Zenon
<1> QED
  BY <1>1, <1>2, <1>3, <1>4, <1>5, Zenon

LEMMA LastTail ==
  ASSUME NEW q \in Seq(TokenResult), q # <<>>
  PROVE  Cardinality(LastOf(Tail(q))) =
           Cardinality(LastOf(q)) - IF Head(q).is_done THEN 1 ELSE 0
<1>1. PICK l \in Nat :
           /\ l >= 1 /\ DOMAIN q = 1 .. l /\ DOMAIN Tail(q) = 1 .. (l - 1)
           /\ \A i \in 1 .. l : q[i] \in TokenResult
           /\ Head(q) = q[1] /\ \A i \in 1 .. (l - 1) : Tail(q)[i] = q[i + 1]
  BY Taken, Zenon
<1>2. IsFiniteSet(LastOf(q)) /\ Cardinality(LastOf(q)) \in Nat
  BY LastType, Zenon
<1> DEFINE T == LastOf(Tail(q))
           L == LastOf(q) \ {1}
           f == [i \in T |-> i + 1]
<1>3. T \subseteq 1 .. (l - 1) /\ L \subseteq 1 .. l
  BY <1>1, Zenon DEF LastOf
<1>4. \A i \in 1 .. (l - 1) : i + 1 \in 1 .. l /\ i + 1 # 1 /\ (i \in T <=> i + 1 \in L)
  BY <1>1 DEF LastOf
<1>5. \A i \in 1 .. l : i # 1 => i - 1 \in 1 .. (l - 1) /\ (i - 1) + 1 = i
  BY <1>1
<1> HIDE DEF T, L
<1>6. f \in Bijection(T, L)
  <2>1. f \in [T -> L]
    BY <1>3, <1>4, Zenon
  <2>2. \A i, k \in T : f[i] = f[k] => i = k
    BY <1>3
  <2>3. ASSUME NEW k \in L PROVE \E i \in T : f[i] = k
    <3>1. k \in 1 .. l /\ k # 1
      BY <1>3, Zenon DEF L
    <3>2. k - 1 \in T /\ (k - 1) + 1 = k
      BY <1>4, <1>5, <3>1, Zenon
    <3> QED
      BY <3>2, Zenon
  <2> QED
    BY <2>1, <2>2, <2>3, Zenon DEF Bijection, Injection, Surjection, IsInjective
<1>7. IsFiniteSet(L)
  BY <1>2, FS_RemoveElement, Zenon DEF L
<1>8. IsFiniteSet(T)
  <2>1. Tail(q) \in Seq(TokenResult)
    OBVIOUS
  <2> QED
    BY <2>1, LastType, Zenon DEF T
<1>9. Cardinality(L) = Cardinality(T)
  BY <1>6, <1>8, FS_Bijection, Zenon DEF ExistsBijection
<1>10. Cardinality(L) = IF 1 \in LastOf(q) THEN Cardinality(LastOf(q)) - 1
                        ELSE Cardinality(LastOf(q))
  BY <1>2, FS_RemoveElement, Zenon DEF L
<1>11. 1 \in LastOf(q) <=> Head(q).is_done
  BY <1>1 DEF LastOf
<1>12. Cardinality(LastOf(q)) - 0 = Cardinality(LastOf(q))
  BY <1>2
<1>13. CASE Head(q).is_done
  BY <1>9, <1>10, <1>11, <1>13, Zenon DEF T
<1>14. CASE ~ Head(q).is_done
  BY <1>9, <1>10, <1>11, <1>12, <1>14, Zenon DEF T
<1> QED
  BY <1>13, <1>14, Zenon

-----------------------------------------------------------------------------
(* A step changes at most one worker.                                      *)

LEMMA StreamShareType ==
  ASSUME NEW n \in StreamState, NEW m, NEW d, NEW w
  PROVE  /\ Len(n.sub) \in Nat /\ Cardinality(Last(n)) \in Nat /\ StreamShare(n) \in Nat
         /\ LastShare(m, d, w) \in {0, 1} /\ PostShare(m, w) \in {0, 1}
<1>1. n.sub \in Seq(Jobs) /\ n.results \in Seq(TokenResult)
  BY Zenon DEF StreamState
<1>2. Len(n.sub) \in Nat /\ Cardinality(Last(n)) \in Nat
  BY <1>1, LastType DEF Last
<1>3. PICK h \in {0, 1} : h = IF n.job # NoJob THEN 1 ELSE 0
  BY Zenon
<1>4. StreamShare(n) = Len(n.sub) + Cardinality(Last(n)) + h
  BY <1>3, Zenon DEF StreamShare
<1>5. StreamShare(n) \in Nat
  BY <1>2, <1>3, <1>4
<1>6. LastShare(m, d, w) \in {0, 1} /\ PostShare(m, w) \in {0, 1}
  BY Zenon DEF LastShare, PostShare
<1> QED
  BY <1>2, <1>5, <1>6, Zenon

LEMMA UntouchedStream ==
  ASSUME NEW w \in Workers, StreamWorkerOK(w), wk'[w] = wk[w], Stopped(w)' => Stopped(w),
         wk[w].handle = "open" => /\ LastShare(main', is_done', w) = LastShare(main, is_done, w)
                                  /\ PostShare(main', w) = PostShare(main, w)
  PROVE  StreamWorkerOK(w)'
<1>1. Silent(w)' <=> Silent(w)
  BY Zenon DEF Silent
<1>2. StreamCount(w)'
  BY Zenon DEF StreamWorkerOK, StreamCount
<1> QED
  BY <1>1, <1>2, Zenon DEF StreamWorkerOK

LEMMA StreamStep ==
  ASSUME SInv, NEW x \in Workers, NEW n \in StreamState, wk' = [wk EXCEPT ![x] = n],
         main' \in MainState, mgr' \in ManagerState, is_done' \in BOOLEAN, refs' \in [Jobs -> Int],
         StreamMainOK',
         \A w \in Workers : w # x =>
           /\ Stopped(w)' => Stopped(w)
           /\ wk[w].handle = "open" => /\ LastShare(main', is_done', w) = LastShare(main, is_done, w)
                                       /\ PostShare(main', w) = PostShare(main, w),
         n.pc = "push" => n.job # NoJob,
         n.job # NoJob => n.pc \in {"push", "send"},
         n.handle # "open" => n.pc = "exited" /\ n.results = <<>>,
         Stopped(x)' => n.handle # "open",
         n.handle = "open" =>
           /\ n.in_flight = StreamShare(n) + LastShare(main', is_done', x) - PostShare(main', x)
           /\ n.ref <=> n.in_flight > 0
  PROVE  SInv'
<1>1. StreamShape'
  BY Zenon DEF SInv, StreamShape
<1>2. wk'[x] = n /\ \A v \in Workers : v # x => wk'[v] = wk[v]
  BY Zenon DEF SInv, StreamShape
<1>3. ASSUME NEW v \in Workers, v # x PROVE StreamWorkerOK(v)'
  BY <1>2, <1>3, UntouchedStream, Zenon DEF SInv
<1>4. StreamCount(x)'
  BY <1>2, Zenon DEF StreamCount
<1>5. StreamWorkerOK(x)'
  BY <1>2, <1>4 DEF StreamWorkerOK, Silent
<1> QED
  BY <1>1, <1>3, <1>5, Zenon DEF SInv

\* The main thread leaves the workers alone.
LEMMA StreamMain ==
  ASSUME SInv, wk' = wk, main' \in MainState, mgr' \in ManagerState, is_done' \in BOOLEAN,
         refs' \in [Jobs -> Int], StreamMainOK',
         \A w \in Workers :
           /\ Stopped(w)' => Stopped(w)
           /\ wk[w].handle = "open" => /\ LastShare(main', is_done', w) = LastShare(main, is_done, w)
                                       /\ PostShare(main', w) = PostShare(main, w)
  PROVE  SInv'
<1>1. StreamShape'
  BY Zenon DEF SInv, StreamShape
<1>2. ASSUME NEW w \in Workers PROVE StreamWorkerOK(w)'
  BY UntouchedStream, Zenon DEF SInv
<1> QED
  BY <1>1, <1>2, Zenon DEF SInv

\* A worker that its thread changes: the number of its open streams stays.
LEMMA StreamThread ==
  ASSUME SInv, NEW x \in Workers, NEW n \in StreamState, wk' = [wk EXCEPT ![x] = n],
         UNCHANGED <<mgr, main, is_done, models, refs>>, wk[x].pc # "exited",
         n.pc = "push" => n.job # NoJob,
         n.job # NoJob => n.pc \in {"push", "send"},
         n.handle = wk[x].handle, n.in_flight = wk[x].in_flight, n.ref = wk[x].ref,
         StreamShare(n) = StreamShare(wk[x])
  PROVE  SInv'
<1>1. main' \in MainState /\ mgr' \in ManagerState /\ is_done' \in BOOLEAN /\ refs' \in [Jobs -> Int]
  BY Zenon DEF SInv, StreamShape
<1>2. StreamMainOK'
  BY Zenon DEF SInv, StreamMainOK, PlaceOK, CloseOK, At, Closing
<1>3. \A w \in Workers : Stopped(w)' <=> Stopped(w)
  BY Zenon DEF Stopped, Closing
<1>4. StreamWorkerOK(x)
  BY Zenon DEF SInv
<1>5. wk[x].handle = "open" /\ ~ Stopped(x)
  BY <1>4, Zenon DEF StreamWorkerOK, Silent
<1>6. /\ n.in_flight = StreamShare(n) + LastShare(main', is_done', x) - PostShare(main', x)
      /\ n.ref <=> n.in_flight > 0
  BY <1>4, <1>5, Zenon DEF StreamWorkerOK, StreamCount
<1> QED
  BY <1>1, <1>2, <1>3, <1>5, <1>6, StreamStep, Zenon

-----------------------------------------------------------------------------
(* The threads.  Quiet, Popped and Pushed are what a step may do to the    *)
(* streams of a worker o, which becomes n.                                 *)

Quiet(o, n) == n.sub = o.sub /\ n.results = o.results /\ n.job = o.job

Popped(o, n) ==
  /\ o.job = NoJob /\ o.sub # <<>>
  /\ n.job = Head(o.sub) /\ n.sub = Tail(o.sub) /\ n.results = o.results

Pushed(o, n, r) ==
  /\ o.job = r.job
  /\ n.results = Append(o.results, r) /\ n.sub = o.sub
  /\ n.job = IF r.is_done THEN NoJob ELSE o.job

\* What the thread does not write.
Keeps(o, n) == n.handle = o.handle /\ n.in_flight = o.in_flight /\ n.ref = o.ref

ThreadMakes(o, n) ==
  /\ Keeps(o, n) /\ o.pc # "exited"
  /\ n.pc = "push" => n.job # NoJob
  /\ n.job # NoJob => n.pc \in {"push", "send"}
  /\ Quiet(o, n) \/ Popped(o, n) \/ \E r \in TokenResult : Pushed(o, n, r)

ThreadTurn(x) ==
  /\ UNCHANGED <<mgr, main, is_done, models, refs>>
  /\ \/ wk' = wk
     \/ \E n \in StreamState : wk' = [wk EXCEPT ![x] = n] /\ ThreadMakes(wk[x], n)

LEMMA TurnOf ==
  ASSUME NEW x, NEW n \in StreamState, UNCHANGED <<mgr, main, is_done, models, refs>>,
         wk' = [wk EXCEPT ![x] = n], ThreadMakes(wk[x], n)
  PROVE  ThreadTurn(x)
BY Zenon DEF ThreadTurn

LEMMA WaitTurn ==
  ASSUME SInv, NEW x \in Workers, Wait(x), UNCHANGED own
  PROVE  ThreadTurn(x)
<1>1. /\ wk \in [Workers -> StreamState] /\ wk[x] \in StreamState /\ StreamWorkerOK(x)
      /\ wk[x].pc = "wait" /\ UNCHANGED <<mgr, main, is_done, models, refs>>
  BY Zenon DEF SInv, StreamShape, Wait, own
<1>2. PICK k \in Int : k = wk[x].sem - 1
  BY <1>1 DEF StreamState
<1> DEFINE n == [wk[x] EXCEPT !.sem = k, !.pc = "check"]
<1>3. wk' = [wk EXCEPT ![x] = n]
  BY <1>1, <1>2, Zenon DEF Wait
<1>4. n \in StreamState /\ n.pc = "check" /\ Quiet(wk[x], n) /\ Keeps(wk[x], n)
  BY <1>1, Zenon DEF StreamState, Quiet, Keeps
<1> HIDE DEF n
<1>5. ThreadMakes(wk[x], n)
  BY <1>1, <1>4, Zenon DEF ThreadMakes, StreamWorkerOK, Quiet
<1> QED
  BY <1>1, <1>3, <1>4, <1>5, TurnOf, Zenon

LEMMA CheckTurn ==
  ASSUME SInv, NEW x \in Workers, CheckStopped(x), UNCHANGED own
  PROVE  ThreadTurn(x)
<1>1. /\ wk \in [Workers -> StreamState] /\ wk[x] \in StreamState /\ StreamWorkerOK(x)
      /\ wk[x].pc = "check" /\ UNCHANGED <<mgr, main, is_done, models, refs>>
  BY Zenon DEF SInv, StreamShape, CheckStopped, own
<1>2. PICK p \in {"exited", "pop"} : p = IF wk[x].stopped THEN "exited" ELSE "pop"
  BY Zenon
<1> DEFINE n == [wk[x] EXCEPT !.pc = p]
<1>3. wk' = [wk EXCEPT ![x] = n]
  BY <1>1, <1>2, Zenon DEF CheckStopped
<1>4. n \in StreamState /\ n.pc = p /\ Quiet(wk[x], n) /\ Keeps(wk[x], n)
  BY <1>1, Zenon DEF StreamState, Quiet, Keeps
<1> HIDE DEF n
<1>5. ThreadMakes(wk[x], n)
  BY <1>1, <1>4, Zenon DEF ThreadMakes, StreamWorkerOK, Quiet
<1> QED
  BY <1>1, <1>3, <1>4, <1>5, TurnOf, Zenon

LEMMA PopTurn ==
  ASSUME SInv, NEW x \in Workers, Pop(x), UNCHANGED own
  PROVE  ThreadTurn(x)
<1>1. /\ wk \in [Workers -> StreamState] /\ wk[x] \in StreamState /\ StreamWorkerOK(x)
      /\ wk[x].pc = "pop" /\ UNCHANGED <<mgr, main, is_done, models, refs>>
  BY Zenon DEF SInv, StreamShape, Pop, own
<1>2. wk[x].sub \in Seq(Jobs) /\ wk[x].job = NoJob
  BY <1>1, Zenon DEF StreamState, StreamWorkerOK
<1>3. CASE wk[x].sub = <<>>
  <2> DEFINE n == [wk[x] EXCEPT !.pc = "exited"]
  <2>1. wk' = [wk EXCEPT ![x] = n]
    BY <1>1, <1>3, Zenon DEF Pop, StreamState
  <2>2. n \in StreamState /\ n.pc = "exited" /\ Quiet(wk[x], n) /\ Keeps(wk[x], n)
    BY <1>1, Zenon DEF StreamState, Quiet, Keeps
  <2> HIDE DEF n
  <2>3. ThreadMakes(wk[x], n)
    BY <1>1, <1>2, <2>2, Zenon DEF ThreadMakes, Quiet
  <2> QED
    BY <1>1, <2>1, <2>2, <2>3, TurnOf, Zenon
<1>4. CASE wk[x].sub # <<>>
  <2>1. PICK j \in Jobs, t \in Seq(Jobs) : j = Head(wk[x].sub) /\ t = Tail(wk[x].sub)
    BY <1>2, <1>4, Rings, Zenon
  <2> DEFINE n == [wk[x] EXCEPT !.pc = "push", !.job = j, !.sub = t]
  <2>2. wk' = [wk EXCEPT ![x] = n]
    BY <1>1, <1>4, <2>1, Zenon DEF Pop
  <2>3. /\ n \in StreamState /\ n.pc = "push" /\ n.job = j /\ n.sub = t
        /\ n.results = wk[x].results /\ Keeps(wk[x], n)
    BY <1>1, Zenon DEF StreamState, Keeps
  <2> HIDE DEF n
  <2>4. j # NoJob /\ Popped(wk[x], n)
    BY <1>2, <1>4, <2>1, <2>3, Indices, Zenon DEF Popped
  <2>5. ThreadMakes(wk[x], n)
    BY <1>1, <2>3, <2>4, Zenon DEF ThreadMakes
  <2> QED
    BY <1>1, <2>2, <2>3, <2>5, TurnOf, Zenon
<1> QED
  BY <1>3, <1>4, Zenon

LEMMA PushTurn ==
  ASSUME SInv, NEW x \in Workers, NEW error \in BOOLEAN, NEW last \in BOOLEAN,
         PushToken(x, error, last)
  PROVE  ThreadTurn(x)
<1>1. /\ wk \in [Workers -> StreamState] /\ wk[x] \in StreamState /\ StreamWorkerOK(x)
      /\ wk[x].pc = "push" /\ UNCHANGED <<mgr, main, is_done, models, refs>>
  BY Zenon DEF SInv, StreamShape, PushToken
<1>2. wk[x].results \in Seq(TokenResult) /\ wk[x].job \in Jobs
  BY <1>1, Zenon DEF StreamState, StreamWorkerOK
<1>3. PICK r \in TokenResult : r = [job |-> wk[x].job, error |-> error, is_done |-> last]
  BY <1>2, Zenon DEF TokenResult
<1>4. r.job = wk[x].job /\ r.is_done = last
  BY <1>3, Zenon
<1>5. PICK q \in Seq(TokenResult) : q = Append(wk[x].results, r)
  BY <1>2, Rings, Zenon
<1>6. PICK j \in Jobs \cup {NoJob} : j = IF last THEN NoJob ELSE wk[x].job
  BY <1>2, Zenon
<1> DEFINE n == [wk[x] EXCEPT !.results = q, !.pc = "send", !.job = j]
<1>7. wk' = [wk EXCEPT ![x] = n]
  BY <1>1, <1>3, <1>5, <1>6, Zenon DEF PushToken
<1>8. /\ n \in StreamState /\ n.pc = "send" /\ n.job = j /\ n.results = q /\ n.sub = wk[x].sub
      /\ Keeps(wk[x], n)
  BY <1>1, Zenon DEF StreamState, Keeps
<1> HIDE DEF n
<1>9. Pushed(wk[x], n, r)
  BY <1>4, <1>5, <1>6, <1>8, Zenon DEF Pushed
<1>10. ThreadMakes(wk[x], n)
  BY <1>1, <1>8, <1>9, Zenon DEF ThreadMakes
<1> QED
  BY <1>1, <1>7, <1>8, <1>10, TurnOf, Zenon

LEMMA SendTurn ==
  ASSUME SInv, NEW x \in Workers, SendToken(x)
  PROVE  ThreadTurn(x)
<1>1. /\ wk \in [Workers -> StreamState] /\ wk[x] \in StreamState /\ StreamWorkerOK(x)
      /\ wk[x].pc = "send" /\ UNCHANGED <<mgr, main, is_done, models, refs>>
  BY Zenon DEF SInv, StreamShape, SendToken, own
<1>2. PICK p \in {"wait", "push"} : p = IF wk[x].job = NoJob THEN "wait" ELSE "push"
  BY Zenon
<1> DEFINE n == [wk[x] EXCEPT !.bell = TRUE, !.pc = p]
<1>3. wk' = [wk EXCEPT ![x] = n]
  BY <1>1, <1>2, Zenon DEF SendToken
<1>4. n \in StreamState /\ n.pc = p /\ Quiet(wk[x], n) /\ Keeps(wk[x], n)
  <2>1. p \in {"boot", "wait", "check", "pop", "push", "send", "exited"}
    BY Zenon
  <2> QED
    BY <1>1, <2>1, Zenon DEF StreamState, Quiet, Keeps
<1> HIDE DEF n
<1>5. ThreadMakes(wk[x], n)
  BY <1>1, <1>2, <1>4, Zenon DEF ThreadMakes, Quiet
<1> QED
  BY <1>1, <1>3, <1>4, <1>5, TurnOf, Zenon

LEMMA InfThreadTurn ==
  ASSUME SInv, NEW x \in Workers, InfThread(x)
  PROVE  ThreadTurn(x)
<1>1. CASE Wait(x) /\ UNCHANGED own
  BY <1>1, WaitTurn, Zenon
<1>2. CASE CheckStopped(x) /\ UNCHANGED own
  BY <1>2, CheckTurn, Zenon
<1>3. CASE Pop(x) /\ UNCHANGED own
  BY <1>3, PopTurn, Zenon
<1>4. CASE Spin(x) /\ UNCHANGED own
  BY <1>4, Zenon DEF Spin, vars, own, ThreadTurn
<1>5. CASE send_error(x)
  BY <1>5, PushTurn, Zenon DEF send_error
<1>6. CASE Token(x)
  <2>1. PICK e \in BOOLEAN : PushToken(x, FALSE, e \/ gen[x] = TOKEN_GEN_MAX - 1)
    BY <1>6, Zenon DEF Token
  <2>2. (e \/ gen[x] = TOKEN_GEN_MAX - 1) \in BOOLEAN
    BY Zenon
  <2> QED
    BY <2>1, <2>2, PushTurn, Zenon
<1>7. CASE DecodeFails(x)
  BY <1>7, PushTurn, Zenon DEF DecodeFails
<1>8. CASE SendToken(x)
  BY <1>8, SendTurn, Zenon
<1> QED
  BY <1>1, <1>2, <1>3, <1>4, <1>5, <1>6, <1>7, <1>8, Zenon DEF InfThread

\* A stream that the thread takes or goes on with is still open; after the last
\* result is pushed it is that result which counts.
LEMMA ThreadShare ==
  ASSUME NEW o \in StreamState, NEW n \in StreamState, ThreadMakes(o, n)
  PROVE  StreamShare(n) = StreamShare(o)
<1>1. o.sub \in Seq(Jobs) /\ o.results \in Seq(TokenResult)
  BY Zenon DEF StreamState
<1>2. Len(o.sub) \in Nat /\ Cardinality(Last(o)) \in Nat
  BY StreamShareType, Zenon
<1>3. CASE Quiet(o, n)
  BY <1>3, Zenon DEF Quiet, StreamShare, Last
<1>4. CASE Popped(o, n)
  <2>1. /\ o.job = NoJob /\ n.job # NoJob /\ Last(n) = Last(o)
        /\ Len(n.sub) = Len(o.sub) - 1
    BY <1>1, <1>4, Indices DEF Popped, Last
  <2>2. StreamShare(n) = (Len(o.sub) - 1) + Cardinality(Last(o)) + 1
    BY <2>1, Zenon DEF StreamShare
  <2>3. StreamShare(o) = Len(o.sub) + Cardinality(Last(o)) + 0
    BY <2>1, Zenon DEF StreamShare
  <2> QED
    BY <1>2, <2>2, <2>3
<1>5. ASSUME NEW r \in TokenResult, Pushed(o, n, r) PROVE StreamShare(n) = StreamShare(o)
  <2>1. Cardinality(Last(n)) = Cardinality(Last(o)) + IF r.is_done THEN 1 ELSE 0
    BY <1>1, <1>5, LastAppend DEF Pushed, Last
  <2>2. o.job # NoJob /\ n.sub = o.sub
    BY <1>5, Indices, Zenon DEF Pushed, TokenResult
  <2>3. StreamShare(o) = Len(o.sub) + Cardinality(Last(o)) + 1
    BY <2>2, Zenon DEF StreamShare
  <2>4. CASE r.is_done
    <3>1. StreamShare(n) = Len(o.sub) + (Cardinality(Last(o)) + 1) + 0
      BY <1>5, <2>1, <2>2, <2>4, Zenon DEF StreamShare, Pushed
    <3> QED
      BY <1>2, <2>3, <3>1
  <2>5. CASE ~ r.is_done
    <3>1. StreamShare(n) = Len(o.sub) + (Cardinality(Last(o)) + 0) + 1
      BY <1>5, <2>1, <2>2, <2>5, Zenon DEF StreamShare, Pushed
    <3> QED
      BY <1>2, <2>3, <3>1
  <2> QED
    BY <2>4, <2>5, Zenon
<1> QED
  BY <1>3, <1>4, <1>5, Zenon DEF ThreadMakes

LEMMA ThreadSInv ==
  ASSUME SInv, NEW x \in Workers, ThreadTurn(x)
  PROVE  SInv'
<1>1. UNCHANGED <<mgr, main, is_done, models, refs>>
  BY Zenon DEF ThreadTurn
<1>2. CASE wk' = wk
  BY <1>1, <1>2, Zenon DEF SInv, StreamShape, StreamMainOK, PlaceOK, CloseOK, At, Closing, StreamWorkerOK,
                    StreamCount, Silent, Stopped
<1>3. ASSUME NEW n \in StreamState, wk' = [wk EXCEPT ![x] = n], ThreadMakes(wk[x], n) PROVE SInv'
  <2>1. StreamShare(n) = StreamShare(wk[x])
    BY <1>3, ThreadShare, Zenon DEF SInv, StreamShape
  <2> QED
    BY <1>1, <1>3, <2>1, StreamThread, Zenon DEF ThreadMakes, Keeps
<1> QED
  BY <1>2, <1>3, Zenon DEF ThreadTurn

-----------------------------------------------------------------------------
(* The main thread, where it leaves the workers alone.                     *)

LEMMA InfFullStep ==
  ASSUME SInv, DispatchFull, UNCHANGED own
  PROVE  SInv'
<1>1. mgr \in ManagerState /\ main \in MainState /\ refs \in [Jobs -> Int] /\ is_done \in BOOLEAN
  BY Zenon DEF SInv, StreamShape
<1>2. PICK i \in Nat, k \in Nat : i = mgr.next_job_id + 1 /\ k = mgr.next_worker_idx + 1
  BY <1>1 DEF ManagerState
<1>3. /\ mgr' = [mgr EXCEPT !.next_job_id = i, !.next_worker_idx = k] /\ main' = main /\ wk' = wk
      /\ UNCHANGED <<is_done, models>>
  BY <1>1, <1>2, Zenon DEF DispatchFull, TakeJob, own
<1>4. mgr' \in ManagerState /\ mgr'.opaque = mgr.opaque
  BY <1>1, <1>3, Zenon DEF ManagerState
<1>5. refs' \in [Jobs -> Int]
  <2>1. PICK j \in Jobs : j = mgr.next_job_id
    BY <1>1, JobBound DEF DispatchFull, TakeJob, Jobs, ManagerState
  <2>2. refs' = [refs EXCEPT ![j] = refs[j] + 1]
    BY <1>1, <2>1, Zenon DEF DispatchFull, TakeJob
  <2> QED
    BY <1>1, <2>2
<1>6. StreamMainOK'
  BY <1>3, <1>4, Zenon DEF SInv, StreamMainOK, PlaceOK, CloseOK, At, Closing
<1>7. \A w \in Workers : Stopped(w)' <=> Stopped(w)
  BY <1>3, <1>4, Zenon DEF Stopped, Closing
<1> QED
  BY <1>1, <1>3, <1>4, <1>5, <1>6, <1>7, StreamMain, Zenon

\* js_close begins: in the script or a callback, when on_result frees the last
\* reference to the manager with the last result, or in tear_down.
LEMMA InfCloseStep ==
  ASSUME SInv, NEW from \in {"js", "account", "end"}, NEW res,
         StopAll(from, TRUE, res), UNCHANGED own, refs' \in [Jobs -> Int],
         \/ from = "js" /\ main.pc = "js" /\ res = main.res
         \/ from = "account" /\ main.pc = "free" /\ res = NoJob /\ is_done
         \/ from = "end" /\ main.pc = "exit" /\ res = main.res,
         ~ DropInCallback => (from = "js" => main.frame = "script")
  PROVE  SInv'
<1>1. mgr \in ManagerState /\ main \in MainState /\ StreamMainOK /\ is_done' = is_done
      /\ is_done \in BOOLEAN /\ models' = models
  BY Zenon DEF SInv, StreamShape, own
<1>2. 0 \in Workers /\ res \in Jobs \cup {NoJob}
  BY <1>1, PoolSize DEF Workers, MainState
<1>3. /\ mgr.opaque /\ wk' = wk
      /\ mgr' = [mgr EXCEPT !.opaque = FALSE]
      /\ main' = [main EXCEPT !.pc = "stop", !.tgt = 0, !.ret = from, !.fin = TRUE, !.res = res]
  BY Zenon DEF StopAll
<1>4. mgr' \in ManagerState /\ ~ mgr'.opaque
  BY <1>1, <1>3, Zenon DEF ManagerState
<1>5. /\ main' \in MainState /\ main'.pc = "stop" /\ main'.tgt = 0 /\ main'.ret = from
      /\ main'.res = res /\ main'.cur = main.cur /\ main'.frame = main.frame
  BY <1>1, <1>2, <1>3, Zenon DEF MainState
<1>6. Closing' /\ At' = from /\ ~ Closing /\ main.ret = "js" /\ At = main.pc
  BY <1>1, <1>3, <1>5, Zenon DEF Closing, At, StreamMainOK, CloseOK
<1>7. StreamMainOK'
  <2>1. PlaceOK'
    BY <1>1, <1>5, <1>6, Zenon DEF StreamMainOK, PlaceOK
  <2>2. CloseOK'
    BY <1>4, Zenon DEF CloseOK
  <2>3. At' = "account" => is_done'
    BY <1>1, <1>6, Zenon
  <2>4. models' # "freed"
    BY <1>1, <1>3, Zenon DEF StreamMainOK
  <2>5. ~ DropInCallback => main'.res = NoJob
    BY <1>1, <1>5, <1>6, Zenon DEF StreamMainOK, PlaceOK
  <2> QED
    BY <2>1, <2>2, <2>3, <2>4, <2>5, Zenon DEF StreamMainOK
<1>8. ASSUME NEW w \in Workers PROVE ~ Stopped(w)'
  BY <1>5, <1>6, Indices DEF Stopped
<1>9. ASSUME NEW w \in Workers
      PROVE  /\ LastShare(main', is_done', w) = LastShare(main, is_done, w)
             /\ PostShare(main', w) = PostShare(main, w)
  BY <1>1, <1>5, <1>6, Indices, Zenon DEF LastShare, PostShare, StreamMainOK, PlaceOK
<1> QED
  BY <1>1, <1>3, <1>4, <1>5, <1>7, <1>8, <1>9, StreamMain, Zenon

\* The main thread moves on to p, its result in hand becoming res.
LEMMA InfMoveStep ==
  ASSUME SInv, wk' = wk, mgr' = mgr, is_done' = is_done, models' = models, refs' \in [Jobs -> Int],
         main' \in MainState, main'.ret = main.ret, ~ Closing, ~ Closing',
         main.pc # "post", main'.pc # "post",
         PlaceOK', main'.pc = "account" => is_done, main'.res \in {main.res, NoJob},
         \A w \in Workers : mgr.opaque =>
           LastShare(main', is_done, w) = LastShare(main, is_done, w)
  PROVE  SInv'
<1>1. mgr \in ManagerState /\ is_done \in BOOLEAN /\ StreamMainOK
  BY Zenon DEF SInv, StreamShape
<1>2. At' = main'.pc
  BY Zenon DEF At
<1>3. StreamMainOK'
  BY <1>1, <1>2, Zenon DEF StreamMainOK, CloseOK
<1>4. \A w \in Workers : /\ Stopped(w)' <=> Stopped(w)
                         /\ PostShare(main, w) = 0 /\ PostShare(main', w) = 0
  BY Zenon DEF Stopped, PostShare
<1>5. ASSUME NEW w \in Workers, wk[w].handle = "open" PROVE mgr.opaque
  BY <1>5, Zenon DEF SInv, StreamWorkerOK, Stopped
<1> QED
  BY <1>1, <1>3, <1>4, <1>5, StreamMain, Zenon

LEMMA InfJsReturn ==
  ASSUME SInv, JsReturn, UNCHANGED own
  PROVE  SInv'
<1>1. main \in MainState /\ StreamMainOK /\ UNCHANGED <<wk, mgr, is_done, models, refs>>
      /\ refs \in [Jobs -> Int]
  BY Zenon DEF SInv, StreamShape, JsReturn, own
<1>2. PICK p \in {"loop", "free"} : p = IF main.frame = "script" THEN "loop" ELSE "free"
  BY Zenon
<1>3. main.pc = "js" /\ main' = [main EXCEPT !.pc = p] /\ main.frame \in {"script", "callback"}
  BY <1>1, <1>2, Zenon DEF JsReturn, MainState
<1>4. /\ main' \in MainState /\ main'.pc = p /\ main'.ret = main.ret
      /\ main'.frame = main.frame /\ main'.cur = main.cur /\ main'.res = main.res
  BY <1>1, <1>3, Zenon DEF MainState
<1>5. ~ Closing /\ ~ Closing' /\ At = "js" /\ At' = p
  BY <1>3, <1>4, Zenon DEF Closing, At
<1>6. PlaceOK'
  BY <1>1, <1>2, <1>3, <1>4, <1>5, Zenon DEF StreamMainOK, PlaceOK
<1>7. \A w \in Workers : LastShare(main', is_done, w) = LastShare(main, is_done, w)
  BY <1>3, <1>4, Zenon DEF LastShare
<1> QED
  BY <1>1, <1>3, <1>4, <1>5, <1>6, <1>7, InfMoveStep, Zenon

LEMMA InfDrainEmpty ==
  ASSUME SInv, DrainEmpty, UNCHANGED own
  PROVE  SInv'
<1>1. main \in MainState /\ StreamMainOK /\ UNCHANGED <<wk, mgr, is_done, models, refs>>
      /\ refs \in [Jobs -> Int]
  BY Zenon DEF SInv, StreamShape, DrainEmpty, own
<1>2. main.pc = "drain" /\ main' = [main EXCEPT !.pc = "loop", !.cur = NoWorker]
  BY Zenon DEF DrainEmpty
<1>3. /\ main' \in MainState /\ main'.pc = "loop" /\ main'.ret = main.ret
      /\ main'.frame = main.frame /\ main'.cur = NoWorker /\ main'.res = main.res
  BY <1>1, <1>2, Zenon DEF MainState
<1>4. ~ Closing /\ ~ Closing' /\ At = "drain" /\ At' = "loop"
  BY <1>2, <1>3, Zenon DEF Closing, At
<1>5. PlaceOK'
  BY <1>1, <1>3, <1>4, Zenon DEF StreamMainOK, PlaceOK
<1>6. ASSUME NEW w \in Workers, mgr.opaque
      PROVE  LastShare(main', is_done, w) = LastShare(main, is_done, w)
  <2>1. main.ret = "js" /\ main.res = NoJob
    BY <1>1, <1>4, <1>6, Zenon DEF StreamMainOK, CloseOK, PlaceOK
  <2> QED
    BY <1>2, <1>3, <2>1, Zenon DEF LastShare
<1> QED
  BY <1>1, <1>2, <1>3, <1>4, <1>5, <1>6, InfMoveStep, Zenon

\* on_result returns: a token changes nothing, the last result is counted next.
LEMMA InfReturned ==
  ASSUME SInv, TokenReturned \/ LastReturned
  PROVE  SInv'
<1>1. main \in MainState /\ StreamMainOK /\ UNCHANGED <<wk, mgr, is_done, models>>
      /\ refs \in [Jobs -> Int] /\ main.pc = "free" /\ is_done \in BOOLEAN
  BY Zenon DEF SInv, StreamShape, TokenReturned, LastReturned, FreeCallback, own
<1>2. PICK p \in {"drain", "account"} : p = IF is_done THEN "account" ELSE "drain"
  BY Zenon
<1>3. main' = [main EXCEPT !.pc = p, !.res = NoJob]
  BY <1>2, Zenon DEF TokenReturned, LastReturned, FreeCallback
<1>4. /\ main' \in MainState /\ main'.pc = p /\ main'.ret = main.ret
      /\ main'.frame = main.frame /\ main'.cur = main.cur /\ main'.res = NoJob
  <2>1. p \in {"js", "post", "stop", "stopPost", "join", "loop", "drain", "free", "account",
               "exit", "end"}
    BY Zenon
  <2> QED
    BY <1>1, <1>3, <2>1, Zenon DEF MainState
<1>5. ~ Closing /\ ~ Closing' /\ At = "free" /\ At' = p
  BY <1>1, <1>4, Zenon DEF Closing, At
<1>6. main.cur \in Workers /\ main.res \in Jobs
  BY <1>1, <1>5, Zenon DEF StreamMainOK, PlaceOK, MainState
<1>7. PlaceOK'
  BY <1>2, <1>4, <1>5, <1>6, Zenon DEF PlaceOK
<1>8. ASSUME NEW w \in Workers, mgr.opaque
      PROVE  LastShare(main', is_done, w) = LastShare(main, is_done, w)
  <2>1. main.ret = "js" /\ main.res # NoJob
    BY <1>1, <1>6, <1>8, Indices, Zenon DEF StreamMainOK, CloseOK
  <2> QED
    BY <1>1, <1>2, <1>4, <2>1, Zenon DEF LastShare
<1>9. refs' \in [Jobs -> Int]
  BY <1>1, <1>6 DEF TokenReturned, LastReturned, FreeCallback
<1> QED
  BY <1>1, <1>2, <1>4, <1>5, <1>7, <1>8, <1>9, InfMoveStep, Zenon

LEMMA InfLoopStep ==
  ASSUME SInv, UNCHANGED own,
         OtherEvent \/ LoopExit \/ Interrupt
           \/ (main.pc = "exit" /\ main' = [main EXCEPT !.pc = "end"] /\ UNCHANGED <<mgr, wk, refs>>)
  PROVE  SInv'
<1>1. main \in MainState /\ StreamMainOK /\ UNCHANGED <<wk, mgr, is_done, models, refs>>
      /\ refs \in [Jobs -> Int] /\ main.pc \in {"loop", "exit"}
  BY Zenon DEF SInv, StreamShape, OtherEvent, LoopExit, Interrupt, own
<1>2. PICK p \in {"js", "exit", "end"}, f \in {"script", "callback"} :
        /\ main' = [main EXCEPT !.pc = p, !.frame = f]
        /\ p = "js" => f = "script"
  <2>1. CASE OtherEvent
    BY <2>1, Zenon DEF OtherEvent
  <2>2. ASSUME NEW p \in {"exit", "end"}, main' = [main EXCEPT !.pc = p]
        PROVE  main' = [main EXCEPT !.pc = p, !.frame = main.frame]
    BY <1>1, <2>2, Zenon DEF MainState
  <2>3. main.frame \in {"script", "callback"}
    BY <1>1, Zenon DEF MainState
  <2>4. CASE LoopExit \/ Interrupt
    BY <2>2, <2>3, <2>4, Zenon DEF LoopExit, Interrupt
  <2>5. CASE main' = [main EXCEPT !.pc = "end"]
    BY <2>2, <2>3, <2>5, Zenon
  <2> QED
    BY <2>1, <2>4, <2>5, Zenon
<1>3. /\ main' \in MainState /\ main'.pc = p /\ main'.ret = main.ret
      /\ main'.frame = f /\ main'.cur = main.cur /\ main'.res = main.res
  <2>1. p \in {"js", "post", "stop", "stopPost", "join", "loop", "drain", "free", "account",
               "exit", "end"}
    BY Zenon
  <2> QED
    BY <1>1, <1>2, <2>1, Zenon DEF MainState
<1>4. ~ Closing /\ ~ Closing' /\ At = main.pc /\ At' = p
  BY <1>1, <1>3, Zenon DEF Closing, At
<1>5. PlaceOK'
  BY <1>1, <1>2, <1>3, <1>4, Zenon DEF StreamMainOK, PlaceOK
<1>6. \A w \in Workers : LastShare(main', is_done, w) = LastShare(main, is_done, w)
  BY <1>1, <1>3, Zenon DEF LastShare
<1> QED
  BY <1>1, <1>3, <1>4, <1>5, <1>6, InfMoveStep, Zenon

-----------------------------------------------------------------------------
(* The main thread, where it changes a worker.                             *)

\* It writes a field that the count does not depend on.
LEMMA StreamTouch ==
  ASSUME SInv, NEW x \in Workers, NEW n \in StreamState, wk' = [wk EXCEPT ![x] = n],
         main' \in MainState, UNCHANGED <<mgr, refs, is_done, models>>, StreamMainOK',
         Quiet(wk[x], n), Keeps(wk[x], n), n.pc = wk[x].pc,
         \A w \in Workers :
           /\ Stopped(w)' => Stopped(w)
           /\ wk[w].handle = "open" => /\ LastShare(main', is_done', w) = LastShare(main, is_done, w)
                                       /\ PostShare(main', w) = PostShare(main, w)
  PROVE  SInv'
<1>1. mgr' \in ManagerState /\ is_done' \in BOOLEAN /\ refs' \in [Jobs -> Int] /\ StreamWorkerOK(x)
  BY Zenon DEF SInv, StreamShape
<1>2. StreamShare(n) = StreamShare(wk[x])
  BY Zenon DEF Quiet, StreamShare, Last
<1>3. n.handle = "open" =>
        /\ n.in_flight = StreamShare(n) + LastShare(main', is_done', x) - PostShare(main', x)
        /\ n.ref <=> n.in_flight > 0
  BY <1>1, <1>2, Zenon DEF StreamWorkerOK, StreamCount, Keeps
<1>4. /\ n.pc = "push" => n.job # NoJob
      /\ n.job # NoJob => n.pc \in {"push", "send"}
      /\ n.handle # "open" => n.pc = "exited" /\ n.results = <<>>
      /\ Stopped(x)' => n.handle # "open"
  BY <1>1, Zenon DEF StreamWorkerOK, Silent, Keeps, Quiet
<1> QED
  BY <1>1, <1>3, <1>4, StreamStep, Zenon

\* stop() tells the thread and wakes it.
LEMMA InfSignalStep ==
  ASSUME SInv, StopStore \/ StopPost, UNCHANGED own
  PROVE  SInv'
<1>1. mgr \in ManagerState /\ main \in MainState /\ StreamMainOK
      /\ UNCHANGED <<mgr, refs, is_done, models>> /\ wk \in [Workers -> StreamState]
  BY Zenon DEF SInv, StreamShape, StopStore, StopPost, own
<1>2. PICK x \in Workers : x = main.tgt
  BY <1>1, Zenon DEF MainState
<1>3. wk[x] \in StreamState
  BY <1>1, Zenon
<1>4. PICK p \in {"stopPost", "join"} : main' = [main EXCEPT !.pc = p]
  BY Zenon DEF StopStore, StopPost
<1>5. PICK t \in BOOLEAN, k \in Int : wk' = [wk EXCEPT ![x] = [wk[x] EXCEPT !.stopped = t, !.sem = k]]
  <2>1. CASE StopStore
    <3>1. wk[x].sem \in Int
      BY <1>3, Zenon DEF StreamState
    <3>2. wk' = [wk EXCEPT ![x] = [wk[x] EXCEPT !.stopped = TRUE, !.sem = wk[x].sem]]
      BY <1>1, <1>2, <1>3, <2>1, Zenon DEF StopStore, StreamState
    <3> QED
      BY <3>1, <3>2, Zenon
  <2>2. CASE StopPost
    <3>1. wk[x].sem + 1 \in Int /\ wk[x].stopped \in BOOLEAN
      BY <1>3 DEF StreamState
    <3>2. wk' = [wk EXCEPT ![x] = [wk[x] EXCEPT !.stopped = wk[x].stopped, !.sem = wk[x].sem + 1]]
      BY <1>1, <1>2, <1>3, <2>2, Zenon DEF StopPost, StreamState
    <3> QED
      BY <3>1, <3>2, Zenon
  <2> QED
    BY <2>1, <2>2, Zenon
<1>6. /\ main' \in MainState /\ main'.pc = p /\ main'.tgt = main.tgt /\ main'.ret = main.ret
      /\ main'.res = main.res /\ main'.cur = main.cur /\ main'.frame = main.frame
  BY <1>1, <1>4, Zenon DEF MainState
<1>7. Closing /\ Closing' /\ At = main.ret /\ At' = main.ret
  BY <1>6, Zenon DEF StopStore, StopPost, Closing, At
<1>8. StreamMainOK'
  BY <1>1, <1>6, <1>7, Zenon DEF StreamMainOK, PlaceOK, CloseOK
<1>9. \A w \in Workers : /\ Stopped(w)' <=> Stopped(w)
                         /\ LastShare(main', is_done', w) = LastShare(main, is_done, w)
                         /\ PostShare(main', w) = PostShare(main, w)
  BY <1>1, <1>6, <1>7, Zenon DEF Stopped, LastShare, PostShare, Closing
<1> DEFINE n == [wk[x] EXCEPT !.stopped = t, !.sem = k]
<1>10. wk' = [wk EXCEPT ![x] = n]
  BY <1>5, Zenon
<1>11. n \in StreamState /\ Quiet(wk[x], n) /\ Keeps(wk[x], n) /\ n.pc = wk[x].pc
  BY <1>3, Zenon DEF StreamState, Quiet, Keeps
<1> HIDE DEF n
<1> QED
  BY <1>1, <1>6, <1>8, <1>9, <1>10, <1>11, StreamTouch, Zenon

\* The loop answers the doorbell.
LEMMA InfRingStep ==
  ASSUME SInv, NEW x \in Workers, inf_ring(x)
  PROVE  SInv'
<1>1. mgr \in ManagerState /\ main \in MainState /\ StreamMainOK /\ main.pc = "loop"
      /\ main' = [main EXCEPT !.pc = "drain", !.cur = x]
      /\ UNCHANGED <<mgr, refs, is_done, models>> /\ wk \in [Workers -> StreamState]
  BY Zenon DEF SInv, StreamShape, inf_ring, Ring, own
<1>2. wk[x] \in StreamState /\ StreamWorkerOK(x) /\ wk[x].handle = "open"
  BY <1>1, Zenon DEF SInv, inf_ring, Ring
<1>3. /\ main' \in MainState /\ main'.pc = "drain" /\ main'.tgt = main.tgt /\ main'.ret = main.ret
      /\ main'.res = main.res /\ main'.cur = x /\ main'.frame = main.frame
  BY <1>1, Zenon DEF MainState
<1>4. ~ Closing /\ ~ Closing' /\ At = "loop" /\ At' = "drain"
  BY <1>1, <1>3, Zenon DEF Closing, At
<1>5. main.cur = NoWorker /\ main.res = NoJob
  BY <1>1, <1>4, Zenon DEF StreamMainOK, PlaceOK
<1>6. StreamMainOK'
  BY <1>1, <1>3, <1>4, <1>5, Zenon DEF StreamMainOK, PlaceOK, CloseOK
<1>7. mgr.opaque /\ main.ret = "js"
  BY <1>1, <1>2, <1>4, Zenon DEF StreamWorkerOK, Stopped, StreamMainOK, CloseOK
<1>8. \A w \in Workers : /\ ~ Stopped(w)'
                         /\ LastShare(main', is_done', w) = LastShare(main, is_done, w)
                         /\ PostShare(main', w) = PostShare(main, w)
  BY <1>1, <1>3, <1>5, <1>7, Indices, Zenon DEF Stopped, LastShare, PostShare
<1> DEFINE n == [wk[x] EXCEPT !.bell = FALSE]
<1>9. wk' = [wk EXCEPT ![x] = n]
  BY <1>1, Zenon DEF inf_ring, Ring
<1>10. n \in StreamState /\ Quiet(wk[x], n) /\ Keeps(wk[x], n) /\ n.pc = wk[x].pc
  BY <1>2, Zenon DEF StreamState, Quiet, Keeps
<1> HIDE DEF n
<1> QED
  BY <1>1, <1>3, <1>6, <1>8, <1>9, <1>10, StreamTouch, Zenon

\* The close callback of a doorbell deletes its worker.
LEMMA InfDeleteStep ==
  ASSUME SInv, NEW x \in Workers, inf_delete(x)
  PROVE  SInv'
<1>1. mgr \in ManagerState /\ main \in MainState /\ StreamMainOK /\ is_done \in BOOLEAN
      /\ UNCHANGED <<mgr, main, refs, is_done, models>> /\ wk \in [Workers -> StreamState]
      /\ refs \in [Jobs -> Int]
  BY Zenon DEF SInv, StreamShape, inf_delete, DeleteWorker, own
<1>2. wk[x] \in StreamState /\ StreamWorkerOK(x) /\ wk[x].handle = "closing"
  BY <1>1, Zenon DEF SInv, inf_delete, DeleteWorker
<1>3. StreamMainOK'
  BY <1>1, Zenon DEF StreamMainOK, PlaceOK, CloseOK, At, Closing
<1> DEFINE n == [wk[x] EXCEPT !.handle = "deleted"]
<1>4. wk' = [wk EXCEPT ![x] = n]
  BY <1>1, Zenon DEF inf_delete, DeleteWorker
<1>5. /\ n \in StreamState /\ n.results = wk[x].results /\ n.job = wk[x].job
      /\ n.pc = wk[x].pc /\ n.handle = "deleted"
  BY <1>2, Zenon DEF StreamState
<1> HIDE DEF n
<1>6. (n.job # NoJob => n.pc \in {"push", "send"}) /\ n.pc = "exited" /\ n.results = <<>>
  BY <1>2, <1>5, Zenon DEF StreamWorkerOK, Silent
<1>7. \A w \in Workers : Stopped(w)' <=> Stopped(w)
  BY <1>1, Zenon DEF Stopped, Closing
<1>8. /\ main' \in MainState /\ mgr' \in ManagerState /\ is_done' \in BOOLEAN
      /\ refs' \in [Jobs -> Int] /\ n.handle # "open" /\ n.pc # "push"
  BY <1>1, <1>5, <1>6, Zenon
<1>9. \A w \in Workers : /\ LastShare(main', is_done', w) = LastShare(main, is_done, w)
                         /\ PostShare(main', w) = PostShare(main, w)
  BY <1>1, Zenon
<1> QED
  BY <1>3, <1>4, <1>5, <1>6, <1>7, <1>8, <1>9, StreamStep, Zenon

\* js_dispatch pushes a job: its stream is open, and enqueue has yet to count it.
LEMMA InfDispatchStep ==
  ASSUME SInv, Dispatch, UNCHANGED own
  PROVE  SInv'
<1>1. mgr \in ManagerState /\ main \in MainState /\ StreamMainOK /\ is_done \in BOOLEAN
      /\ UNCHANGED <<is_done, models>> /\ wk \in [Workers -> StreamState] /\ refs \in [Jobs -> Int]
  BY Zenon DEF SInv, StreamShape, own
<1>2. PICK i \in Nat, k \in Nat : i = mgr.next_job_id + 1 /\ k = mgr.next_worker_idx + 1
  BY <1>1 DEF ManagerState
<1>3. PICK x \in Workers : x = pick_worker
  <2>1. mgr.next_worker_idx \in Nat
    BY <1>1, Zenon DEF ManagerState
  <2>2. pick_worker \in 0 .. NWorkers - 1
    BY <2>1, PoolSize DEF pick_worker
  <2> QED
    BY <2>2, Zenon DEF Workers
<1>4. PICK j \in Jobs : j = mgr.next_job_id
  BY <1>1, JobBound DEF Dispatch, TakeJob, Jobs, ManagerState
<1>5. wk[x] \in StreamState /\ StreamWorkerOK(x)
  BY <1>1, Zenon DEF SInv
<1>6. PICK q \in Seq(Jobs) : q = Append(wk[x].sub, j) /\ Len(q) = Len(wk[x].sub) + 1
  BY <1>5, Rings, Zenon DEF StreamState
<1>7. /\ main.pc = "js" /\ mgr.opaque
      /\ mgr' = [mgr EXCEPT !.next_job_id = i, !.next_worker_idx = k]
      /\ main' = [main EXCEPT !.pc = "post", !.tgt = x]
  BY <1>1, <1>2, <1>3, Zenon DEF Dispatch, TakeJob
<1>8. mgr' \in ManagerState /\ mgr'.opaque /\ is_done' \in BOOLEAN
  BY <1>1, <1>7, Zenon DEF ManagerState
<1>9. /\ main' \in MainState /\ main'.pc = "post" /\ main'.tgt = x /\ main'.ret = main.ret
      /\ main'.res = main.res /\ main'.cur = main.cur /\ main'.frame = main.frame
  BY <1>1, <1>7, Zenon DEF MainState
<1>10. ~ Closing /\ ~ Closing' /\ At = "js" /\ At' = "js" /\ main.ret = "js"
  BY <1>1, <1>7, <1>9, Zenon DEF Closing, At, StreamMainOK, CloseOK
<1>11. StreamMainOK'
  BY <1>1, <1>7, <1>8, <1>9, <1>10, Zenon DEF StreamMainOK, PlaceOK, CloseOK
<1>12. \A w \in Workers : /\ ~ Stopped(w) /\ ~ Stopped(w)'
                          /\ LastShare(main', is_done', w) = LastShare(main, is_done, w)
                          /\ PostShare(main, w) = 0
                          /\ PostShare(main', w) = IF w = x THEN 1 ELSE 0
  BY <1>1, <1>7, <1>8, <1>9, <1>10, Zenon DEF Stopped, LastShare, PostShare
<1> DEFINE n == [wk[x] EXCEPT !.sub = q]
<1>13. wk' = [wk EXCEPT ![x] = n]
  BY <1>1, <1>3, <1>4, <1>6, Zenon DEF Dispatch
<1>14. /\ n \in StreamState /\ n.sub = q /\ n.results = wk[x].results /\ n.job = wk[x].job
       /\ n.pc = wk[x].pc /\ Keeps(wk[x], n)
  BY <1>5, Zenon DEF StreamState, Keeps
<1> HIDE DEF n
<1>15. StreamShare(n) = StreamShare(wk[x]) + 1
  <2>1. PICK a \in Nat, b \in Nat, h \in {0, 1} :
          /\ a = Len(wk[x].sub) /\ b = Cardinality(Last(wk[x]))
          /\ h = IF wk[x].job # NoJob THEN 1 ELSE 0
    BY <1>5, StreamShareType, Zenon
  <2>2. StreamShare(n) = a + 1 + b + h /\ StreamShare(wk[x]) = a + b + h
    BY <1>6, <1>14, <2>1, Zenon DEF StreamShare, Last
  <2> QED
    BY <2>2
<1>16. StreamShare(wk[x]) \in Nat /\ LastShare(main, is_done, x) \in {0, 1}
  BY <1>5, StreamShareType, Zenon
<1>17. n.handle = "open" =>
         /\ n.in_flight = StreamShare(n) + LastShare(main', is_done', x) - PostShare(main', x)
         /\ n.ref <=> n.in_flight > 0
  <2>1. /\ LastShare(main', is_done', x) = LastShare(main, is_done, x)
        /\ PostShare(main, x) = 0 /\ PostShare(main', x) = 1
    BY <1>12, Zenon
  <2>2. StreamShare(n) + LastShare(main', is_done', x) - PostShare(main', x)
          = StreamShare(wk[x]) + LastShare(main, is_done, x) - PostShare(main, x)
    BY <1>15, <1>16, <2>1
  <2> QED
    BY <1>5, <1>14, <2>2, Zenon DEF StreamWorkerOK, StreamCount, Keeps
<1>18. /\ n.pc = "push" => n.job # NoJob
       /\ n.job # NoJob => n.pc \in {"push", "send"}
       /\ n.handle # "open" => n.pc = "exited" /\ n.results = <<>>
  BY <1>5, <1>14, Zenon DEF StreamWorkerOK, Silent, Keeps
<1>19. refs' \in [Jobs -> Int]
  <2>1. refs' = [refs EXCEPT ![j] = refs[j] + 1]
    BY <1>4, Zenon DEF Dispatch, TakeJob
  <2> QED
    BY <1>1, <2>1
<1>20. \A w \in Workers : w # x =>
         /\ Stopped(w)' => Stopped(w)
         /\ wk[w].handle = "open" => /\ LastShare(main', is_done', w) = LastShare(main, is_done, w)
                                     /\ PostShare(main', w) = PostShare(main, w)
  BY <1>12, Zenon
<1> QED
  BY <1>8, <1>9, <1>11, <1>12, <1>13, <1>14, <1>17, <1>18, <1>19, <1>20, StreamStep, Zenon

\* enqueue counts the job and references the doorbell.
LEMMA InfEnqueueStep ==
  ASSUME SInv, inf_enqueue
  PROVE  SInv'
<1>1. mgr \in ManagerState /\ main \in MainState /\ StreamMainOK /\ is_done \in BOOLEAN
      /\ UNCHANGED <<is_done, models, refs>> /\ wk \in [Workers -> StreamState]
      /\ refs \in [Jobs -> Int] /\ main.pc = "post"
  BY Zenon DEF SInv, StreamShape, inf_enqueue, EnqueuePost, own
<1>2. PICK x \in Workers : x = main.tgt
  BY <1>1, Zenon DEF MainState
<1>3. wk[x] \in StreamState /\ StreamWorkerOK(x)
  BY <1>1, Zenon DEF SInv
<1>4. PICK s \in Int, i \in Int, r \in BOOLEAN :
        s = wk[x].sem + 1 /\ i = wk[x].in_flight + 1 /\ r = (wk[x].ref \/ wk[x].in_flight = 0)
  <2>1. wk[x].sem + 1 \in Int /\ wk[x].in_flight + 1 \in Int
    BY <1>3 DEF StreamState
  <2>2. (wk[x].ref \/ wk[x].in_flight = 0) \in BOOLEAN
    BY Zenon
  <2> QED
    BY <2>1, <2>2, Zenon
<1>5. PICK st \in [Jobs -> {"unknown", "pending", "done", "error"}] :
        st = [mgr.job_status EXCEPT ![mgr.next_job_id - 1] = "pending"]
  BY <1>1, Zenon DEF ManagerState
<1>6. mgr' = [mgr EXCEPT !.job_status = st] /\ main' = [main EXCEPT !.pc = "js"]
  BY <1>1, <1>5, Zenon DEF inf_enqueue, EnqueuePost
<1>7. mgr' \in ManagerState /\ mgr'.opaque = mgr.opaque
  BY <1>1, <1>6, Zenon DEF ManagerState
<1>8. /\ main' \in MainState /\ main'.pc = "js" /\ main'.tgt = x /\ main'.ret = main.ret
      /\ main'.res = main.res /\ main'.cur = main.cur /\ main'.frame = main.frame
  BY <1>1, <1>2, <1>6, Zenon DEF MainState
<1>9. ~ Closing /\ ~ Closing' /\ At = "js" /\ At' = "js"
  BY <1>1, <1>8, Zenon DEF Closing, At
<1>10. StreamMainOK'
  BY <1>1, <1>7, <1>8, <1>9, Zenon DEF StreamMainOK, PlaceOK, CloseOK
<1>11. \A w \in Workers : /\ Stopped(w)' <=> Stopped(w)
                          /\ LastShare(main', is_done', w) = LastShare(main, is_done, w)
                          /\ PostShare(main', w) = 0
                          /\ PostShare(main, w) = IF w = x THEN 1 ELSE 0
  BY <1>1, <1>2, <1>7, <1>8, <1>9, Zenon DEF Stopped, LastShare, PostShare
<1> DEFINE n == [wk[x] EXCEPT !.sem = s, !.in_flight = i, !.ref = r]
<1>12. wk' = [wk EXCEPT ![x] = n]
  BY <1>1, <1>2, <1>3, <1>4, Zenon DEF inf_enqueue, EnqueuePost, StreamState
<1>13. /\ n \in StreamState /\ Quiet(wk[x], n) /\ n.pc = wk[x].pc /\ n.handle = wk[x].handle
       /\ n.in_flight = i /\ n.ref = r
  BY <1>3, Zenon DEF StreamState, Quiet
<1> HIDE DEF n
<1>14. StreamShare(n) = StreamShare(wk[x])
  BY <1>13, Zenon DEF StreamShare, Quiet, Last
<1>15. /\ StreamShare(wk[x]) \in Nat /\ LastShare(main, is_done, x) \in {0, 1}
       /\ wk[x].in_flight \in Int
  BY <1>3, StreamShareType, Zenon DEF StreamState
<1>16. ASSUME n.handle = "open"
       PROVE  /\ n.in_flight = StreamShare(n) + LastShare(main', is_done', x) - PostShare(main', x)
              /\ n.ref <=> n.in_flight > 0
  <2>1. /\ wk[x].in_flight = StreamShare(wk[x]) + LastShare(main, is_done, x) - 1
        /\ wk[x].ref <=> wk[x].in_flight > 0
    BY <1>3, <1>11, <1>13, <1>16, Zenon DEF StreamWorkerOK, StreamCount
  <2>2. i = StreamShare(n) + LastShare(main', is_done', x) - PostShare(main', x)
    BY <1>4, <1>11, <1>14, <1>15, <2>1
  <2>3. wk[x].in_flight >= -1
    BY <1>15, <2>1
  <2>4. i > 0 <=> (wk[x].in_flight > 0 \/ wk[x].in_flight = 0)
    BY <1>4, <1>15, <2>3
  <2>5. r <=> i > 0
    BY <1>4, <2>1, <2>4, Zenon
  <2> QED
    BY <1>13, <2>2, <2>5, Zenon
<1>17. /\ n.pc = "push" => n.job # NoJob
       /\ n.job # NoJob => n.pc \in {"push", "send"}
       /\ n.handle # "open" => n.pc = "exited" /\ n.results = <<>>
       /\ Stopped(x)' => n.handle # "open"
  BY <1>3, <1>11, <1>13, Zenon DEF StreamWorkerOK, Silent, Quiet
<1>18. \A w \in Workers : w # x =>
         /\ Stopped(w)' => Stopped(w)
         /\ wk[w].handle = "open" => /\ LastShare(main', is_done', w) = LastShare(main, is_done, w)
                                     /\ PostShare(main', w) = PostShare(main, w)
  BY <1>11, Zenon
<1>19. is_done' \in BOOLEAN /\ refs' \in [Jobs -> Int]
  BY <1>1, Zenon
<1> QED
  BY <1>7, <1>8, <1>10, <1>12, <1>13, <1>16, <1>17, <1>18, <1>19, StreamStep, Zenon

\* on_result_ready takes the job of a last result off the count.
LEMMA InfAccountStep ==
  ASSUME SInv, inf_account
  PROVE  SInv'
<1>1. mgr \in ManagerState /\ main \in MainState /\ StreamMainOK /\ is_done \in BOOLEAN
      /\ UNCHANGED <<mgr, is_done, models, refs>> /\ wk \in [Workers -> StreamState]
      /\ refs \in [Jobs -> Int] /\ main.pc = "account" /\ main' = [main EXCEPT !.pc = "drain"]
  BY Zenon DEF SInv, StreamShape, inf_account, Account, own
<1>2. ~ Closing /\ At = "account"
  BY <1>1, Zenon DEF Closing, At
<1>3. PICK x \in Workers : x = main.cur /\ main.res = NoJob
  BY <1>1, <1>2, Zenon DEF StreamMainOK, PlaceOK
<1>4. wk[x] \in StreamState /\ StreamWorkerOK(x) /\ is_done
  BY <1>1, <1>2, Zenon DEF SInv, StreamMainOK
<1>5. PICK i \in Int, r \in BOOLEAN :
        i = wk[x].in_flight - 1 /\ r = (wk[x].ref /\ wk[x].in_flight # 1)
  <2>1. wk[x].in_flight - 1 \in Int
    BY <1>4 DEF StreamState
  <2>2. (wk[x].ref /\ wk[x].in_flight # 1) \in BOOLEAN
    BY Zenon
  <2> QED
    BY <2>1, <2>2, Zenon
<1>6. /\ main' \in MainState /\ main'.pc = "drain" /\ main'.ret = main.ret
      /\ main'.res = NoJob /\ main'.cur = x /\ main'.frame = main.frame
  BY <1>1, <1>3, Zenon DEF MainState
<1>7. ~ Closing' /\ At' = "drain"
  BY <1>6, Zenon DEF Closing, At
<1>8. StreamMainOK'
  BY <1>1, <1>2, <1>3, <1>6, <1>7, Zenon DEF StreamMainOK, PlaceOK, CloseOK
<1>9. \A w \in Workers : Stopped(w)' <=> Stopped(w)
  BY <1>1, <1>2, <1>7, Zenon DEF Stopped
<1>10. \A w \in Workers : wk[w].handle = "open" =>
         /\ LastShare(main, is_done, w) = (IF w = x THEN 1 ELSE 0)
         /\ LastShare(main', is_done', w) = 0
         /\ PostShare(main', w) = 0 /\ PostShare(main, w) = 0
  <2>1. ASSUME NEW w \in Workers, wk[w].handle = "open" PROVE main.ret = "js"
    BY <1>1, <1>2, <2>1, Zenon DEF SInv, StreamWorkerOK, Stopped, StreamMainOK, CloseOK
  <2> QED
    BY <1>1, <1>3, <1>4, <1>6, <2>1, Zenon DEF LastShare, PostShare
<1> DEFINE n == [wk[x] EXCEPT !.in_flight = i, !.ref = r]
<1>11. wk' = [wk EXCEPT ![x] = n]
  BY <1>1, <1>3, <1>4, <1>5, Zenon DEF inf_account, Account, StreamState
<1>12. /\ n \in StreamState /\ Quiet(wk[x], n) /\ n.pc = wk[x].pc /\ n.handle = wk[x].handle
       /\ n.in_flight = i /\ n.ref = r
  BY <1>4, Zenon DEF StreamState, Quiet
<1> HIDE DEF n
<1>13. StreamShare(n) = StreamShare(wk[x])
  BY <1>12, Zenon DEF StreamShare, Quiet, Last
<1>14. StreamShare(wk[x]) \in Nat /\ wk[x].in_flight \in Int
  <2>1. StreamShare(wk[x]) \in Nat
    BY <1>4, StreamShareType, Zenon
  <2> QED
    BY <1>4, <2>1, Zenon DEF StreamState
<1>15. ASSUME n.handle = "open"
       PROVE  /\ n.in_flight = StreamShare(n) + LastShare(main', is_done', x) - PostShare(main', x)
              /\ n.ref <=> n.in_flight > 0
  <2>1. /\ wk[x].in_flight = StreamShare(wk[x]) + LastShare(main, is_done, x) - PostShare(main, x)
        /\ wk[x].ref <=> wk[x].in_flight > 0
    BY <1>4, <1>12, <1>15, Zenon DEF StreamWorkerOK, StreamCount
  <2>2. /\ LastShare(main, is_done, x) = 1 /\ LastShare(main', is_done', x) = 0
        /\ PostShare(main', x) = 0 /\ PostShare(main, x) = 0
    BY <1>10, <1>12, <1>15, Zenon
  <2>3. wk[x].in_flight = StreamShare(wk[x]) + 1
    BY <1>14, <2>1, <2>2
  <2>4. i = StreamShare(n) + LastShare(main', is_done', x) - PostShare(main', x)
    BY <1>5, <1>13, <1>14, <2>3, <2>2
  <2>5. i > 0 <=> (wk[x].in_flight > 0 /\ wk[x].in_flight # 1)
    BY <1>5, <1>14, <2>3
  <2>6. r <=> i > 0
    BY <1>5, <2>1, <2>5, Zenon
  <2> QED
    BY <1>12, <2>4, <2>6, Zenon
<1>16. /\ n.pc = "push" => n.job # NoJob
       /\ n.job # NoJob => n.pc \in {"push", "send"}
       /\ n.handle # "open" => n.pc = "exited" /\ n.results = <<>>
       /\ Stopped(x)' => n.handle # "open"
  BY <1>4, <1>9, <1>12, Zenon DEF StreamWorkerOK, Silent, Quiet
<1>17. \A w \in Workers : w # x =>
         /\ Stopped(w)' => Stopped(w)
         /\ wk[w].handle = "open" => /\ LastShare(main', is_done', w) = LastShare(main, is_done, w)
                                     /\ PostShare(main', w) = PostShare(main, w)
  BY <1>9, <1>10, Zenon
<1>18. mgr' \in ManagerState /\ is_done' \in BOOLEAN /\ refs' \in [Jobs -> Int]
  BY <1>1, Zenon
<1> QED
  BY <1>6, <1>8, <1>11, <1>12, <1>15, <1>16, <1>17, <1>18, StreamStep, Zenon

\* on_result_ready pops a result and calls back: if it is the last one its
\* stream stays open until it is counted.  The manager is open.
LEMMA InfDrainStep ==
  ASSUME SInv, inf_pop
  PROVE  SInv' /\ mgr.opaque
<1>1. mgr \in ManagerState /\ main \in MainState /\ StreamMainOK /\ is_done \in BOOLEAN
      /\ UNCHANGED <<models, refs>> /\ wk \in [Workers -> StreamState]
      /\ refs \in [Jobs -> Int] /\ main.pc = "drain"
  BY Zenon DEF SInv, StreamShape, inf_pop, DrainPop, own
<1>2. ~ Closing /\ At = "drain"
  BY <1>1, Zenon DEF Closing, At
<1>3. PICK x \in Workers : x = main.cur
  BY <1>1, <1>2, Zenon DEF StreamMainOK, PlaceOK
<1>4. wk[x] \in StreamState /\ StreamWorkerOK(x) /\ wk[x].results # <<>>
  BY <1>1, <1>3, Zenon DEF SInv, inf_pop, DrainPop
<1>5. mgr.opaque /\ main.ret = "js" /\ main.res = NoJob /\ wk[x].handle = "open"
  BY <1>1, <1>2, <1>4, Zenon DEF StreamWorkerOK, Silent, Stopped, StreamMainOK, PlaceOK, CloseOK
<1>6. PICK q \in Seq(TokenResult) : q = Tail(wk[x].results)
  BY <1>4, Rings, Zenon DEF StreamState
<1>7. PICK r \in TokenResult : r = Head(wk[x].results)
  BY <1>4, Rings, Zenon DEF StreamState
<1>8. PICK j \in Jobs, d \in BOOLEAN : j = r.job /\ d = r.is_done
  BY Zenon DEF TokenResult
<1>9. PICK st \in [Jobs -> {"unknown", "pending", "done", "error"}] :
        mgr' = [mgr EXCEPT !.job_status = st]
  <2>1. PICK v \in {"done", "error"} : v = IF r.error THEN "error" ELSE "done"
    BY Zenon
  <2>2. [mgr.job_status EXCEPT ![j] = v] \in [Jobs -> {"unknown", "pending", "done", "error"}]
    BY <1>1, Zenon DEF ManagerState
  <2>3. mgr' = [mgr EXCEPT !.job_status = [mgr.job_status EXCEPT ![j] = v]]
    BY <1>1, <1>3, <1>7, <1>8, <2>1, Zenon DEF inf_pop, DrainPop
  <2> QED
    BY <2>2, <2>3, Zenon
<1>10. mgr' \in ManagerState /\ mgr'.opaque = mgr.opaque
  BY <1>1, <1>9, Zenon DEF ManagerState
<1>11. main' = [main EXCEPT !.pc = "js", !.frame = "callback", !.res = j] /\ is_done' = d
  BY <1>3, <1>7, <1>8, Zenon DEF inf_pop, DrainPop
<1>12. /\ main' \in MainState /\ main'.pc = "js" /\ main'.tgt = main.tgt /\ main'.ret = main.ret
       /\ main'.res = j /\ main'.cur = x /\ main'.frame = "callback"
  BY <1>1, <1>3, <1>11, Zenon DEF MainState
<1>13. ~ Closing' /\ At' = "js" /\ j # NoJob
  BY <1>12, Indices, Zenon DEF Closing, At
<1>14. StreamMainOK'
  BY <1>1, <1>2, <1>5, <1>10, <1>12, <1>13, Zenon DEF StreamMainOK, PlaceOK, CloseOK
<1>15. PICK e \in {0, 1} : e = IF d THEN 1 ELSE 0
  BY Zenon
<1>16. \A w \in Workers : /\ ~ Stopped(w)'
                          /\ LastShare(main, is_done, w) = 0
                          /\ LastShare(main', is_done', w) = IF w = x THEN e ELSE 0
                          /\ PostShare(main', w) = 0 /\ PostShare(main, w) = 0
  BY <1>1, <1>3, <1>5, <1>10, <1>11, <1>12, <1>13, <1>15, Zenon DEF Stopped, LastShare, PostShare
<1> DEFINE n == [wk[x] EXCEPT !.results = q]
<1>17. wk' = [wk EXCEPT ![x] = n]
  BY <1>1, <1>3, <1>6, Zenon DEF inf_pop, DrainPop
<1>18. /\ n \in StreamState /\ n.sub = wk[x].sub /\ n.results = q /\ n.job = wk[x].job
       /\ n.pc = wk[x].pc /\ Keeps(wk[x], n)
  BY <1>4, Zenon DEF StreamState, Keeps
<1> HIDE DEF n
<1>19. StreamShare(n) = StreamShare(wk[x]) - e
  <2>1. PICK a \in Nat, b \in Nat, h \in {0, 1} :
          /\ a = Len(wk[x].sub) /\ b = Cardinality(Last(wk[x]))
          /\ h = IF wk[x].job # NoJob THEN 1 ELSE 0
    BY <1>4, StreamShareType, Zenon
  <2>2. Cardinality(Last(n)) = b - e
    <3>1. wk[x].results \in Seq(TokenResult)
      BY <1>4, Zenon DEF StreamState
    <3>2. Cardinality(LastOf(q)) =
            Cardinality(LastOf(wk[x].results)) - IF Head(wk[x].results).is_done THEN 1 ELSE 0
      BY <1>4, <1>6, <3>1, LastTail, Zenon
    <3> QED
      BY <1>7, <1>8, <1>15, <1>18, <2>1, <3>2, Zenon DEF Last
  <2>3. StreamShare(n) = a + (b - e) + h /\ StreamShare(wk[x]) = a + b + h
    BY <1>18, <2>1, <2>2, Zenon DEF StreamShare
  <2> QED
    BY <2>3
<1>20. StreamShare(wk[x]) \in Nat
  BY <1>4, StreamShareType, Zenon
<1>21. n.handle = "open" =>
         /\ n.in_flight = StreamShare(n) + LastShare(main', is_done', x) - PostShare(main', x)
         /\ n.ref <=> n.in_flight > 0
  <2>1. /\ LastShare(main, is_done, x) = 0 /\ PostShare(main, x) = 0
        /\ LastShare(main', is_done', x) = e /\ PostShare(main', x) = 0
    BY <1>16, Zenon
  <2>2. StreamShare(n) + LastShare(main', is_done', x) - PostShare(main', x)
          = StreamShare(wk[x]) + LastShare(main, is_done, x) - PostShare(main, x)
    BY <1>19, <1>20, <2>1
  <2> QED
    BY <1>4, <1>5, <1>18, <2>2, Zenon DEF StreamWorkerOK, StreamCount, Keeps
<1>22. /\ n.pc = "push" => n.job # NoJob
       /\ n.job # NoJob => n.pc \in {"push", "send"}
       /\ n.handle = "open"
  BY <1>4, <1>5, <1>18, Zenon DEF StreamWorkerOK, Keeps
<1>23. \A w \in Workers : w # x =>
         /\ Stopped(w)' => Stopped(w)
         /\ wk[w].handle = "open" => /\ LastShare(main', is_done', w) = LastShare(main, is_done, w)
                                     /\ PostShare(main', w) = PostShare(main, w)
  BY <1>16, Zenon
<1>24. is_done' \in BOOLEAN /\ refs' \in [Jobs -> Int]
  BY <1>1, <1>11, Zenon
<1>25. SInv'
  BY <1>10, <1>12, <1>14, <1>16, <1>17, <1>18, <1>21, <1>22, <1>23, <1>24, StreamStep, Zenon
<1> QED
  BY <1>5, <1>25, Zenon

\* stop() joins the thread, drains the rings and closes the doorbell; the last
\* one ends js_close, which has freed the models.
LEMMA InfJoinStep ==
  ASSUME SInv, inf_join, refs' \in [Jobs -> Int]
  PROVE  SInv'
<1>1. mgr \in ManagerState /\ main \in MainState /\ StreamMainOK /\ is_done \in BOOLEAN
      /\ is_done' = is_done /\ wk \in [Workers -> StreamState] /\ main.pc = "join"
  BY Zenon DEF SInv, StreamShape, inf_join
<1>2. PICK x \in Workers : x = main.tgt
  BY <1>1, Zenon DEF MainState
<1>3. wk[x] \in StreamState /\ StreamWorkerOK(x) /\ wk[x].pc = "exited"
  BY <1>1, <1>2, Zenon DEF SInv, inf_join
<1>4. PICK p \in {"stop"} \cup {main.ret} : p = IF x + 1 \notin Workers THEN main.ret ELSE "stop"
  BY Zenon
<1>5. PICK t \in Workers : t = IF x + 1 \notin Workers THEN x ELSE x + 1
  BY Zenon
<1>6. PICK l \in {"open", "closed", "deleted"} :
        l = IF x + 1 \notin Workers THEN "deleted" ELSE mgr.life
  BY <1>1, Zenon DEF ManagerState
<1>7. /\ main' = [main EXCEPT !.pc = p, !.tgt = t] /\ mgr' = [mgr EXCEPT !.life = l]
      /\ models' = IF x + 1 \notin Workers THEN "freed" ELSE models
  BY <1>1, <1>2, <1>4, <1>5, <1>6, Zenon DEF inf_join
<1>8. mgr' \in ManagerState /\ mgr'.opaque = mgr.opaque
  BY <1>1, <1>7, Zenon DEF ManagerState
<1>9. /\ main' \in MainState /\ main'.pc = p /\ main'.tgt = t /\ main'.ret = main.ret
      /\ main'.res = main.res /\ main'.cur = main.cur
      /\ main'.frame = main.frame /\ main.ret \in {"js", "account", "end"}
  BY <1>1, <1>4, <1>7, Zenon DEF MainState
<1>10. Closing /\ At = main.ret /\ At' = main.ret /\ (Closing' <=> x + 1 \in Workers) /\ ~ mgr.opaque
  BY <1>1, <1>4, <1>9, Zenon DEF Closing, At, StreamMainOK, CloseOK
<1>11. StreamMainOK'
  <2>1. PlaceOK' /\ CloseOK'
    BY <1>1, <1>8, <1>9, <1>10, Zenon DEF StreamMainOK, PlaceOK, CloseOK
  <2>2. models' = "freed" => ~ mgr'.opaque /\ ~ Closing'
    BY <1>1, <1>7, <1>8, <1>10, Zenon DEF StreamMainOK
  <2> QED
    BY <1>1, <1>8, <1>9, <1>10, <2>1, <2>2, Zenon DEF StreamMainOK
<1>12. ASSUME NEW w \in Workers, w # x, Stopped(w)' PROVE Stopped(w)
  <2>1. w \in Nat /\ x \in Nat /\ w < NWorkers /\ x < NWorkers
    BY PoolSize DEF Workers
  <2>2. CASE x + 1 \in Workers
    BY <1>2, <1>5, <1>9, <1>10, <1>12, <2>1, <2>2 DEF Stopped
  <2>3. CASE x + 1 \notin Workers
    <3>1. x + 1 = NWorkers
      BY <2>1, <2>3, PoolSize DEF Workers
    <3>2. w < x
      BY <1>12, <2>1, <3>1, PoolSize
    <3> QED
      BY <1>2, <1>10, <3>2, Zenon DEF Stopped
  <2> QED
    BY <2>2, <2>3, Zenon
<1>13. \A w \in Workers : /\ LastShare(main', is_done', w) = LastShare(main, is_done, w)
                          /\ PostShare(main', w) = PostShare(main, w)
  BY <1>1, <1>4, <1>9, Zenon DEF LastShare, PostShare
<1>14. PICK e \in Seq(Jobs), f \in Seq(TokenResult) : e = <<>> /\ f = <<>>
  <2>1. <<>> \in Seq(Jobs) /\ <<>> \in Seq(TokenResult)
    OBVIOUS
  <2> QED
    BY <2>1, Zenon
<1> DEFINE n == [wk[x] EXCEPT !.sub = e, !.results = f, !.handle = "closing"]
<1>15. wk' = [wk EXCEPT ![x] = n]
  BY <1>1, <1>2, <1>3, <1>14, Zenon DEF inf_join
<1>16. n \in StreamState /\ n.results = f /\ n.job = wk[x].job
       /\ n.pc = wk[x].pc /\ n.handle = "closing"
  BY <1>3, Zenon DEF StreamState
<1> HIDE DEF n
<1>17. /\ n.pc = "exited" /\ n.pc # "push" /\ n.results = <<>> /\ n.handle # "open"
       /\ n.job # NoJob => n.pc \in {"push", "send"}
  BY <1>3, <1>14, <1>16, Zenon DEF StreamWorkerOK
<1>18. \A w \in Workers : w # x =>
         /\ Stopped(w)' => Stopped(w)
         /\ wk[w].handle = "open" => /\ LastShare(main', is_done', w) = LastShare(main, is_done, w)
                                     /\ PostShare(main', w) = PostShare(main, w)
  BY <1>12, <1>13, Zenon
<1>19. main' \in MainState /\ mgr' \in ManagerState /\ is_done' \in BOOLEAN
  BY <1>1, <1>8, <1>9, Zenon
<1> QED
  BY <1>11, <1>15, <1>16, <1>17, <1>18, <1>19, StreamStep, Zenon

-----------------------------------------------------------------------------
(* The streams a worker has.                                               *)

\* What a thread does moves a stream along within its worker: an item of the
\* queue becomes the job in hand, and the job in hand a last result.
LEMMA QuietHas ==
  ASSUME NEW o, NEW n, Quiet(o, n)
  PROVE  StreamHas(n) = StreamHas(o) /\ (StreamOnce(o) => StreamOnce(n)) /\ (Followed(o) => Followed(n))
<1>1. Last(n) = Last(o)
  BY Zenon DEF Quiet, Last
<1>2. StreamHas(n) = StreamHas(o)
  BY <1>1, Zenon DEF StreamHas, Quiet
<1>3. StreamOnce(o) => StreamOnce(n)
  BY <1>1 DEF StreamOnce, Quiet
<1>4. Followed(o) => Followed(n)
  BY <1>1, Zenon DEF Followed, Quiet
<1> QED
  BY <1>2, <1>3, <1>4, Zenon

LEMMA PoppedHas ==
  ASSUME NEW o \in StreamState, NEW n \in StreamState, Popped(o, n), StreamOnce(o), Followed(o)
  PROVE  StreamOnce(n) /\ Followed(n) /\ StreamHas(n) = StreamHas(o)
<1>1. o.sub \in Seq(Jobs) /\ o.sub # <<>> /\ o.job = NoJob /\ n.results = o.results
      /\ o.results \in Seq(TokenResult)
  BY Zenon DEF StreamState, Popped
<1>2. PICK l \in Nat :
         /\ l >= 1 /\ DOMAIN o.sub = 1 .. l /\ DOMAIN n.sub = 1 .. (l - 1)
         /\ \A i \in 1 .. l : o.sub[i] \in Jobs
         /\ n.job = o.sub[1] /\ \A i \in 1 .. (l - 1) : n.sub[i] = o.sub[i + 1]
  BY <1>1, Taken DEF Popped
<1>3. n.job # NoJob /\ Last(n) = Last(o)
  BY <1>1, <1>2, Indices DEF Last
<1>4. Range(o.sub) = Range(n.sub) \cup {n.job}
  BY <1>1, TailRange, Zenon DEF Popped
<1>5. StreamHas(n) = StreamHas(o)
  BY <1>1, <1>3, <1>4, Zenon DEF StreamHas
<1>6. StreamOnce(n)
  <2>1. \A i \in 1 .. (l - 1) : i + 1 \in 1 .. l /\ i + 1 # 1
    OBVIOUS
  <2>2. /\ \A i, k \in 1 .. l : o.sub[i] = o.sub[k] => i = k
        /\ \A i \in 1 .. l, k \in Last(o) : o.sub[i] # o.results[k].job
        /\ \A i, k \in Last(o) : o.results[i].job = o.results[k].job => i = k
    BY <1>2, Zenon DEF StreamOnce
  <2> 1 \in 1 .. l
    BY <1>2
  <2>3. ASSUME NEW i \in 1 .. (l - 1), NEW k \in 1 .. (l - 1), n.sub[i] = n.sub[k] PROVE i = k
    <3>1. o.sub[i + 1] = o.sub[k + 1] /\ i + 1 \in 1 .. l /\ k + 1 \in 1 .. l
      BY <1>2, <2>1, <2>3, Zenon
    <3>2. i + 1 = k + 1
      BY <2>2, <3>1, Zenon
    <3> QED
      BY <3>2
  <2>4. \A i \in 1 .. (l - 1) : n.sub[i] # n.job
    BY <1>2, <2>1, <2>2, ZenonT(40)
  <2>5. ASSUME NEW i \in 1 .. (l - 1), NEW k \in Last(n) PROVE n.sub[i] # n.results[k].job
    <3>1. n.sub[i] = o.sub[i + 1] /\ i + 1 \in 1 .. l /\ k \in Last(o)
      BY <1>2, <1>3, <2>1, Zenon
    <3> QED
      BY <1>1, <2>2, <3>1, ZenonT(40)
  <2>6. \A k \in Last(n) : n.results[k].job # n.job
    BY <1>1, <1>2, <1>3, <2>2, ZenonT(40)
  <2> QED
    BY <1>1, <1>2, <1>3, <2>2, <2>3, <2>4, <2>5, <2>6, Zenon DEF StreamOnce
<1>7. Followed(n)
  <2>1. ASSUME NEW i \in DOMAIN o.results PROVE o.results[i].job # o.job
    <3>1. o.results[i] \in TokenResult
      BY <1>1
    <3> QED
      BY <1>1, <3>1, Indices, Zenon DEF TokenResult
  <2> QED
    BY <1>1, <1>3, <2>1, Zenon DEF Followed
<1> QED
  BY <1>5, <1>6, <1>7, Zenon

LEMMA PushedHas ==
  ASSUME NEW o \in StreamState, NEW n \in StreamState, NEW r \in TokenResult, Pushed(o, n, r),
         StreamOnce(o), Followed(o)
  PROVE  StreamOnce(n) /\ Followed(n) /\ StreamHas(n) = StreamHas(o)
<1>1. o.sub \in Seq(Jobs) /\ n.sub = o.sub /\ o.job = r.job /\ o.job \in Jobs
      /\ o.results \in Seq(TokenResult) /\ n.results = Append(o.results, r)
  BY Zenon DEF StreamState, Pushed, TokenResult
<1>2. PICK l \in Nat :
        /\ DOMAIN o.results = 1 .. l /\ l + 1 \notin Last(o) /\ n.results[l + 1] = r
        /\ \A i \in 1 .. l : n.results[i] = o.results[i]
        /\ DOMAIN n.results = (1 .. l) \cup {l + 1}
        /\ Last(n) = IF r.is_done THEN Last(o) \cup {l + 1} ELSE Last(o)
  <2>1. Last(n) = LastOf(Append(o.results, r)) /\ Last(o) = LastOf(o.results)
    BY <1>1, Zenon DEF Last
  <2>2. PICK l \in Nat :
          /\ DOMAIN o.results = 1 .. l /\ l + 1 \notin LastOf(o.results)
          /\ Append(o.results, r)[l + 1] = r
          /\ \A i \in 1 .. l : Append(o.results, r)[i] = o.results[i]
          /\ DOMAIN Append(o.results, r) = (1 .. l) \cup {l + 1}
          /\ LastOf(Append(o.results, r)) =
               IF r.is_done THEN LastOf(o.results) \cup {l + 1} ELSE LastOf(o.results)
    BY <1>1, LastAppend, Zenon
  <2> QED
    BY <1>1, <2>1, <2>2, Zenon
<1>3. Last(o) \subseteq 1 .. l /\ l + 1 \notin 1 .. l
  BY <1>2 DEF Last, LastOf
<1>4. /\ \A i \in 1 .. l : n.results[i].job = o.results[i].job /\ o.results[i].job \in Jobs
      /\ n.results[l + 1].job = o.job
  <2>1. \A i \in 1 .. l : o.results[i] \in TokenResult
    BY <1>1, <1>2
  <2> QED
    BY <1>1, <1>2, <2>1, Zenon DEF TokenResult
<1>5. \A i \in DOMAIN n.sub : n.sub[i] \in Jobs
  BY <1>1
<1>6. \A i \in 1 .. l : l + 1 >= i
  OBVIOUS
<1>7. o.job # NoJob /\ l + 1 >= l + 1
  BY <1>1, Indices
<1>8. /\ \A i, k \in Last(o) : o.results[i].job = o.results[k].job => i = k
      /\ \A i \in DOMAIN o.sub, k \in Last(o) : o.sub[i] # o.results[k].job
      /\ \A i \in DOMAIN o.sub : o.sub[i] # o.job
      /\ \A k \in Last(o) : o.results[k].job # o.job
      /\ \A i, k \in DOMAIN o.sub : o.sub[i] = o.sub[k] => i = k
  BY Zenon DEF StreamOnce
<1>9. \A i \in Last(o) : n.results[i].job = o.results[i].job
  BY <1>3, <1>4, Zenon
<1>10. CASE r.is_done
  <2>1. n.job = NoJob /\ Last(n) = Last(o) \cup {l + 1}
    BY <1>2, <1>10, Zenon DEF Pushed
  <2>2. StreamHas(n) = StreamHas(o)
    <3>1. {n.results[i].job : i \in Last(n)} = {o.results[i].job : i \in Last(o)} \cup {o.job}
      BY <1>3, <1>4, <2>1
    <3> QED
      BY <1>1, <1>7, <2>1, <3>1, Zenon DEF StreamHas
  <2>3. \A i, k \in Last(n) : n.results[i].job = n.results[k].job => i = k
    BY <1>4, <1>8, <1>9, <2>1, ZenonT(40)
  <2>4. ASSUME NEW i \in DOMAIN n.sub, NEW k \in Last(n) PROVE n.sub[i] # n.results[k].job
    <3>1. i \in DOMAIN o.sub /\ n.sub[i] = o.sub[i]
      BY <1>1, Zenon
    <3>2. CASE k \in Last(o)
      BY <1>8, <1>9, <3>1, <3>2, Zenon
    <3>3. CASE k = l + 1
      BY <1>4, <1>8, <3>1, <3>3, Zenon
    <3> QED
      BY <2>1, <3>2, <3>3, Zenon
  <2>5. /\ \A i \in DOMAIN n.sub : n.sub[i] # n.job
        /\ \A k \in Last(n) : n.results[k].job # n.job
    BY <1>1, <1>3, <1>4, <1>5, <2>1, Indices, Zenon
  <2>6. \A i, k \in DOMAIN n.sub : n.sub[i] = n.sub[k] => i = k
    BY <1>1, <1>8, Zenon
  <2>7. StreamOnce(n)
    BY <2>3, <2>4, <2>5, <2>6, Zenon DEF StreamOnce
  <2>8. Followed(n)
    <3>1. ASSUME NEW i \in 1 .. l
          PROVE  \E k \in Last(n) : k >= i /\ n.results[k].job = n.results[i].job
      <4>1. CASE o.results[i].job = o.job
        BY <1>4, <1>6, <2>1, <4>1, Zenon
      <4>2. CASE o.results[i].job # o.job
        <5>1. PICK k \in Last(o) : k >= i /\ o.results[k].job = o.results[i].job
          BY <1>2, <4>2, Zenon DEF Followed
        <5> QED
          BY <1>3, <1>4, <2>1, <5>1, Zenon
      <4> QED
        BY <4>1, <4>2, Zenon
    <3> QED
      BY <1>2, <1>7, <2>1, <3>1, Zenon DEF Followed
  <2> QED
    BY <2>2, <2>7, <2>8, Zenon
<1>11. CASE ~ r.is_done
  <2>1. n.job = o.job /\ Last(n) = Last(o)
    BY <1>2, <1>11, Zenon DEF Pushed
  <2>2. StreamHas(n) = StreamHas(o)
    <3>1. {n.results[i].job : i \in Last(n)} = {o.results[i].job : i \in Last(o)}
      BY <1>3, <1>4, <2>1, Zenon
    <3> QED
      BY <1>1, <2>1, <3>1, Zenon DEF StreamHas
  <2>3. StreamOnce(n)
    <3>1. \A i, k \in Last(n) : n.results[i].job = n.results[k].job => i = k
      BY <1>8, <1>9, <2>1, Zenon
    <3>2. ASSUME NEW i \in DOMAIN n.sub, NEW k \in Last(n) PROVE n.sub[i] # n.results[k].job
      <4>1. i \in DOMAIN o.sub /\ n.sub[i] = o.sub[i] /\ k \in Last(o)
        BY <1>1, <2>1, Zenon
      <4> QED
        BY <1>8, <1>9, <4>1, Zenon
    <3>3. \A k \in Last(n) : n.results[k].job # n.job
      BY <1>8, <1>9, <2>1, Zenon
    <3> QED
      BY <1>1, <1>8, <2>1, <3>1, <3>2, <3>3, Zenon DEF StreamOnce
  <2>4. Followed(n)
    <3>1. ASSUME NEW i \in 1 .. l
          PROVE  \/ n.results[i].job = n.job
                 \/ \E k \in Last(n) : k >= i /\ n.results[k].job = n.results[i].job
      BY <1>2, <1>3, <1>4, <2>1 DEF Followed
    <3> QED
      BY <1>2, <1>4, <2>1, <3>1, Zenon DEF Followed
  <2> QED
    BY <2>2, <2>3, <2>4, Zenon
<1> QED
  BY <1>10, <1>11, Zenon

LEMMA ThreadHas ==
  ASSUME NEW o \in StreamState, NEW n \in StreamState, ThreadMakes(o, n), StreamOnce(o), Followed(o)
  PROVE  StreamOnce(n) /\ Followed(n) /\ StreamHas(n) = StreamHas(o)
<1>1. CASE Quiet(o, n)
  BY <1>1, QuietHas, Zenon
<1>2. CASE Popped(o, n)
  BY <1>2, PoppedHas, Zenon
<1>3. ASSUME NEW r \in TokenResult, Pushed(o, n, r)
      PROVE  StreamOnce(n) /\ Followed(n) /\ StreamHas(n) = StreamHas(o)
  BY <1>3, PushedHas, Zenon
<1> QED
  BY <1>1, <1>2, <1>3, Zenon DEF ThreadMakes

\* js_dispatch pushes a new job.
LEMMA QueuedHas ==
  ASSUME NEW o \in StreamState, NEW n \in StreamState, StreamOnce(o), Followed(o),
         NEW j \in Jobs, j \notin StreamHas(o),
         n.sub = Append(o.sub, j), n.results = o.results, n.job = o.job
  PROVE  StreamOnce(n) /\ Followed(n) /\ StreamHas(n) = StreamHas(o) \cup {j}
<1>1. o.sub \in Seq(Jobs) /\ Last(n) = Last(o)
  BY Zenon DEF StreamState, Last
<1>2. PICK l \in Nat :
         /\ DOMAIN o.sub = 1 .. l /\ DOMAIN n.sub = 1 .. (l + 1)
         /\ \A i \in 1 .. l : o.sub[i] \in Jobs /\ n.sub[i] = o.sub[i]
         /\ n.sub[l + 1] = j
  BY <1>1, Added
<1>3. 1 .. (l + 1) = (1 .. l) \cup {l + 1} /\ l + 1 \notin 1 .. l
  OBVIOUS
<1>4. /\ \A i \in 1 .. l : o.sub[i] # j
      /\ \A k \in Last(o) : o.results[k].job # j
      /\ o.job # j
  <2>1. NoJob # j
    BY Indices, Zenon
  <2> QED
    BY <1>2, <2>1, Zenon DEF StreamHas, Range
<1>5. Range(n.sub) = Range(o.sub) \cup {j}
  BY <1>2, <1>3 DEF Range
<1>6. StreamHas(n) = StreamHas(o) \cup {j}
  BY <1>1, <1>5, Zenon DEF StreamHas
<1>7. StreamOnce(n)
  BY <1>1, <1>2, <1>3, <1>4 DEF StreamOnce
<1>8. Followed(n)
  BY <1>1, Zenon DEF Followed
<1> QED
  BY <1>6, <1>7, <1>8, Zenon

\* on_result_ready pops the oldest result: the worker gives its stream up if it
\* is the last one, and has it still if it is not.
LEMMA DrainedHas ==
  ASSUME NEW o \in StreamState, NEW n \in StreamState, StreamOnce(o), Followed(o),
         o.results # <<>>, n.results = Tail(o.results), n.sub = o.sub, n.job = o.job
  PROVE  LET r == Head(o.results) IN
         /\ StreamOnce(n) /\ Followed(n) /\ r.job \in StreamHas(o)
         /\ StreamHas(n) = IF r.is_done THEN StreamHas(o) \ {r.job} ELSE StreamHas(o)
<1>1. o.results \in Seq(TokenResult)
  BY Zenon DEF StreamState
<1>2. PICK l \in Nat :
         /\ l >= 1 /\ DOMAIN o.results = 1 .. l /\ DOMAIN n.results = 1 .. (l - 1)
         /\ \A i \in 1 .. l : o.results[i] \in TokenResult
         /\ Head(o.results) = o.results[1]
         /\ \A i \in 1 .. (l - 1) : n.results[i] = o.results[i + 1]
  <2>1. \E l \in Nat :
          /\ l >= 1 /\ DOMAIN o.results = 1 .. l /\ DOMAIN Tail(o.results) = 1 .. (l - 1)
          /\ \A i \in 1 .. l : o.results[i] \in TokenResult
          /\ Head(o.results) = o.results[1]
          /\ \A i \in 1 .. (l - 1) : Tail(o.results)[i] = o.results[i + 1]
    BY <1>1, Taken, Zenon
  <2> QED
    BY <2>1, Zenon
<1>3. PICK j : j = o.results[1].job
  BY Zenon
<1>4. j \in Jobs /\ j # NoJob /\ 1 \in 1 .. l
  BY <1>2, <1>3, Indices DEF TokenResult
<1>5. \A i \in 1 .. (l - 1) : i + 1 \in 1 .. l /\ i + 1 # 1
  OBVIOUS
<1>6. \A i \in 1 .. l : i # 1 => i - 1 \in 1 .. (l - 1) /\ (i - 1) + 1 = i
  OBVIOUS
<1>7. \A i \in 1 .. (l - 1) : i \in Last(n) <=> i + 1 \in Last(o)
  BY <1>2, <1>5, Zenon DEF Last, LastOf
<1>8. Last(n) \subseteq 1 .. (l - 1) /\ Last(o) \subseteq 1 .. l
  BY <1>2, Zenon DEF Last, LastOf
<1>9. ASSUME NEW i \in Last(n)
      PROVE  i \in 1 .. (l - 1) /\ i + 1 \in Last(o) /\ i + 1 # 1 /\ n.results[i] = o.results[i + 1]
  BY <1>2, <1>5, <1>7, <1>8, Zenon
<1>10. ASSUME NEW k \in Last(o), k # 1
       PROVE  k - 1 \in Last(n) /\ n.results[k - 1] = o.results[k]
  <2>1. k \in 1 .. l
    BY <1>8, Zenon
  <2>2. k - 1 \in 1 .. (l - 1) /\ (k - 1) + 1 = k
    BY <1>6, <1>10, <2>1, Zenon
  <2> QED
    BY <1>2, <1>7, <2>2, Zenon
<1>11. /\ \A i, k \in Last(o) : o.results[i].job = o.results[k].job => i = k
       /\ \A i \in DOMAIN o.sub, k \in Last(o) : o.sub[i] # o.results[k].job
       /\ \A i \in DOMAIN o.sub : o.sub[i] # o.job
       /\ \A k \in Last(o) : o.results[k].job # o.job
       /\ \A i, k \in DOMAIN o.sub : o.sub[i] = o.sub[k] => i = k
  BY Zenon DEF StreamOnce
<1>12. StreamOnce(n)
  <2>1. ASSUME NEW i \in Last(n), NEW k \in Last(n), n.results[i].job = n.results[k].job PROVE i = k
    <3>1. i + 1 = k + 1
      BY <1>9, <1>11, <2>1, ZenonT(40)
    <3>2. i \in 1 .. (l - 1) /\ k \in 1 .. (l - 1)
      BY <1>9, Zenon
    <3> QED
      BY <3>1, <3>2
  <2>2. ASSUME NEW i \in DOMAIN n.sub, NEW k \in Last(n) PROVE n.sub[i] # n.results[k].job
    <3>1. i \in DOMAIN o.sub /\ n.sub[i] = o.sub[i]
      BY Zenon
    <3>2. k + 1 \in Last(o) /\ n.results[k] = o.results[k + 1]
      BY <1>9, Zenon
    <3> QED
      BY <1>11, <3>1, <3>2, Zenon
  <2>3. \A k \in Last(n) : n.results[k].job # n.job
    BY <1>9, <1>11, Zenon
  <2> QED
    BY <1>11, <2>1, <2>2, <2>3, Zenon DEF StreamOnce
<1>13. Followed(n)
  <2>1. ASSUME NEW i \in 1 .. (l - 1), n.results[i].job # n.job
        PROVE  \E k \in Last(n) : k >= i /\ n.results[k].job = n.results[i].job
    <3>1. n.results[i] = o.results[i + 1] /\ i + 1 \in 1 .. l
      BY <1>2, <1>5, Zenon
    <3>2. PICK k \in Last(o) : k >= i + 1 /\ o.results[k].job = o.results[i + 1].job
      BY <1>2, <2>1, <3>1, Zenon DEF Followed
    <3>3. k \in 1 .. l /\ k # 1 /\ k - 1 >= i
      BY <1>8, <3>2
    <3>4. k - 1 \in Last(n) /\ n.results[k - 1] = o.results[k]
      BY <1>10, <3>3, Zenon
    <3> QED
      BY <3>1, <3>2, <3>3, <3>4, Zenon
  <2> QED
    BY <1>2, <2>1, Zenon DEF Followed
<1>14. j \in StreamHas(o)
  <2>1. CASE j = o.job
    BY <1>4, <2>1, Zenon DEF StreamHas
  <2>2. CASE j # o.job
    <3>1. PICK k \in Last(o) : o.results[k].job = j
      BY <1>2, <1>3, <1>4, <2>2, Zenon DEF Followed
    <3> QED
      BY <3>1, Zenon DEF StreamHas
  <2> QED
    BY <2>1, <2>2, Zenon
<1> DEFINE A == {o.results[i].job : i \in Last(o)}
           B == {n.results[i].job : i \in Last(n)}
<1>15. \A a \in B : a \in A
  BY <1>9, Zenon
<1>16. CASE o.results[1].is_done
  <2>1. 1 \in Last(o)
    BY <1>2, <1>4, <1>16, Zenon DEF Last, LastOf
  <2>2. ASSUME NEW i \in Last(n) PROVE n.results[i].job # j
    <3>1. i + 1 \in Last(o) /\ i + 1 # 1 /\ n.results[i] = o.results[i + 1]
      BY <1>9, Zenon
    <3> QED
      BY <1>3, <1>11, <2>1, <3>1, Zenon
  <2>3. \A a \in A : a # j => a \in B
    BY <1>3, <1>10, Zenon
  <2>4. j \notin Range(o.sub) /\ j # o.job
    BY <1>3, <1>11, <2>1, ZenonT(40) DEF Range
  <2>5. B = A \ {j}
    BY <1>15, <2>2, <2>3, Zenon
  <2>6. StreamHas(o) = Range(o.sub) \cup A \cup ({o.job} \ {NoJob})
        /\ StreamHas(n) = Range(o.sub) \cup B \cup ({o.job} \ {NoJob})
    BY Zenon DEF StreamHas
  <2> HIDE DEF A, B
  <2>7. StreamHas(n) = StreamHas(o) \ {j}
    BY <2>4, <2>5, <2>6, Zenon
  <2> QED
    BY <1>2, <1>3, <1>12, <1>13, <1>14, <1>16, <2>7, Zenon
<1>17. CASE ~ o.results[1].is_done
  <2>1. 1 \notin Last(o)
    BY <1>17, Zenon DEF Last, LastOf
  <2>2. \A a \in A : a \in B
    BY <1>10, <2>1, ZenonT(40)
  <2>3. B = A
    BY <1>15, <2>2, Zenon
  <2>4. StreamHas(o) = Range(o.sub) \cup A \cup ({o.job} \ {NoJob})
        /\ StreamHas(n) = Range(o.sub) \cup B \cup ({o.job} \ {NoJob})
    BY Zenon DEF StreamHas
  <2> HIDE DEF A, B
  <2>5. StreamHas(n) = StreamHas(o)
    BY <2>3, <2>4, Zenon
  <2> QED
    BY <1>2, <1>3, <1>12, <1>13, <1>14, <1>17, <2>5, Zenon
<1> QED
  BY <1>16, <1>17, Zenon

\* stop() frees the callback of each stream that the worker has, once, and no
\* other: no stream is cut off, the last result of each is in the ring.
LEMMA FreedOnce ==
  ASSUME NEW w \in Workers, wk[w] \in StreamState, wk[w].job = NoJob,
         StreamOnce(wk[w]), Followed(wk[w]), NEW j \in Jobs
  PROVE  Freed(w, j) = IF j \in StreamHas(wk[w]) THEN 1 ELSE 0
<1> DEFINE r == wk[w].results
           D == {i \in DOMAIN r : r[i].job = j /\ r[i].is_done}
<1>1. r \in Seq(TokenResult)
  BY Zenon DEF StreamState
<1>2. PICK l \in Nat : l = Len(r) /\ DOMAIN r = 1 .. l /\ \A i \in 1 .. l : r[i] \in TokenResult
  BY <1>1
<1>3. \A i \in 1 .. l : r[i].job \in Jobs /\ r[i].job # NoJob
  BY <1>2, Indices, Zenon DEF TokenResult
<1>4. Last(wk[w]) = {i \in DOMAIN r : r[i].is_done}
  BY Zenon DEF Last, LastOf
<1>5. j \notin MidStream(w)
  <2>1. SUFFICES ASSUME NEW k \in DOMAIN r, ~ r[k].is_done,
                        \A m \in k .. Len(r) : r[m].job = r[k].job => ~ r[m].is_done
                 PROVE  FALSE
    BY Zenon DEF MidStream
  <2>2. PICK m \in Last(wk[w]) : m >= k /\ r[m].job = r[k].job
    BY <1>2, <1>3, Zenon DEF Followed
  <2>3. m \in k .. Len(r) /\ r[m].is_done
    BY <1>2, <1>4, <2>2
  <2> QED
    BY <2>1, <2>2, <2>3, Zenon
<1>6. j \in StreamHas(wk[w]) <=> j \in Range(wk[w].sub) \/ D # {}
  <2>1. StreamHas(wk[w]) = Range(wk[w].sub) \cup {r[i].job : i \in Last(wk[w])}
    BY Zenon DEF StreamHas
  <2> QED
    BY <1>4, <2>1, Zenon
<1>7. ~ (j \in Range(wk[w].sub) /\ D # {})
  BY <1>4, Zenon DEF StreamOnce, Range
<1>8. D = {} \/ \E k : D = {k}
  <2>1. \A i, k \in Last(wk[w]) : r[i].job = r[k].job => i = k
    BY Zenon DEF StreamOnce
  <2>2. \A i \in D : i \in Last(wk[w]) /\ r[i].job = j
    BY <1>4, Zenon
  <2>3. \A i, k \in D : i = k
    BY <2>1, <2>2, Zenon
  <2> HIDE DEF D
  <2>4. ASSUME NEW k \in D PROVE D = {k}
    BY <2>3, Zenon
  <2> QED
    BY <2>4, Zenon
<1>9. Cardinality(D) = IF D = {} THEN 0 ELSE 1
  <2>1. CASE D = {}
    BY <2>1, FS_EmptySet, Zenon
  <2>2. ASSUME NEW k, D = {k} PROVE Cardinality(D) = 1 /\ D # {}
    BY <2>2, FS_Singleton, Zenon
  <2> QED
    BY <1>8, <2>1, <2>2, Zenon
<1>10. Freed(w, j) = (IF j \in Range(wk[w].sub) THEN 1 ELSE 0) + Cardinality(D) + 0
  BY <1>5, Zenon DEF Freed
<1> HIDE DEF D, r
<1>11. CASE j \in Range(wk[w].sub)
  <2>1. Freed(w, j) = 1 + 0 + 0
    BY <1>7, <1>9, <1>10, <1>11, Zenon
  <2> QED
    BY <1>6, <1>11, <2>1
<1>12. CASE j \notin Range(wk[w].sub) /\ D # {}
  <2>1. Freed(w, j) = 0 + 1 + 0
    BY <1>9, <1>10, <1>12, Zenon
  <2> QED
    BY <1>6, <1>12, <2>1
<1>13. CASE j \notin Range(wk[w].sub) /\ D = {}
  <2>1. Freed(w, j) = 0 + 0 + 0
    BY <1>9, <1>10, <1>13, Zenon
  <2> QED
    BY <1>6, <1>13, <2>1
<1> QED
  BY <1>11, <1>12, <1>13, Zenon

-----------------------------------------------------------------------------
(* Every step keeps the ownership of the streams' callbacks.               *)

LEMMA StreamingType ==
  ASSUME SInv
  PROVE  Streaming \in Holding
<1>1. ASSUME NEW w \in Workers PROVE StreamHas(wk[w]) \subseteq Jobs
  <2>1. /\ wk[w].sub \in Seq(Jobs) /\ wk[w].results \in Seq(TokenResult)
        /\ wk[w].job \in Jobs \cup {NoJob}
    BY Zenon DEF SInv, StreamShape, StreamState
  <2>2. Range(wk[w].sub) \subseteq Jobs
    BY <2>1 DEF Range
  <2>3. ASSUME NEW i \in Last(wk[w]) PROVE wk[w].results[i].job \in Jobs
    <3>1. wk[w].results[i] \in TokenResult
      BY <2>1 DEF Last, LastOf
    <3> QED
      BY <3>1, Zenon DEF TokenResult
  <2> QED
    BY <2>1, <2>2, <2>3, Zenon DEF StreamHas
<1> QED
  BY <1>1, Zenon DEF Streaming, Holding

LEMMA StreamingStep ==
  ASSUME SInv, NEW x \in Workers, NEW n, wk' = [wk EXCEPT ![x] = n]
  PROVE  /\ Streaming' = [Streaming EXCEPT ![x] = StreamHas(n)]
         /\ wk'[x] = n /\ \A w \in Workers : w # x => wk'[w] = wk[w]
         /\ Streaming[x] = StreamHas(wk[x])
<1>1. wk'[x] = n /\ \A w \in Workers : w # x => wk'[w] = wk[w]
  BY Zenon DEF SInv, StreamShape
<1>2. \A w \in Workers : Streaming'[w] = IF w = x THEN StreamHas(n) ELSE Streaming[w]
  <2>1. \A w \in Workers : Streaming'[w] = StreamHas(wk'[w]) /\ Streaming[w] = StreamHas(wk[w])
    BY Zenon DEF Streaming
  <2> QED
    BY <1>1, <2>1, Zenon
<1> QED
  BY <1>1, <1>2, Zenon DEF Streaming

\* A step by which no callback changes hands.
LEMMA StayStreamed ==
  ASSUME SInv, SOInv, Streaming' = Streaming, InHand' = InHand,
         \A w \in Workers : StreamOnce(wk'[w]) /\ Followed(wk'[w]),
         mgr'.next_job_id = mgr.next_job_id, UNCHANGED refs,
         \A j \in Jobs : mgr'.job_status[j] # mgr.job_status[j] => j \in Held(Streaming, InHand),
         main'.pc = "post" => main.pc = "post",
         (mgr'.opaque /\ main'.res # NoJob) => main'.res \in Held(Streaming, InHand)
  PROVE  SOInv'
<1>1. mgr.next_job_id \in Nat
  BY Zenon DEF SInv, StreamShape, ManagerState
<1>2. Owned(Streaming, InHand, mgr.next_job_id, mgr'.job_status, refs)
  BY <1>1, StreamingType, OwnSame, Zenon DEF SOInv
<1> QED
  BY <1>2, Zenon DEF SOInv

LEMMA ThreadSOInv ==
  ASSUME SInv, SOInv, NEW x \in Workers, ThreadTurn(x)
  PROVE  SOInv'
<1>1. UNCHANGED <<mgr, main, is_done, refs>> /\ InHand' = InHand
  BY Zenon DEF ThreadTurn, InHand
<1>2. CASE wk' = wk
  <2>1. Streaming' = Streaming
    BY <1>2, Zenon DEF Streaming
  <2> QED
    BY <1>1, <1>2, <2>1, Zenon DEF SOInv
<1>3. ASSUME NEW n \in StreamState, wk' = [wk EXCEPT ![x] = n], ThreadMakes(wk[x], n) PROVE SOInv'
  <2>1. wk[x] \in StreamState /\ StreamOnce(wk[x]) /\ Followed(wk[x])
    BY Zenon DEF SInv, StreamShape, SOInv
  <2>2. StreamOnce(n) /\ Followed(n) /\ StreamHas(n) = StreamHas(wk[x])
    BY <1>3, <2>1, ThreadHas, Zenon
  <2>3. Streaming' = [Streaming EXCEPT ![x] = Streaming[x]]
    BY <1>3, <2>2, StreamingStep, ZenonT(40)
  <2>4. Streaming' = Streaming
    BY <2>3, StreamingType, Zenon DEF Holding
  <2>5. \A w \in Workers : StreamOnce(wk'[w]) /\ Followed(wk'[w])
    BY <1>3, <2>2, StreamingStep, Zenon DEF SOInv
  <2> QED
    BY <1>1, <2>4, <2>5, StayStreamed, Zenon DEF SOInv
<1> QED
  BY <1>2, <1>3, Zenon DEF ThreadTurn

\* The main thread does something by which no callback changes hands.
LEMMA MainStreamed ==
  ASSUME SInv, SOInv, \A w \in Workers : Quiet(wk[w], wk'[w]), InHand' = InHand,
         mgr'.next_job_id = mgr.next_job_id, UNCHANGED refs,
         \A j \in Jobs : mgr'.job_status[j] # mgr.job_status[j] => j \in Held(Streaming, InHand),
         main'.pc # "post", main'.res \in {main.res, NoJob}, mgr'.opaque => mgr.opaque
  PROVE  SOInv'
<1>1. \A w \in Workers : /\ StreamHas(wk'[w]) = StreamHas(wk[w])
                         /\ StreamOnce(wk'[w]) /\ Followed(wk'[w])
  BY QuietHas, Zenon DEF SOInv
<1>2. Streaming' = Streaming
  <2>1. \A w \in Workers : Streaming'[w] = StreamHas(wk'[w]) /\ Streaming[w] = StreamHas(wk[w])
    BY Zenon DEF Streaming
  <2>2. /\ Streaming' = [w \in Workers |-> Streaming'[w]]
        /\ Streaming = [w \in Workers |-> Streaming[w]]
    BY Zenon DEF Streaming
  <2> QED
    BY <1>1, <2>1, <2>2
<1>3. (mgr'.opaque /\ main'.res # NoJob) => main'.res \in Held(Streaming, InHand)
  BY Zenon DEF SOInv
<1> QED
  BY <1>1, <1>2, <1>3, StayStreamed, Zenon

LEMMA QuietSOInv ==
  ASSUME SInv, SOInv, UNCHANGED is_done,
         \/ StopStore \/ StopPost \/ Account \/ JsReturn \/ DrainEmpty \/ OtherEvent
         \/ LoopExit \/ Interrupt \/ DropManager \/ TearDown
         \/ \E w \in Workers : Ring(w) \/ DeleteWorker(w)
  PROVE  SOInv'
<1>1. mgr \in ManagerState /\ main \in MainState /\ wk \in [Workers -> StreamState]
  BY Zenon DEF SInv, StreamShape
<1>2. UNCHANGED refs
  BY Zenon DEF StopStore, StopPost, Account, JsReturn, DrainEmpty, OtherEvent, LoopExit, Interrupt,
     DropManager, TearDown, StopAll, Ring, DeleteWorker
<1>3. /\ mgr'.next_job_id = mgr.next_job_id /\ mgr'.job_status = mgr.job_status
      /\ mgr'.opaque => mgr.opaque
  <2>1. UNCHANGED mgr \/ mgr' = [mgr EXCEPT !.opaque = FALSE]
    BY Zenon DEF StopStore, StopPost, Account, JsReturn, DrainEmpty, OtherEvent, LoopExit, Interrupt,
       DropManager, TearDown, StopAll, Ring, DeleteWorker
  <2> QED
    BY <1>1, <2>1, Zenon DEF ManagerState
<1>4. main'.res = main.res /\ main'.pc # "post"
  <2>2. CASE StopStore \/ StopPost \/ Account \/ LoopExit \/ Interrupt
    BY <1>1, <2>2, Zenon DEF StopStore, StopPost, Account, LoopExit, Interrupt, MainState
  <2>3. CASE JsReturn \/ OtherEvent
    BY <1>1, <2>3, Zenon DEF JsReturn, OtherEvent, MainState
  <2>4. CASE DrainEmpty \/ \E w \in Workers : Ring(w)
    BY <1>1, <2>4, Zenon DEF DrainEmpty, Ring, MainState
  <2>5. CASE \E w \in Workers : DeleteWorker(w)
    BY <1>1, <2>5, Zenon DEF DeleteWorker, SInv, StreamMainOK
  <2>6. ASSUME NEW from, NEW fin, StopAll(from, fin, main.res)
        PROVE  main'.res = main.res /\ main'.pc # "post"
    BY <1>1, <2>6, Zenon DEF StopAll, MainState
  <2>7. CASE DropManager \/ TearDown
    BY <1>1, <2>6, <2>7, Zenon DEF DropManager, TearDown, MainState
  <2> QED
    BY <2>2, <2>3, <2>4, <2>5, <2>7, Zenon
<1>5. ASSUME NEW w \in Workers PROVE Quiet(wk[w], wk'[w])
  <2>1. wk[w] \in StreamState
    BY <1>1, Zenon
  <2>2. ASSUME NEW v \in Workers, Ring(v) \/ DeleteWorker(v) PROVE Quiet(wk[w], wk'[w])
    <3>1. CASE Ring(v)
      BY <1>1, <2>1, <3>1, Zenon DEF Ring, StreamState, Quiet
    <3>2. CASE DeleteWorker(v)
      BY <1>1, <2>1, <3>2, Zenon DEF DeleteWorker, StreamState, Quiet
    <3> QED
      BY <2>2, <3>1, <3>2, Zenon
  <2>3. CASE StopStore
    BY <1>1, <2>1, <2>3, Zenon DEF StopStore, StreamState, Quiet
  <2>4. CASE StopPost
    BY <1>1, <2>1, <2>4, Zenon DEF StopPost, StreamState, Quiet
  <2>5. CASE Account
    BY <1>1, <2>1, <2>5, Zenon DEF Account, StreamState, Quiet
  <2>6. CASE ~ (StopStore \/ StopPost \/ Account \/ \E v \in Workers : Ring(v) \/ DeleteWorker(v))
    BY <2>6, Zenon DEF JsReturn, DrainEmpty, OtherEvent, LoopExit, Interrupt, DropManager, TearDown,
       StopAll, Quiet
  <2> QED
    BY <2>2, <2>3, <2>4, <2>5, <2>6, Zenon
<1>6. InHand' = InHand
  BY <1>4, Zenon DEF InHand
<1> QED
  BY <1>2, <1>3, <1>4, <1>5, <1>6, MainStreamed, Zenon

\* A token that is not the last has been handled: on_result keeps its callback.
LEMMA TokenSOInv ==
  ASSUME SInv, SOInv, TokenReturned
  PROVE  SOInv'
<1>1. main \in MainState /\ ~ is_done /\ UNCHANGED <<mgr, wk, refs, is_done>>
      /\ main' = [main EXCEPT !.pc = "drain", !.res = NoJob]
  BY Zenon DEF SInv, StreamShape, TokenReturned, own
<1>2. main'.pc = "drain" /\ main'.res = NoJob
  BY <1>1, Zenon DEF MainState
<1>3. InHand' = InHand
  BY <1>1, Zenon DEF InHand
<1>4. \A w \in Workers : Quiet(wk[w], wk'[w])
  BY <1>1, Zenon DEF Quiet
<1> QED
  BY <1>1, <1>2, <1>3, <1>4, MainStreamed, Zenon

\* enqueue records the job it has pushed as pending; some thread may have it by now.
LEMMA EnqueueSOInv ==
  ASSUME SInv, SOInv, inf_enqueue
  PROVE  SOInv'
<1>1. /\ mgr \in ManagerState /\ main \in MainState /\ wk \in [Workers -> StreamState]
      /\ UNCHANGED <<refs, is_done>>
  BY Zenon DEF SInv, StreamShape, inf_enqueue, EnqueuePost, own
<1>2. PICK j : j = mgr.next_job_id - 1
  BY Zenon
<1>3. j \in Held(Streaming, InHand)
  BY <1>2, Zenon DEF SOInv, inf_enqueue, EnqueuePost
<1>4. PICK st : st = [mgr.job_status EXCEPT ![j] = "pending"]
  BY Zenon
<1>5. mgr' = [mgr EXCEPT !.job_status = st] /\ main' = [main EXCEPT !.pc = "js"]
  BY <1>1, <1>2, <1>4, Zenon DEF inf_enqueue, EnqueuePost
<1>6. mgr'.next_job_id = mgr.next_job_id /\ mgr'.job_status = st /\ mgr'.opaque = mgr.opaque
  BY <1>1, <1>5, Zenon DEF ManagerState
<1>7. main'.res = main.res /\ main'.pc = "js"
  BY <1>1, <1>5, Zenon DEF MainState
<1>8. \A k \in Jobs : k # j => st[k] = mgr.job_status[k]
  BY <1>1, <1>4, Zenon DEF ManagerState
<1>9. ASSUME NEW w \in Workers PROVE Quiet(wk[w], wk'[w])
  <2>1. wk[w] \in StreamState
    BY <1>1, Zenon
  <2> QED
    BY <1>1, <2>1, Zenon DEF inf_enqueue, EnqueuePost, StreamState, Quiet
<1>10. InHand' = InHand
  BY <1>1, <1>7, Zenon DEF InHand
<1> QED
  BY <1>1, <1>3, <1>6, <1>7, <1>8, <1>9, <1>10, MainStreamed, Zenon

\* do_inference hands the callback to the worker it picks, or, if the queue is
\* full, to nobody.
LEMMA DispatchSOInv ==
  ASSUME SInv, SOInv, do_inference
  PROVE  SOInv'
<1>1. mgr \in ManagerState /\ main \in MainState /\ refs \in [Jobs -> Int] /\ UNCHANGED is_done
  BY Zenon DEF SInv, StreamShape, do_inference, own
<1>2. PICK j \in Jobs : j = mgr.next_job_id
  BY <1>1, JobBound DEF do_inference, Dispatch, DispatchFull, TakeJob, Jobs, ManagerState
<1>3. PICK i \in Nat, k \in Nat : i = j + 1 /\ k = mgr.next_worker_idx + 1
  BY <1>1, <1>2, Indices DEF ManagerState
<1>4. /\ mgr' = [mgr EXCEPT !.next_job_id = i, !.next_worker_idx = k]
      /\ refs' = [refs EXCEPT ![j] = refs[j] + 1]
      /\ main.pc = "js"
  BY <1>1, <1>2, <1>3, Zenon DEF do_inference, Dispatch, DispatchFull, TakeJob
<1>5. /\ mgr'.next_job_id = j + 1 /\ mgr'.job_status = mgr.job_status
      /\ mgr'.opaque = mgr.opaque
  BY <1>1, <1>3, <1>4, Zenon DEF ManagerState
<1>7. Streaming \in Holding /\ Owned(Streaming, InHand, j, mgr.job_status, refs)
  BY <1>2, StreamingType, Zenon DEF SOInv
<1>8. ASSUME NEW w \in Workers
      PROVE  /\ Owned([Streaming EXCEPT ![w] = Streaming[w] \cup {j}], InHand, j + 1, mgr.job_status, refs')
             /\ Owned(Streaming, InHand, j + 1, mgr.job_status, refs')
  BY <1>1, <1>4, <1>7, OwnTake, Zenon
<1>9. 0 \in Workers
  BY PoolSize DEF Workers
<1>10. CASE DispatchFull
  <2>1. UNCHANGED <<wk, main>>
    BY <1>10, Zenon DEF DispatchFull
  <2>2. Streaming' = Streaming /\ InHand' = InHand
    BY <1>1, <2>1, Zenon DEF Streaming, InHand
  <2>3. Owned(Streaming, InHand, j + 1, mgr.job_status, refs')
    BY <1>8, <1>9, Zenon
  <2> QED
    BY <1>4, <1>5, <2>1, <2>2, <2>3, Zenon DEF SOInv
<1>11. CASE Dispatch
  <2>1. PICK x \in Workers : x = pick_worker
    <3>1. mgr.next_worker_idx \in Nat
      BY <1>1, Zenon DEF ManagerState
    <3>2. pick_worker \in 0 .. NWorkers - 1
      BY <3>1, PoolSize DEF pick_worker
    <3> QED
      BY <3>2, Zenon DEF Workers
  <2>2. wk[x] \in StreamState /\ StreamOnce(wk[x]) /\ Followed(wk[x])
    BY Zenon DEF SInv, StreamShape, SOInv
  <2>3. PICK q \in Seq(Jobs) : q = Append(wk[x].sub, j)
    BY <2>2, Rings, Zenon DEF StreamState
  <2> DEFINE n == [wk[x] EXCEPT !.sub = q]
  <2>4. wk' = [wk EXCEPT ![x] = n] /\ main' = [main EXCEPT !.pc = "post", !.tgt = x]
    BY <1>2, <1>11, <2>1, <2>3, Zenon DEF Dispatch, SInv, StreamShape
  <2>5. n \in StreamState /\ n.sub = q /\ n.results = wk[x].results /\ n.job = wk[x].job
    BY <2>2, Zenon DEF StreamState
  <2> HIDE DEF n
  <2>6. main'.res = main.res /\ InHand' = InHand
    BY <1>1, <2>4, Zenon DEF MainState, InHand
  <2>7. j \notin StreamHas(wk[x])
    <3>1. j \notin Held(Streaming, InHand)
      BY <1>7, Indices DEF Owned
    <3> QED
      BY <3>1, Zenon DEF Held, Streaming
  <2>8. StreamOnce(n) /\ Followed(n) /\ StreamHas(n) = StreamHas(wk[x]) \cup {j}
    <3>1. n.sub = Append(wk[x].sub, j)
      BY <2>3, <2>5, Zenon
    <3> QED
      BY <2>2, <2>5, <2>7, <3>1, QueuedHas, Zenon
  <2>9. Streaming' = [Streaming EXCEPT ![x] = Streaming[x] \cup {j}]
    BY <2>4, <2>8, StreamingStep, Zenon
  <2>10. \A w \in Workers : StreamOnce(wk'[w]) /\ Followed(wk'[w])
    BY <2>4, <2>8, StreamingStep, Zenon DEF SOInv
  <2>11. Owned(Streaming', InHand', mgr'.next_job_id, mgr'.job_status, refs')
    BY <1>5, <1>8, <2>6, <2>9, Zenon
  <2>12. mgr'.next_job_id - 1 = j
    BY <1>2, <1>5, Indices
  <2>13. Held(Streaming, InHand) \cup {j} \subseteq Held(Streaming', InHand')
    BY <1>7, <2>6, <2>9, Zenon DEF Held, Holding
  <2>14. (mgr.opaque /\ main.res # NoJob) => main.res \in Held(Streaming', InHand')
    BY <2>13, Zenon DEF SOInv
  <2>15. j \in Held(Streaming', InHand')
    BY <2>13, Zenon
  <2> QED
    BY <1>5, <2>6, <2>10, <2>11, <2>12, <2>14, <2>15, Zenon DEF SOInv
<1> QED
  BY <1>10, <1>11, Zenon DEF do_inference

\* on_result_ready takes a result from the worker; the callback comes with it if
\* it is the last of its stream, else it stays where it is.
LEMMA DrainSOInv ==
  ASSUME SInv, SOInv, inf_pop
  PROVE  SOInv'
<1>1. /\ mgr \in ManagerState /\ main \in MainState /\ StreamMainOK /\ main.pc = "drain"
      /\ is_done' = Head(wk[main.cur].results).is_done
  BY Zenon DEF SInv, StreamShape, inf_pop, DrainPop
<1>2. PICK x \in Workers : x = main.cur /\ main.res = NoJob
  BY <1>1, Zenon DEF StreamMainOK, PlaceOK, At, Closing
<1>3. wk[x] \in StreamState /\ StreamOnce(wk[x]) /\ Followed(wk[x]) /\ wk[x].results # <<>>
  BY <1>2, Zenon DEF SInv, StreamShape, inf_pop, DrainPop, SOInv
<1>4. PICK q \in Seq(TokenResult) : q = Tail(wk[x].results)
  BY <1>3, Rings, Zenon DEF StreamState
<1>5. PICK r : r = Head(wk[x].results)
  BY Zenon
<1>6. PICK j : j = r.job
  BY Zenon
<1>7. PICK st : /\ mgr' = [mgr EXCEPT !.job_status = st]
                /\ \E v : st = [mgr.job_status EXCEPT ![j] = v]
  BY <1>1, <1>2, <1>5, <1>6, Zenon DEF inf_pop, DrainPop
<1>8. mgr'.next_job_id = mgr.next_job_id /\ mgr'.job_status = st
  BY <1>1, <1>7, Zenon DEF ManagerState
<1>9. \A k \in Jobs : k # j => st[k] = mgr.job_status[k]
  BY <1>1, <1>7, Zenon DEF ManagerState
<1>10. main' = [main EXCEPT !.pc = "js", !.frame = "callback", !.res = j]
  BY <1>2, <1>5, <1>6, Zenon DEF inf_pop, DrainPop
<1>11. main'.res = j /\ main'.pc = "js" /\ UNCHANGED refs
  BY <1>1, <1>10, Zenon DEF MainState, inf_pop, DrainPop
<1> DEFINE n == [wk[x] EXCEPT !.results = q]
<1>12. wk' = [wk EXCEPT ![x] = n]
  BY <1>2, <1>4, Zenon DEF inf_pop, DrainPop, SInv, StreamShape
<1>13. n \in StreamState /\ n.sub = wk[x].sub /\ n.results = q /\ n.job = wk[x].job
  BY <1>3, Zenon DEF StreamState
<1> HIDE DEF n
<1>14. /\ StreamOnce(n) /\ Followed(n) /\ j \in StreamHas(wk[x])
       /\ StreamHas(n) = IF r.is_done THEN StreamHas(wk[x]) \ {j} ELSE StreamHas(wk[x])
  BY <1>3, <1>4, <1>5, <1>6, <1>13, DrainedHas, Zenon
<1>15. /\ Streaming' = [Streaming EXCEPT ![x] = StreamHas(n)] /\ j \in Streaming[x]
       /\ Streaming[x] = StreamHas(wk[x])
  BY <1>12, <1>14, StreamingStep, Zenon
<1>16. \A w \in Workers : StreamOnce(wk'[w]) /\ Followed(wk'[w])
  BY <1>12, <1>14, StreamingStep, Zenon DEF SOInv
<1>17. Streaming \in Holding /\ Streaming' \in Holding
  <2>1. Streaming \in Holding
    BY StreamingType, Zenon
  <2>2. StreamHas(n) \subseteq Streaming[x]
    BY <1>14, <1>15, Zenon
  <2> QED
    BY <1>15, <2>1, <2>2, Zenon DEF Holding
<1>18. /\ InHand = NoJob /\ InHand' = IF r.is_done THEN j ELSE NoJob
       /\ Owned(Streaming, NoJob, mgr.next_job_id, mgr.job_status, refs)
  BY <1>1, <1>2, <1>5, <1>11, Zenon DEF InHand, SOInv
<1>19. /\ Owned(Streaming', InHand', mgr.next_job_id, mgr.job_status, refs)
       /\ j \in Held(Streaming', InHand')
  <2>1. CASE r.is_done
    <3>1. Streaming' = [Streaming EXCEPT ![x] = Streaming[x] \ {j}] /\ InHand' = j
      <4>1. StreamHas(n) = Streaming[x] \ {j} /\ InHand' = j
        BY <1>14, <1>15, <1>18, <2>1, Zenon
      <4> QED
        BY <1>15, <4>1, Zenon
    <3>2. Owned(Streaming', j, mgr.next_job_id, mgr.job_status, refs)
      <4>1. Streaming \in Holding /\ j \in Streaming[x]
        BY <1>15, <1>17, Zenon
      <4>2. Owned(Streaming, NoJob, mgr.next_job_id, mgr.job_status, refs)
        BY <1>18, Zenon
      <4>3. Owned([Streaming EXCEPT ![x] = Streaming[x] \ {j}], j, mgr.next_job_id, mgr.job_status, refs)
        BY <4>1, <4>2, OwnPop, Zenon
      <4> QED
        BY <3>1, <4>3, Zenon
    <3>3. j \in Held(Streaming', j)
      BY <1>15, <1>17, Zenon DEF Held, Holding
    <3> QED
      BY <3>1, <3>2, <3>3, Zenon
  <2>2. CASE ~ r.is_done
    <3>1. Streaming' = [Streaming EXCEPT ![x] = Streaming[x]] /\ InHand' = NoJob
      BY <1>14, <1>15, <1>18, <2>2, Zenon
    <3>2. Streaming' = Streaming
      BY <1>17, <3>1, Zenon DEF Holding
    <3>3. j \in Held(Streaming, NoJob)
      BY <1>15, <1>17, Indices, Zenon DEF Held, Holding
    <3> QED
      BY <1>18, <3>1, <3>2, <3>3, Zenon
  <2> QED
    BY <2>1, <2>2, Zenon
<1>20. mgr.next_job_id \in Nat
  BY <1>1, Zenon DEF ManagerState
<1>21. Owned(Streaming', InHand', mgr.next_job_id, st, refs)
  BY <1>9, <1>17, <1>19, <1>20, OwnSame, Zenon
<1> QED
  BY <1>8, <1>11, <1>16, <1>19, <1>21, Zenon DEF SOInv

\* on_result frees the callback of the last result.
LEMMA LastSOInv ==
  ASSUME SInv, SOInv, LastReturned \/ LastReturnedDrops
  PROVE  SOInv'
<1>1. /\ mgr \in ManagerState /\ main \in MainState /\ StreamMainOK /\ refs \in [Jobs -> Int]
      /\ main.pc = "free" /\ is_done /\ UNCHANGED is_done
  BY Zenon DEF SInv, StreamShape, LastReturned, LastReturnedDrops, FreeCallback,
     FreeCallbackAndManager, own
<1>2. PICK j \in Jobs : j = main.res
  BY <1>1, Zenon DEF StreamMainOK, PlaceOK, At, Closing, MainState
<1>3. refs' = [refs EXCEPT ![j] = refs[j] - 1] /\ UNCHANGED wk
  BY <1>1, <1>2, Zenon DEF LastReturned, LastReturnedDrops, FreeCallback, FreeCallbackAndManager, StopAll
<1>4. mgr'.next_job_id = mgr.next_job_id /\ mgr'.job_status = mgr.job_status
  BY <1>1, Zenon DEF LastReturned, LastReturnedDrops, FreeCallback, FreeCallbackAndManager, StopAll,
              ManagerState
<1>5. main'.res = NoJob /\ main'.pc # "post"
  <2>1. CASE FreeCallback
    BY <1>1, <2>1, Zenon DEF FreeCallback, MainState
  <2>2. CASE FreeCallbackAndManager
    BY <1>1, <2>2, Zenon DEF FreeCallbackAndManager, StopAll, MainState
  <2> QED
    BY <2>1, <2>2, Zenon DEF LastReturned, LastReturnedDrops
<1>6. InHand = j /\ InHand' = NoJob
  BY <1>1, <1>2, <1>5, Zenon DEF InHand
<1>7. Streaming' = Streaming /\ \A w \in Workers : StreamOnce(wk'[w]) /\ Followed(wk'[w])
  BY <1>3, Zenon DEF Streaming, SOInv
<1>8. Owned(Streaming, NoJob, mgr.next_job_id, mgr.job_status, refs')
  <2>1. Owned(Streaming, j, mgr.next_job_id, mgr.job_status, refs)
    BY <1>6, Zenon DEF SOInv
  <2> QED
    BY <1>1, <1>3, <2>1, StreamingType, OwnFree, Zenon
<1> QED
  BY <1>4, <1>5, <1>6, <1>7, <1>8, Zenon DEF SOInv

\* stop() frees the callback of each stream that the joined thread has left in
\* the two queues, once.
LEMMA JoinSOInv ==
  ASSUME SInv, SOInv, inf_join
  PROVE  refs' \in [Jobs -> Int] /\ SOInv'
<1>1. /\ mgr \in ManagerState /\ main \in MainState /\ StreamMainOK /\ refs \in [Jobs -> Int]
      /\ main.pc = "join" /\ UNCHANGED is_done
  BY Zenon DEF SInv, StreamShape, inf_join
<1>2. PICK x \in Workers : x = main.tgt
  BY <1>1, Zenon DEF MainState
<1>3. wk[x] \in StreamState /\ wk[x].job = NoJob /\ StreamOnce(wk[x]) /\ Followed(wk[x])
  BY <1>2, Zenon DEF SInv, StreamShape, inf_join, StreamWorkerOK, SOInv
<1>4. \A j \in Jobs : Freed(x, j) = IF j \in StreamHas(wk[x]) THEN 1 ELSE 0
  BY <1>3, FreedOnce, Zenon
<1>5. refs' = [j \in Jobs |-> refs[j] - Freed(x, j)]
  BY <1>2, Zenon DEF inf_join
<1>6. \A j \in Jobs : refs'[j] = IF j \in StreamHas(wk[x]) THEN refs[j] - 1 ELSE refs[j]
  <2>1. SUFFICES ASSUME NEW j \in Jobs
                 PROVE  refs'[j] = IF j \in StreamHas(wk[x]) THEN refs[j] - 1 ELSE refs[j]
    BY Zenon
  <2>2. PICK f : f = Freed(x, j)
    BY Zenon
  <2>3. refs'[j] = refs[j] - f /\ f = IF j \in StreamHas(wk[x]) THEN 1 ELSE 0
    BY <1>4, <1>5, <2>2, Zenon
  <2>4. refs[j] \in Int
    BY <1>1, Zenon
  <2> QED
    BY <2>3, <2>4
<1>7. refs' \in [Jobs -> Int]
  <2>1. refs' = [j \in Jobs |-> refs'[j]]
    BY <1>5, Zenon
  <2>2. \A j \in Jobs : refs'[j] \in Int
    BY <1>1, <1>6
  <2> QED
    BY <2>1, <2>2, Zenon
<1>8. /\ mgr'.next_job_id = mgr.next_job_id /\ mgr'.job_status = mgr.job_status
      /\ mgr'.opaque = mgr.opaque
  <2>1. PICK l : mgr' = [mgr EXCEPT !.life = l]
    BY Zenon DEF inf_join
  <2> QED
    BY <1>1, <2>1, Zenon DEF ManagerState
<1>9. main'.res = main.res /\ main'.pc # "post" /\ InHand' = InHand
  <2>1. PICK p \in {"stop"} \cup {main.ret} : p = IF x + 1 \notin Workers THEN main.ret ELSE "stop"
    BY Zenon
  <2>2. PICK t \in Workers : t = IF x + 1 \notin Workers THEN x ELSE x + 1
    BY Zenon
  <2>3. main' = [main EXCEPT !.pc = p, !.tgt = t]
    BY <1>1, <1>2, <2>1, <2>2, Zenon DEF inf_join
  <2>4. p # "post"
    BY <1>1, <2>1, Zenon DEF MainState
  <2>5. main'.res = main.res /\ main'.pc # "post"
    BY <1>1, <2>3, <2>4, Zenon DEF MainState
  <2> QED
    BY <1>1, <2>5, Zenon DEF InHand
<1>10. ~ mgr.opaque
  BY <1>1, Zenon DEF StreamMainOK, CloseOK, Closing
<1> DEFINE n == [wk[x] EXCEPT !.sub = <<>>, !.results = <<>>, !.handle = "closing"]
<1>11. wk' = [wk EXCEPT ![x] = n]
  BY <1>2, <1>3, Zenon DEF inf_join, SInv, StreamShape
<1>12. n.sub = <<>> /\ n.results = <<>> /\ n.job = NoJob
  BY <1>3, Zenon DEF StreamState
<1> HIDE DEF n
<1>13. DOMAIN n.sub = {} /\ DOMAIN n.results = {}
  BY <1>12
<1>14. StreamOnce(n) /\ Followed(n) /\ StreamHas(n) = {}
  BY <1>12, <1>13, Zenon DEF StreamOnce, Followed, StreamHas, Range, Last, LastOf
<1>15. Streaming' = [Streaming EXCEPT ![x] = {}] /\ Streaming[x] = StreamHas(wk[x])
  BY <1>11, <1>14, StreamingStep, Zenon
<1>16. \A w \in Workers : StreamOnce(wk'[w]) /\ Followed(wk'[w])
  BY <1>11, <1>14, StreamingStep, Zenon DEF SOInv
<1>17. \A j \in Jobs : refs'[j] = IF j \in Streaming[x] THEN refs[j] - 1 ELSE refs[j]
  BY <1>6, <1>15, Zenon
<1>18. Owned(Streaming', InHand, mgr.next_job_id, mgr.job_status, refs')
  <2>1. Streaming \in Holding /\ Owned(Streaming, InHand, mgr.next_job_id, mgr.job_status, refs)
    BY StreamingType, Zenon DEF SOInv
  <2>2. Owned([Streaming EXCEPT ![x] = {}], InHand, mgr.next_job_id, mgr.job_status, refs')
    BY <1>1, <1>17, <2>1, OwnDrain, Zenon
  <2> QED
    BY <1>15, <2>2, Zenon
<1> QED
  BY <1>7, <1>8, <1>9, <1>10, <1>16, <1>18, Zenon DEF SOInv

LEMMA InitStreams ==
  ASSUME InfInit
  PROVE  SInv /\ SOInv
<1>1. /\ mgr \in ManagerState /\ mgr.opaque /\ \A j \in Jobs : mgr.job_status[j] = "unknown"
      /\ refs \in [Jobs -> Int] /\ \A j \in Jobs : refs[j] = 0
      /\ models = "loaded" /\ is_done = FALSE
  BY DEF InfInit, Init, InitAt, ManagerState
<1>2. /\ main \in MainState /\ main.pc = "js" /\ main.ret = "js" /\ main.frame = "script"
      /\ main.cur = NoWorker /\ main.res = NoJob
  BY PoolSize DEF InfInit, Init, InitAt, MainState, Workers
<1>3. ASSUME NEW w \in Workers
      PROVE  /\ wk[w] \in StreamState /\ wk[w].sub = <<>> /\ wk[w].results = <<>>
             /\ wk[w].job = NoJob /\ wk[w].pc = "wait" /\ wk[w].handle = "open"
             /\ wk[w].in_flight = 0 /\ wk[w].ref = FALSE
  <2>1. PICK e \in Seq(Jobs), f \in Seq(TokenResult) : e = <<>> /\ f = <<>>
    <3>1. <<>> \in Seq(Jobs) /\ <<>> \in Seq(TokenResult)
      OBVIOUS
    <3> QED
      BY <3>1, Zenon
  <2>2. wk[w] = [sub |-> e, sem |-> 0, stopped |-> FALSE, results |-> f, pc |-> "wait", job |-> NoJob,
                 in_flight |-> 0, bell |-> FALSE, ref |-> FALSE, handle |-> "open"]
    BY <2>1, Zenon DEF InfInit, Init, InitAt, NewWorker
  <2>3. wk[w] \in StreamState
    <3>1. ASSUME NEW a \in Seq(Jobs), NEW b \in Seq(TokenResult)
          PROVE  [sub |-> a, sem |-> 0, stopped |-> FALSE, results |-> b, pc |-> "wait", job |-> NoJob,
                  in_flight |-> 0, bell |-> FALSE, ref |-> FALSE, handle |-> "open"] \in StreamState
      BY DEF StreamState
    <3> QED
      BY <2>2, <3>1, Zenon
  <2>4. /\ wk[w].sub = e /\ wk[w].results = f /\ wk[w].job = NoJob /\ wk[w].pc = "wait"
        /\ wk[w].handle = "open" /\ wk[w].in_flight = 0 /\ wk[w].ref = FALSE
    BY <2>2
  <2> QED
    BY <2>1, <2>3, <2>4, Zenon
<1>4. ASSUME NEW w \in Workers
      PROVE  /\ StreamOnce(wk[w]) /\ Followed(wk[w]) /\ StreamHas(wk[w]) = {}
             /\ Last(wk[w]) = {} /\ Len(wk[w].sub) = 0
  <2>1. DOMAIN <<>> = {} /\ Len(<<>>) = 0
    OBVIOUS
  <2>2. DOMAIN wk[w].sub = {} /\ DOMAIN wk[w].results = {} /\ Len(wk[w].sub) = 0
    BY <1>3, <2>1, Zenon
  <2> QED
    BY <1>3, <2>2, Zenon DEF StreamOnce, Followed, StreamHas, Range, Last, LastOf
<1>5. StreamShape
  BY <1>1, <1>2, <1>3, Zenon DEF StreamShape, InfInit, Init, InitAt
<1>6. StreamMainOK
  BY <1>1, <1>2, Zenon DEF StreamMainOK, PlaceOK, CloseOK, At, Closing
<1>7. ASSUME NEW w \in Workers PROVE StreamWorkerOK(w)
  <2>1. StreamShare(wk[w]) = 0
    <3>1. Cardinality(Last(wk[w])) = 0
      BY <1>4, FS_EmptySet, Zenon
    <3>2. Len(wk[w].sub) = 0 /\ ~ (wk[w].job # NoJob)
      BY <1>3, <1>4, Zenon
    <3>3. 0 + 0 + 0 = 0
      OBVIOUS
    <3> QED
      BY <3>1, <3>2, <3>3, Zenon DEF StreamShare
  <2>2. StreamCount(w)
    <3>1. wk[w].in_flight = 0 /\ ~ wk[w].ref
      BY <1>3, Zenon
    <3>2. LastShare(main, is_done, w) = 0 /\ PostShare(main, w) = 0
      BY <1>1, <1>2, Zenon DEF LastShare, PostShare
    <3>3. 0 + 0 - 0 = 0 /\ ~ (0 > 0)
      OBVIOUS
    <3> QED
      BY <2>1, <3>1, <3>2, <3>3, Zenon DEF StreamCount
  <2>3. ~ Stopped(w)
    BY <1>1, Zenon DEF Stopped
  <2> QED
    BY <1>3, <2>2, <2>3, Zenon DEF StreamWorkerOK
<1>8. \A w \in Workers : Streaming[w] = {}
  BY <1>4, Zenon DEF Streaming
<1>9. InHand = NoJob
  BY <1>1, Zenon DEF InHand
<1>10. Held(Streaming, NoJob) = {}
  BY <1>8, Indices, Zenon DEF Held
<1>11. Owned(Streaming, NoJob, mgr.next_job_id, mgr.job_status, refs)
  BY <1>1, <1>8, <1>10, Zenon DEF Owned
<1>12. SOInv
  BY <1>2, <1>4, <1>9, <1>11, Zenon DEF SOInv
<1> QED
  BY <1>5, <1>6, <1>7, <1>12, Zenon DEF SInv

\* js_close, called by the script, by the finalizer inside the last JS_FreeValue
\* of on_result, or when the context is freed.
LEMMA InfDropStep ==
  ASSUME SInv, inf_close \/ LastReturnedDrops \/ (TearDown /\ UNCHANGED own)
  PROVE  SInv'
<1>1. main \in MainState /\ StreamMainOK /\ refs \in [Jobs -> Int] /\ UNCHANGED own
  BY Zenon DEF SInv, StreamShape, inf_close, LastReturnedDrops
<1>2. CASE inf_close
  <2>1. /\ StopAll("js", TRUE, main.res) /\ UNCHANGED refs /\ main.pc = "js"
        /\ main.frame = "script" \/ DropInCallback
    BY <1>2, Zenon DEF inf_close, DropManager
  <2>2. refs' \in [Jobs -> Int]
    BY <1>1, <2>1, Zenon
  <2> QED
    BY <1>1, <2>1, <2>2, InfCloseStep, Zenon
<1>3. CASE LastReturnedDrops
  <2>1. StopAll("account", TRUE, NoJob) /\ is_done /\ main.pc = "free"
    BY <1>3, Zenon DEF LastReturnedDrops, FreeCallbackAndManager
  <2>2. refs' \in [Jobs -> Int]
    <3>1. PICK j \in Jobs : j = main.res
      BY <1>1, <2>1, Zenon DEF StreamMainOK, PlaceOK, At, Closing, MainState
    <3>2. refs' = [refs EXCEPT ![j] = refs[j] - 1]
      BY <1>1, <1>3, <3>1, Zenon DEF LastReturnedDrops, FreeCallbackAndManager
    <3> QED
      BY <1>1, <3>2
  <2>3. "account" # "js"
    BY Zenon
  <2> QED
    BY <1>1, <2>1, <2>2, <2>3, InfCloseStep, Zenon
<1>4. CASE TearDown
  <2>1. CASE StopAll("end", TRUE, main.res)
    <3>1. UNCHANGED refs /\ main.pc = "exit" /\ "end" # "js"
      BY <1>4, Zenon DEF TearDown
    <3>2. refs' \in [Jobs -> Int]
      BY <1>1, <3>1, Zenon
    <3> QED
      BY <1>1, <2>1, <3>1, <3>2, InfCloseStep, Zenon
  <2>2. CASE ~ StopAll("end", TRUE, main.res)
    BY <1>1, <1>4, <2>2, InfLoopStep, Zenon DEF TearDown
  <2> QED
    BY <2>1, <2>2, Zenon
<1> QED
  BY <1>2, <1>3, <1>4, Zenon

LEMMA StutterStreams ==
  ASSUME SInv, SOInv, UNCHANGED infVars
  PROVE  SInv' /\ SOInv'
<1>1. UNCHANGED <<mgr, main, wk, refs, is_done, models>>
  BY Zenon DEF infVars, vars, own
<1>2. Streaming' = Streaming /\ InHand' = InHand
  BY <1>1, Zenon DEF Streaming, InHand
<1>3. SOInv'
  BY <1>1, <1>2, Zenon DEF SOInv
<1>4. StreamShape' /\ StreamMainOK'
  BY <1>1, Zenon DEF SInv, StreamShape, StreamMainOK, PlaceOK, CloseOK, At, Closing
<1>5. ASSUME NEW w \in Workers PROVE StreamWorkerOK(w)'
  <2>1. StreamWorkerOK(w)
    BY Zenon DEF SInv
  <2> QED
    BY <1>1, <2>1, Zenon DEF StreamWorkerOK, StreamCount, StreamShare, LastShare, PostShare, Silent, Stopped,
                      Closing, Last, LastOf
<1> QED
  BY <1>3, <1>4, <1>5, Zenon DEF SInv

LEMMA NextStreams ==
  ASSUME SInv, SOInv, [InfNext]_infVars
  PROVE  SInv' /\ SOInv'
<1>1. CASE do_inference
  BY <1>1, InfFullStep, InfDispatchStep, DispatchSOInv, Zenon DEF do_inference
<1>2. CASE inf_enqueue
  BY <1>2, InfEnqueueStep, EnqueueSOInv, Zenon
<1>3. CASE inf_pop
  BY <1>3, InfDrainStep, DrainSOInv, Zenon
<1>4. CASE inf_join
  BY <1>4, InfJoinStep, JoinSOInv, Zenon
<1>5. CASE TokenReturned \/ LastReturned
  BY <1>5, InfReturned, TokenSOInv, LastSOInv, Zenon
<1>6. CASE LastReturnedDrops
  BY <1>6, InfDropStep, LastSOInv, Zenon
<1>7. CASE inf_close \/ (TearDown /\ UNCHANGED own)
  <2>1. SInv'
    BY <1>7, InfDropStep, Zenon
  <2>2. SOInv'
    BY <1>7, QuietSOInv, Zenon DEF inf_close, own
  <2> QED
    BY <2>1, <2>2, Zenon
<1>8. CASE inf_stop
  <2>1. SInv'
    BY <1>8, InfSignalStep, Zenon DEF inf_stop
  <2>2. SOInv'
    BY <1>8, QuietSOInv, Zenon DEF inf_stop, own
  <2> QED
    BY <2>1, <2>2, Zenon
<1>9. CASE inf_empty \/ inf_account
  <2>1. SInv'
    BY <1>9, InfDrainEmpty, InfAccountStep, Zenon DEF inf_empty
  <2>2. SOInv'
    BY <1>9, QuietSOInv, Zenon DEF inf_empty, inf_account, own
  <2> QED
    BY <2>1, <2>2, Zenon
<1>10. CASE (JsReturn \/ LoopExit \/ OtherEvent \/ Interrupt) /\ UNCHANGED own
  <2>1. SInv'
    BY <1>10, InfJsReturn, InfLoopStep, Zenon
  <2>2. SOInv'
    BY <1>10, QuietSOInv, Zenon DEF own
  <2> QED
    BY <2>1, <2>2, Zenon
<1>11. ASSUME NEW w \in Workers, inf_ring(w) \/ inf_delete(w) PROVE SInv' /\ SOInv'
  <2>1. SInv'
    BY <1>11, InfRingStep, InfDeleteStep, Zenon
  <2>2. SOInv'
    BY <1>11, QuietSOInv, Zenon DEF inf_ring, inf_delete, own
  <2> QED
    BY <2>1, <2>2, Zenon
<1>12. ASSUME NEW w \in Workers, InfThread(w) PROVE SInv' /\ SOInv'
  BY <1>12, InfThreadTurn, ThreadSInv, ThreadSOInv, Zenon
<1>13. CASE (Finished /\ UNCHANGED own) \/ UNCHANGED infVars
  <2>1. UNCHANGED infVars
    BY <1>13, Zenon DEF Finished, infVars
  <2> QED
    BY <2>1, StutterStreams, Zenon
<1> QED
  BY <1>1, <1>2, <1>3, <1>4, <1>5, <1>6, <1>7, <1>8, <1>9, <1>10, <1>11, <1>12, <1>13, Zenon
     DEF InfNext, InfMainStep, inf_loop, inf_event

-----------------------------------------------------------------------------
(* What is proved of the inference engine.                                 *)

\* The invariant of the inference engine: the counts of open streams, the order in
\* which js_close stops and frees, and the one owner of each stream's callback.
THEOREM StreamInvariant == InfSpec => [](SInv /\ SOInv)
<1>1. InfInit => SInv /\ SOInv
  BY InitStreams, Zenon
<1>2. SInv /\ SOInv /\ [InfNext]_infVars => (SInv /\ SOInv)'
  BY NextStreams, Zenon
<1> QED
  BY <1>1, <1>2, PTL DEF InfSpec

\* However many tokens a stream has, in_flight_ counts streams, and the doorbell is
\* referenced exactly while one is open (enqueue, on_result_ready).
THEOREM StreamsAlwaysCounted == InfSpec => []StreamsCounted
<1>1. ASSUME SInv PROVE StreamsCounted
  <2>1. ASSUME NEW w \in Workers
        PROVE  OpenStreams(w) =
                 StreamShare(wk[w]) + LastShare(main, is_done, w) - PostShare(main, w)
    BY Zenon DEF OpenStreams, StreamShare, LastShare, PostShare, Last, LastOf
  <2>2. \A w \in Workers : StreamCount(w)
    BY <1>1, Zenon DEF SInv, StreamWorkerOK
  <2> QED
    BY <2>1, <2>2, Zenon DEF StreamCount, StreamsCounted
<1> QED
  BY <1>1, StreamInvariant, PTL

\* js_close frees the models only when every thread that could use one has been
\* joined, from wherever it is called (js_close, the finalizer, the exit).
THEOREM ModelsFreedLast == InfSpec => []ModelsOutliveUse
<1>1. ASSUME SInv PROVE ModelsOutliveUse
  <2>1. SUFFICES ASSUME models = "freed", NEW w \in Workers PROVE wk[w].pc = "exited"
    BY Zenon DEF ModelsOutliveUse
  <2>2. Stopped(w)
    BY <1>1, <2>1, Zenon DEF SInv, StreamMainOK, Stopped
  <2> QED
    BY <1>1, <2>2, Zenon DEF SInv, StreamWorkerOK, Silent
<1> QED
  BY <1>1, StreamInvariant, PTL

\* A held job is in one of the places of StreamHolders, any other job in none.
LEMMA OneStreamHolder ==
  ASSUME SInv, SOInv, NEW j \in Jobs
  PROVE  IF j \in Held(Streaming, InHand) THEN \E h : StreamHolders(j) = {h}
         ELSE StreamHolders(j) = {}
<1> DEFINE S(v) == j \in Range(wk[v].sub)
           T(v) == wk[v].job = j
           R(v) == \E r \in Range(wk[v].results) : r.job = j /\ r.is_done
<1>1. ASSUME NEW v \in Workers PROVE j \in Streaming[v] <=> S(v) \/ T(v) \/ R(v)
  <2>1. j # NoJob /\ Streaming[v] = StreamHas(wk[v])
    BY Indices, Zenon DEF Streaming
  <2>2. R(v) <=> \E i \in Last(wk[v]) : wk[v].results[i].job = j
    BY Zenon DEF Last, LastOf, Range
  <2> QED
    BY <2>1, <2>2, Zenon DEF StreamHas
<1>2. ASSUME NEW v \in Workers
      PROVE  ~ (S(v) /\ T(v)) /\ ~ (S(v) /\ R(v)) /\ ~ (T(v) /\ R(v))
  <2>1. /\ \A i \in DOMAIN wk[v].sub, k \in Last(wk[v]) : wk[v].sub[i] # wk[v].results[k].job
        /\ \A i \in DOMAIN wk[v].sub : wk[v].sub[i] # wk[v].job
        /\ \A k \in Last(wk[v]) : wk[v].results[k].job # wk[v].job
    BY Zenon DEF SOInv, StreamOnce
  <2> QED
    BY <2>1, Zenon DEF Range, Last, LastOf
<1>3. main.res = j /\ is_done <=> InHand = j
  BY Indices, Zenon DEF InHand
<1>4. StreamHolders(j) = {<<"sub", w>> : w \in {v \in Workers : S(v)}} \cup
                         {<<"thread", w>> : w \in {v \in Workers : T(v)}} \cup
                         {<<"last", w>> : w \in {v \in Workers : R(v)}} \cup
                         (IF InHand = j THEN {<<"main", main.cur>>} ELSE {})
  <2>1. CASE InHand = j
    BY <1>3, <2>1, Zenon DEF StreamHolders
  <2>2. CASE InHand # j
    BY <1>3, <2>2, Zenon DEF StreamHolders
  <2> QED
    BY <2>1, <2>2, Zenon
<1>5. /\ \A v, w \in Workers : v # w => Streaming[v] \cap Streaming[w] = {}
      /\ \A w \in Workers : InHand \notin Streaming[w]
  BY Zenon DEF SOInv, Owned
<1> HIDE DEF S, T, R
<1>6. CASE j \notin Held(Streaming, InHand)
  <2>1. InHand # j /\ \A v \in Workers : ~ S(v) /\ ~ T(v) /\ ~ R(v)
    BY <1>1, <1>6, Zenon DEF Held
  <2> QED
    BY <1>4, <1>6, <2>1, Zenon
<1>7. CASE j = InHand
  <2>1. \A v \in Workers : ~ S(v) /\ ~ T(v) /\ ~ R(v)
    BY <1>1, <1>5, <1>7, Zenon
  <2>2. StreamHolders(j) = {<<"main", main.cur>>}
    BY <1>4, <1>7, <2>1, Zenon
  <2>3. j \in Held(Streaming, InHand)
    BY <1>7, Zenon DEF Held
  <2> QED
    BY <2>2, <2>3, Zenon
<1>8. ASSUME NEW w \in Workers, j \in Streaming[w] PROVE \E h : StreamHolders(j) = {h}
  <2>1. j # InHand
    BY <1>5, <1>8, Zenon
  <2>2. \A v \in Workers : v # w => ~ S(v) /\ ~ T(v) /\ ~ R(v)
    <3>1. \A v \in Workers : v # w => j \notin Streaming[v]
      BY <1>5, <1>8, Zenon
    <3> QED
      BY <1>1, <3>1, Zenon
  <2>3. CASE S(w)
    <3>1. StreamHolders(j) = {<<"sub", w>>}
      BY <1>2, <1>4, <2>1, <2>2, <2>3, Zenon
    <3> QED
      BY <3>1, Zenon
  <2>4. CASE T(w)
    <3>1. StreamHolders(j) = {<<"thread", w>>}
      BY <1>2, <1>4, <2>1, <2>2, <2>4, Zenon
    <3> QED
      BY <3>1, Zenon
  <2>5. CASE R(w)
    <3>1. StreamHolders(j) = {<<"last", w>>}
      BY <1>2, <1>4, <2>1, <2>2, <2>5, Zenon
    <3> QED
      BY <3>1, Zenon
  <2> QED
    BY <1>1, <1>8, <2>3, <2>4, <2>5, Zenon
<1>9. j \in Held(Streaming, InHand) => \E h : StreamHolders(j) = {h}
  BY <1>7, <1>8, Zenon DEF Held
<1> QED
  BY <1>6, <1>9, Zenon

\* The first half of StreamOwnedOnce: the reference to a callback is held by one
\* of the places, or by none once it is freed.
StreamHeldOnce ==
  \A j \in Jobs : js_get_progress(j) # "unknown" =>
    refs[j] = Cardinality(StreamHolders(j)) /\ refs[j] \in {0, 1}

LEMMA HeldOnce ==
  ASSUME SInv, SOInv
  PROVE  StreamHeldOnce
<1>1. SUFFICES ASSUME NEW j \in Jobs, js_get_progress(j) # "unknown"
               PROVE  refs[j] = Cardinality(StreamHolders(j)) /\ refs[j] \in {0, 1}
  BY Zenon DEF StreamHeldOnce
<1>2. CASE j \in Held(Streaming, InHand)
  <2>1. PICK h : StreamHolders(j) = {h}
    BY <1>2, OneStreamHolder, Zenon
  <2>2. Cardinality(StreamHolders(j)) = 1
    BY <2>1, FS_Singleton, Zenon
  <2>3. refs[j] = 1
    BY <1>2, Zenon DEF SOInv, Owned
  <2> QED
    BY <2>2, <2>3, Zenon
<1>3. CASE j \notin Held(Streaming, InHand)
  <2>1. Cardinality(StreamHolders(j)) = 0
    BY <1>3, OneStreamHolder, FS_EmptySet, Zenon
  <2>2. refs[j] = 0
    BY <1>1, <1>3, Zenon DEF SOInv, Owned, js_get_progress
  <2> QED
    BY <2>1, <2>2, Zenon
<1> QED
  BY <1>2, <1>3, Zenon

\* The callback that a stream's results share is freed exactly once, by on_result
\* for the last of them or by stop(), also when js_close runs inside a callback.
THEOREM StreamFreedOnce == InfSpec => []StreamHeldOnce
<1>1. SInv /\ SOInv => StreamHeldOnce
  BY HeldOnce, Zenon
<1> QED
  BY <1>1, StreamInvariant, PTL

\* As long as no callback closes the engine that called it, on_result only calls a
\* callback that is still held, in the middle of a stream too.
THEOREM StreamsOwnedOnce ==
  ASSUME ~ DropInCallback
  PROVE  InfSpec => []StreamOwnedOnce
<1>1. ASSUME SInv, SOInv PROVE StreamOwnedOnce
  <2>1. StreamHeldOnce
    BY <1>1, HeldOnce, Zenon
  <2>2. ASSUME NEW j \in Jobs, main.res = j PROVE refs[j] = 1
    <3>1. main.res # NoJob
      BY <2>2, Indices, Zenon
    <3>2. mgr.opaque
      BY <1>1, <3>1, Zenon DEF SInv, StreamMainOK
    <3>3. j \in Held(Streaming, InHand)
      BY <1>1, <2>2, <3>1, <3>2, Zenon DEF SOInv
    <3> QED
      BY <1>1, <3>3, Zenon DEF SOInv, Owned
  <2> QED
    BY <2>1, <2>2, Zenon DEF StreamOwnedOnce, StreamHeldOnce
<1> QED
  BY <1>1, StreamInvariant, PTL

=============================================================================
