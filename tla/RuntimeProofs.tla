---------------------------- MODULE RuntimeProofs ---------------------------
(***************************************************************************)
(* Proofs about Runtime, for every number of timers, Servers, routes and   *)
(* calls.  The invariant has a part for each of the three things that      *)
(* share the loop: the timers, the handlers of the routes, and the signal. *)
(***************************************************************************)
EXTENDS Runtime, FiniteSetTheorems, TLAPS

TimerState ==
  [kind : {"none", "timeout", "interval"},
   life : {"none", "active", "stopped", "closing", "freed"}, due : Int, repeat : Int,
   id : Ids \cup {Null}, refs : Int, cleared : BOOLEAN]

\* The loop: who runs, and that a timer that runs has been made.
LoopInv ==
  /\ pc \in {"js", "loop", "exit", "end", "aborted"}
  /\ frame \in [who : {"script", "nobody", "timer", "handler"}, which : Nat]
  /\ made \in Nat /\ made <= MaxTimers
  /\ frame.who = "timer" => frame.which \in 1 .. made

\* A timer that has been made is held until the teardown, and an interval's life
\* follows from whether it has been cleared.
Held(h) == timer[h].refs = IF h <= made /\ pc # "end" THEN 1 ELSE 0
Unmade(h) == h > made => timer[h].kind = "none" /\ timer[h].life = "none"
Interval(h) ==
  timer[h].kind = "interval" =>
    /\ timer[h].id \in Ids /\ registered_interval_cb[timer[h].id] = h
    /\ IF timer[h].cleared THEN timer[h].life \in {"closing", "freed"}
                           ELSE timer[h].life \in {"active", "stopped"}

TimersShape ==
  /\ timer \in [Handles -> TimerState]
  /\ registered_interval_cb \in [Ids -> 0 .. made]
  /\ \A h \in Handles : timer[h].kind = "interval" =>
       timer[h].id \in Ids /\ registered_interval_cb[timer[h].id] \in Handles
  /\ \A h \in Handles : timer[h].cleared => timer[h].kind = "interval"

TimersInv ==
  /\ TimersShape
  /\ \A h \in Handles : Held(h) /\ Unmade(h)
  /\ ~ Collided => (\A h \in Handles : Interval(h)) /\ "closed twice" \notin events

\* A callback is held by the handler that has one until the teardown, and a
\* route names a handler that has been registered.
HandlersInv ==
  /\ handler \in [Handlers -> [kind : {"none", "get", "ws", "static"}, refs : Int]]
  /\ registered \in Nat /\ registered <= MaxRoutes
  /\ routes_ \in [Uris -> 0 .. registered] /\ ws_routes_ \in [Uris -> 0 .. registered]
  /\ \A k \in Handlers :
       handler[k].refs = IF handler[k].kind \in {"get", "ws"} /\ pc # "end" THEN 1 ELSE 0

SigState ==
  [exists : BOOLEAN, refcount : Int, active : BOOLEAN,
   handle : {"none", "open", "closing", "closed"}]

SignalShape ==
  /\ server \in [ServerIds -> [life : {"none", "alive", "deleted"},
                               stream : {"none", "listening", "failed"}]]
  /\ \A s \in ServerIds : server[s].life = "none" => server[s].stream = "none"
  /\ sig \in SigState /\ stop_flag \in BOOLEAN

\* Unless it has been started again, the handle is open while it is active, and
\* inactive once the loop is to end.
Started ==
  "restart" \notin events =>
    /\ sig.active => sig.handle = "open" /\ ~ stop_flag /\ pc # "exit"
    /\ "late" \notin events

\* One reference for each Server that listens.
Counted ==
  ("stray" \notin events /\ pc # "end") =>
    /\ sig.refcount = Cardinality(Users)
    /\ ~ sig.exists => sig.refcount = 0
    /\ ~ stop_flag => (sig.active <=> Users # {})

SignalInv == SignalShape /\ Started /\ Counted

IInv == LoopInv /\ TimersInv /\ HandlersInv /\ SignalInv

-----------------------------------------------------------------------------
(* Timers.                                                                 *)

\* What a step of the timers does to the loop.
TimersOnly == pc \in {"js", "loop"} /\ pc' \in {"js", "loop"} /\ UNCHANGED <<stop_flag, servers>>

LEMMA NullIsNoHandle == Null \notin Handles /\ Handles \subseteq Nat
BY TimerBound DEF Null, Handles

LEMMA DelaysAreInts == \A d \in Delays : d \in Int
BY DelaysInt32

\* Kinds and identifiers stay, so intervals that collide do not stop doing so.
LEMMA CollidedStays ==
  ASSUME \A h \in Handles : timer[h].kind = "interval" =>
           timer'[h].kind = "interval" /\ timer'[h].id = timer[h].id
  PROVE  Collided => Collided'
BY DEF Collided

\* One timer changes: its life and its time, in a way its kind allows.
LEMMA LifeStep ==
  ASSUME LoopInv, TimersInv, TimersOnly, UNCHANGED <<made, registered_interval_cb, events>>,
         NEW h \in Handles, NEW n \in TimerState, timer' = [timer EXCEPT ![h] = n],
         n.kind = timer[h].kind, n.id = timer[h].id, n.refs = timer[h].refs,
         n.cleared = timer[h].cleared, h <= made,
         (Interval(h) /\ n.kind = "interval") =>
           n.life \in IF n.cleared THEN {"closing", "freed"} ELSE {"active", "stopped"}
  PROVE  TimersInv'
<1>1. /\ timer' \in [Handles -> TimerState] /\ timer'[h] = n
      /\ \A g \in Handles : g # h => timer'[g] = timer[g]
  BY Zenon DEF TimersInv, TimersShape
<1>2. TimersShape'
  <2>1. \A g \in Handles : /\ timer'[g].kind = timer[g].kind /\ timer'[g].id = timer[g].id
                          /\ timer'[g].cleared = timer[g].cleared
    <3>1. ASSUME NEW g \in Handles, g = h
          PROVE  timer'[g].kind = timer[g].kind /\ timer'[g].id = timer[g].id
                 /\ timer'[g].cleared = timer[g].cleared
      BY <1>1, <3>1, Zenon
    <3>2. ASSUME NEW g \in Handles, g # h
          PROVE  timer'[g].kind = timer[g].kind /\ timer'[g].id = timer[g].id
                 /\ timer'[g].cleared = timer[g].cleared
      BY <1>1, <3>2, Zenon
    <3> QED
      BY <3>1, <3>2, Zenon
  <2>2. \A g \in Handles : timer'[g].cleared => timer'[g].kind = "interval"
    BY <2>1, Zenon DEF TimersInv, TimersShape
  <2>3. \A g \in Handles : timer'[g].kind = "interval" =>
          timer'[g].id \in Ids /\ registered_interval_cb'[timer'[g].id] \in Handles
    BY <2>1, ZenonT(40) DEF TimersInv, TimersShape
  <2>4. registered_interval_cb' \in [Ids -> 0 .. made']
    BY Zenon DEF TimersInv, TimersShape
  <2> QED
    BY <1>1, <2>2, <2>3, <2>4 DEF TimersShape
<1>3. ASSUME NEW g \in Handles PROVE Held(g)' /\ Unmade(g)'
  <2>1. Held(g) /\ Unmade(g) /\ pc # "end" /\ pc' # "end"
    BY Zenon DEF TimersInv, TimersOnly
  <2>2. CASE g = h
    BY <1>1, <2>1, <2>2, NullIsNoHandle DEF Held, Unmade, LoopInv
  <2>3. CASE g # h
    BY <1>1, <2>1, <2>3 DEF Held, Unmade
  <2> QED
    BY <2>2, <2>3
<1>4. Collided => Collided'
  BY <1>1, CollidedStays
<1>5. ASSUME ~ Collided', NEW g \in Handles PROVE Interval(g)'
  <2>1. Interval(g)
    BY <1>4, <1>5, Zenon DEF TimersInv
  <2>2. CASE g = h
    BY <1>1, <2>1, <2>2 DEF Interval
  <2>3. CASE g # h
    BY <1>1, <2>1, <2>3 DEF Interval
  <2> QED
    BY <2>2, <2>3
<1>6. ~ Collided' => "closed twice" \notin events'
  BY <1>4, Zenon DEF TimersInv
<1> QED
  BY <1>2, <1>3, <1>5, <1>6, Zenon DEF TimersInv

\* uv__run_timers
LEMMA FireStep ==
  ASSUME LoopInv, TimersInv, NEW h \in Handles, Fire(h), UNCHANGED servers
  PROVE  LoopInv' /\ TimersInv' /\ TimersOnly /\ UNCHANGED events
<1>1. TimersOnly /\ UNCHANGED <<made, registered_interval_cb, events>>
  BY DEF Fire, Call, TimersOnly
<1>2. timer[h] \in TimerState /\ timer[h].life = "active" /\ Unmade(h)
  BY Zenon DEF TimersInv, TimersShape, Fire, Due
<1>3. h <= made
  BY <1>2, NullIsNoHandle DEF Unmade, LoopInv
<1> DEFINE l == IF timer[h].repeat # 0 THEN timer[h].life ELSE "stopped"
           n == [timer[h] EXCEPT !.life = l, !.due = timer[h].repeat]
<1>4. timer' = [timer EXCEPT ![h] = n]
  BY <1>2, Zenon DEF Fire, TimersInv, TimersShape
<1>5. n \in TimerState /\ n.life \in {"active", "stopped"} /\ n.kind = timer[h].kind
      /\ n.id = timer[h].id /\ n.refs = timer[h].refs /\ n.cleared = timer[h].cleared
  BY <1>2, Zenon DEF TimerState
<1> HIDE DEF n
<1>6. (Interval(h) /\ n.kind = "interval") =>
        n.life \in IF n.cleared THEN {"closing", "freed"} ELSE {"active", "stopped"}
  BY <1>2, <1>5 DEF Interval
<1>7. TimersInv'
  BY <1>1, <1>3, <1>4, <1>5, <1>6, LifeStep, Zenon
<1>8. LoopInv'
  BY <1>1, <1>3, NullIsNoHandle DEF LoopInv, Fire, Call, Frame, Handles
<1> QED
  BY <1>1, <1>7, <1>8

LEMMA LibuvCbStep ==
  ASSUME LoopInv, TimersInv, timer_libuv_cb, UNCHANGED servers
  PROVE  LoopInv' /\ TimersInv' /\ TimersOnly /\ UNCHANGED events
<1>1. TimersOnly /\ UNCHANGED <<made, registered_interval_cb, events>>
  BY DEF timer_libuv_cb, Return, TimersOnly
<1>2. PICK h \in Handles : h = frame.which /\ h <= made
  <2>1. frame.who = "timer"
    BY DEF timer_libuv_cb
  <2>2. frame.which \in 1 .. made /\ made \in Nat /\ made <= MaxTimers
    BY <2>1 DEF LoopInv
  <2> QED
    BY <2>2, TimerBound DEF Handles
<1>3. timer[h] \in TimerState
  BY Zenon DEF TimersInv, TimersShape
<1> DEFINE l == IF timer[h].kind = "timeout" THEN "closing" ELSE timer[h].life
           n == [timer[h] EXCEPT !.life = l]
<1>4. timer' = [timer EXCEPT ![h] = n]
  BY <1>2, Zenon DEF timer_libuv_cb, TimersInv, TimersShape
<1>5. n \in TimerState /\ n.life = l /\ n.kind = timer[h].kind
      /\ n.id = timer[h].id /\ n.refs = timer[h].refs /\ n.cleared = timer[h].cleared
  BY <1>3 DEF TimerState
<1> HIDE DEF n
<1>6. (Interval(h) /\ n.kind = "interval") =>
        n.life \in IF n.cleared THEN {"closing", "freed"} ELSE {"active", "stopped"}
  BY <1>5 DEF Interval
<1>7. TimersInv'
  BY <1>1, <1>2, <1>4, <1>5, <1>6, LifeStep, Zenon
<1>8. LoopInv'
  BY <1>1 DEF LoopInv, timer_libuv_cb, Return, Nobody, Frame
<1> QED
  BY <1>1, <1>7, <1>8

LEMMA OnCloseStep ==
  ASSUME LoopInv, TimersInv, NEW h \in Handles, on_close(h), UNCHANGED servers
  PROVE  LoopInv' /\ TimersInv' /\ TimersOnly /\ UNCHANGED events
<1>1. TimersOnly /\ UNCHANGED <<pc, frame, made, registered_interval_cb, events>>
  BY DEF on_close, InLoop, TimersOnly
<1>2. timer[h] \in TimerState /\ timer[h].life = "closing" /\ Unmade(h)
  BY Zenon DEF TimersInv, TimersShape, on_close
<1>3. h <= made
  BY <1>2, NullIsNoHandle DEF Unmade, LoopInv
<1> DEFINE n == [timer[h] EXCEPT !.life = "freed"]
<1>4. timer' = [timer EXCEPT ![h] = n]
  BY DEF on_close
<1>5. n \in TimerState /\ n.life = "freed" /\ n.kind = timer[h].kind
      /\ n.id = timer[h].id /\ n.refs = timer[h].refs /\ n.cleared = timer[h].cleared
  BY <1>2 DEF TimerState
<1> HIDE DEF n
<1>6. (Interval(h) /\ n.kind = "interval") =>
        n.life \in IF n.cleared THEN {"closing", "freed"} ELSE {"active", "stopped"}
  BY <1>2, <1>5 DEF Interval
<1>7. TimersInv'
  BY <1>1, <1>3, <1>4, <1>5, <1>6, LifeStep, Zenon
<1>8. LoopInv'
  BY <1>1 DEF LoopInv
<1> QED
  BY <1>1, <1>7, <1>8

\* A millisecond passes for every timer that counts.
LEMMA TickStep ==
  ASSUME LoopInv, TimersInv, Tick, UNCHANGED servers
  PROVE  LoopInv' /\ TimersInv' /\ TimersOnly /\ UNCHANGED events
<1>1. TimersOnly /\ UNCHANGED <<pc, frame, made, registered_interval_cb, events>>
  BY DEF Tick, InLoop, TimersOnly
<1>2. ASSUME NEW h \in Handles
      PROVE  /\ timer'[h] \in TimerState /\ timer'[h].kind = timer[h].kind
             /\ timer'[h].life = timer[h].life /\ timer'[h].id = timer[h].id
             /\ timer'[h].refs = timer[h].refs /\ timer'[h].cleared = timer[h].cleared
  <2>1. timer[h] \in TimerState
    BY Zenon DEF TimersInv, TimersShape
  <2>2. timer'[h] = IF Counts(h) THEN [timer[h] EXCEPT !.due = timer[h].due - 1] ELSE timer[h]
    BY DEF Tick
  <2> QED
    BY <2>1, <2>2 DEF TimerState
<1>3. timer' \in [Handles -> TimerState]
  <2>1. timer' = [h \in Handles |-> timer'[h]]
    BY DEF Tick
  <2> QED
    BY <1>2, <2>1
<1>4. TimersShape'
  BY <1>1, <1>2, <1>3, Zenon DEF TimersInv, TimersShape
<1>5. \A h \in Handles : Held(h)' /\ Unmade(h)'
  BY <1>1, <1>2, Zenon DEF TimersInv, Held, Unmade
<1>6. Collided => Collided'
  BY <1>2, CollidedStays
<1>7. ~ Collided' => \A h \in Handles : Interval(h)'
  BY <1>1, <1>2, <1>6, Zenon DEF TimersInv, Interval
<1>8. TimersInv'
  BY <1>1, <1>4, <1>5, <1>6, <1>7, Zenon DEF TimersInv
<1>9. LoopInv'
  BY <1>1 DEF LoopInv
<1> QED
  BY <1>1, <1>8, <1>9

\* A timer is made, in the next handle.
LEMMA NewTimerStep ==
  ASSUME LoopInv, TimersInv, NEW kind \in {"timeout", "interval"}, NEW due \in Int,
         NEW repeat \in Int, NEW id \in Ids \cup {Null}, NewTimer(kind, due, repeat, id),
         IF kind = "timeout" THEN UNCHANGED registered_interval_cb
         ELSE id \in Ids /\ registered_interval_cb' = [registered_interval_cb EXCEPT ![id] = made + 1],
         UNCHANGED servers
  PROVE  LoopInv' /\ TimersInv' /\ TimersOnly /\ UNCHANGED events
<1>1. /\ TimersOnly /\ UNCHANGED <<pc, frame, events>> /\ made' = made + 1 /\ made < MaxTimers
      /\ made \in Nat
  BY DEF NewTimer, ApiCall, TimersOnly, LoopInv
<1>2. PICK h \in Handles : h = made + 1
  BY <1>1, TimerBound DEF Handles
<1> DEFINE n == Timer(kind, "active", due, repeat, id, 1)
<1>3. n \in TimerState /\ n.kind = kind /\ n.life = "active" /\ n.id = id /\ n.refs = 1
      /\ n.cleared = FALSE
  BY DEF Timer, TimerState
<1>4. timer' = [timer EXCEPT ![h] = n]
  BY <1>2 DEF NewTimer
<1> HIDE DEF n
<1>5. /\ timer' \in [Handles -> TimerState] /\ timer'[h] = n
      /\ \A g \in Handles : g # h => timer'[g] = timer[g]
  BY <1>3, <1>4, Zenon DEF TimersInv, TimersShape
<1>6. h \in 0 .. made' /\ 0 .. made \subseteq 0 .. made' /\ ~ (h <= made)
  BY <1>1, <1>2
<1>7. registered_interval_cb' \in [Ids -> 0 .. made']
  <2>1. registered_interval_cb \in [Ids -> 0 .. made]
    BY Zenon DEF TimersInv, TimersShape
  <2> QED
    BY <1>2, <1>6, <2>1
<1>8. timer[h].kind = "none" /\ timer[h].life = "none"
  <2>1. Unmade(h)
    BY Zenon DEF TimersInv
  <2>2. h > made
    BY <1>1, <1>2
  <2> QED
    BY <2>1, <2>2 DEF Unmade
<1>9. ASSUME NEW g \in Handles, timer'[g].kind = "interval"
      PROVE  timer'[g].id \in Ids /\ registered_interval_cb'[timer'[g].id] \in Handles
  <2>1. registered_interval_cb \in [Ids -> 0 .. made]
    BY Zenon DEF TimersInv, TimersShape
  <2>2. CASE g = h
    BY <1>2, <1>3, <1>5, <1>9, <2>1, <2>2
  <2>3. CASE g # h
    <3>1. timer'[g] = timer[g] /\ timer[g].id \in Ids /\ registered_interval_cb[timer[g].id] \in Handles
      BY <1>5, <1>9, <2>3, Zenon DEF TimersInv, TimersShape
    <3> QED
      BY <1>2, <2>1, <3>1
  <2> QED
    BY <2>2, <2>3
<1>10. ASSUME NEW g \in Handles, timer'[g].cleared PROVE timer'[g].kind = "interval"
  <2>1. g # h
    BY <1>3, <1>5, <1>10
  <2>2. timer'[g] = timer[g]
    BY <1>5, <2>1
  <2> QED
    BY <1>10, <2>2, Zenon DEF TimersInv, TimersShape
<1>11. TimersShape'
  BY <1>5, <1>7, <1>9, <1>10 DEF TimersShape
<1>12. ASSUME NEW g \in Handles PROVE Held(g)' /\ Unmade(g)'
  <2>1. Held(g) /\ Unmade(g) /\ pc # "end" /\ pc' # "end" /\ g \in Nat
    BY NullIsNoHandle, Zenon DEF TimersInv, TimersOnly, ApiCall, NewTimer
  <2>2. CASE g = h
    BY <1>1, <1>2, <1>3, <1>5, <2>1, <2>2 DEF Held, Unmade
  <2>3. CASE g # h
    <3>1. timer'[g] = timer[g] /\ (g <= made' <=> g <= made) /\ (g > made' => g > made)
      BY <1>1, <1>2, <1>5, <2>1, <2>3
    <3> QED
      BY <2>1, <3>1 DEF Held, Unmade
  <2> QED
    BY <2>2, <2>3
<1>13. Collided => Collided'
  BY <1>5, <1>8, CollidedStays
<1>14. ASSUME ~ Collided', NEW g \in Handles, timer'[g].kind = "interval"
       PROVE  Interval(g)'
  <2>1. CASE g = h
    <3>1. id \in Ids /\ registered_interval_cb'[id] = h
      BY <1>2, <1>3, <1>5, <1>14, <2>1, Zenon DEF TimersInv, TimersShape
    <3> QED
      BY <1>3, <1>5, <2>1, <3>1 DEF Interval
  <2>2. CASE g # h
    <3>1. Interval(g) /\ timer'[g] = timer[g]
      BY <1>5, <1>13, <1>14, <2>2, Zenon DEF TimersInv
    <3>2. kind = "interval" => timer[g].id # id
      BY <1>3, <1>5, <1>14, <2>2, <3>1 DEF Collided
    <3>3. registered_interval_cb'[timer[g].id] = registered_interval_cb[timer[g].id]
      BY <1>14, <3>1, <3>2, Zenon DEF TimersInv, TimersShape, Interval
    <3> QED
      BY <3>1, <3>3 DEF Interval
  <2> QED
    BY <2>1, <2>2
<1>15. \A g \in Handles : ~ Collided' => Interval(g)'
  BY <1>14 DEF Interval
<1>16. ~ Collided' => "closed twice" \notin events'
  BY <1>1, <1>13, Zenon DEF TimersInv
<1>17. TimersInv'
  BY <1>11, <1>12, <1>15, <1>16, Zenon DEF TimersInv
<1>18. LoopInv'
  BY <1>1, TimerBound DEF LoopInv
<1> QED
  BY <1>1, <1>17, <1>18

\* The events that the signal's part is about.
Marks == {"stray", "restart", "late"}
MarksKept == \A e \in Marks : e \in events' <=> e \in events

\* The handle under the identifier is closed: h itself, unless intervals collide.
LEMMA ClearStep ==
  ASSUME LoopInv, TimersInv, NEW h \in Handles, clearIntervalFunc(h), UNCHANGED servers
  PROVE  LoopInv' /\ TimersInv' /\ TimersOnly /\ MarksKept
<1>1. /\ TimersOnly /\ UNCHANGED <<pc, frame, made, registered_interval_cb>> /\ pc = "js"
      /\ timer[h].kind = "interval" /\ ~ timer[h].cleared
  BY Zenon DEF clearIntervalFunc, ApiCall, TimersOnly
<1>2. timer[h].id \in Ids /\ registered_interval_cb[timer[h].id] \in Handles
  BY <1>1, Zenon DEF TimersInv, TimersShape
<1>3. PICK t \in Handles : t = registered_interval_cb[timer[h].id]
  BY <1>2
<1> DEFINE open == timer[t].life \in {"active", "stopped"}
           life == IF open THEN "closing" ELSE timer[t].life
<1>4. timer' = [timer EXCEPT ![t].life = life, ![h].cleared = TRUE]
  BY <1>3, Zenon DEF clearIntervalFunc
<1>5. events' = events \cup (IF open THEN {} ELSE {"closed twice"})
  BY <1>3, Zenon DEF clearIntervalFunc
<1>6. timer \in [Handles -> TimerState]
  BY Zenon DEF TimersInv, TimersShape
<1>7. ASSUME NEW g \in Handles
      PROVE  /\ timer'[g] \in TimerState /\ timer'[g].kind = timer[g].kind
             /\ timer'[g].id = timer[g].id /\ timer'[g].refs = timer[g].refs
             /\ timer'[g].life = IF g = t THEN life ELSE timer[g].life
             /\ timer'[g].cleared = IF g = h THEN TRUE ELSE timer[g].cleared
  <2>1. timer[g] \in TimerState /\ timer[t] \in TimerState
    BY <1>6
  <2>2. timer'[g] = [timer[g] EXCEPT !.life = IF g = t THEN life ELSE timer[g].life,
                                     !.cleared = IF g = h THEN TRUE ELSE timer[g].cleared]
    BY <1>4, <1>6, <2>1, Zenon DEF TimerState
  <2>3. (IF g = t THEN life ELSE timer[g].life) \in {"none", "active", "stopped", "closing", "freed"}
    BY <2>1 DEF TimerState
  <2>4. (IF g = h THEN TRUE ELSE timer[g].cleared) \in BOOLEAN
    BY <2>1, Zenon DEF TimerState
  <2> QED
    BY <2>1, <2>2, <2>3, <2>4, Zenon DEF TimerState
<1>8. timer' \in [Handles -> TimerState]
  <2>1. timer' = [g \in Handles |-> timer'[g]]
    BY <1>4, <1>6, Zenon
  <2> QED
    BY <1>7, <2>1, Zenon
<1>9. TimersShape'
  <2>1. ASSUME NEW g \in Handles, timer'[g].cleared PROVE timer'[g].kind = "interval"
    <3>1. g = h \/ timer[g].cleared
      BY <1>7, <2>1, Zenon
    <3> QED
      BY <1>1, <1>7, <3>1, Zenon DEF TimersInv, TimersShape
  <2> QED
    BY <1>1, <1>7, <1>8, <2>1, Zenon DEF TimersInv, TimersShape
<1>10. ASSUME NEW g \in Handles PROVE Held(g)' /\ Unmade(g)'
  <2>1. Held(g) /\ Unmade(g)
    BY Zenon DEF TimersInv
  <2> QED
    BY <1>1, <1>7, <2>1, Zenon DEF Held, Unmade
<1>11. Collided => Collided'
  BY <1>7, CollidedStays, Zenon
<1>12. ASSUME ~ Collided' PROVE t = h /\ open /\ \A g \in Handles : Interval(g)
  BY <1>1, <1>3, <1>11, <1>12, Zenon DEF TimersInv, Interval
<1>13. ASSUME ~ Collided', NEW g \in Handles PROVE Interval(g)'
  <2>1. CASE g = h
    <3>1. timer'[h].cleared /\ timer'[h].life = "closing" /\ t = h
      BY <1>7, <1>12, <1>13, Zenon
    <3>2. timer'[h].id = timer[h].id /\ timer[h].id \in Ids /\ registered_interval_cb'[timer[h].id] = h
      BY <1>1, <1>2, <1>3, <1>7, <3>1, Zenon
    <3> QED
      BY <2>1, <3>1, <3>2 DEF Interval
  <2>2. CASE g # h
    <3>1. timer'[g].life = timer[g].life /\ timer'[g].cleared = timer[g].cleared
      BY <1>7, <1>12, <1>13, <2>2, Zenon
    <3>2. timer'[g].kind = timer[g].kind /\ timer'[g].id = timer[g].id /\ Interval(g)
          /\ registered_interval_cb' = registered_interval_cb
      BY <1>1, <1>7, <1>12, <1>13, Zenon
    <3> QED
      BY <3>1, <3>2, Zenon DEF Interval
  <2> QED
    BY <2>1, <2>2
<1>14. ~ Collided' => "closed twice" \notin events'
  BY <1>5, <1>11, <1>12, Zenon DEF TimersInv
<1>15. TimersInv'
  BY <1>9, <1>10, <1>13, <1>14, Zenon DEF TimersInv
<1>16. MarksKept
  BY <1>5, Zenon DEF MarksKept, Marks
<1>17. LoopInv'
  BY <1>1 DEF LoopInv
<1> QED
  BY <1>1, <1>15, <1>16, <1>17

LEMMA TimerStepInv ==
  ASSUME LoopInv, TimersInv, TimerStep
  PROVE  LoopInv' /\ TimersInv' /\ TimersOnly /\ MarksKept
<1>0. UNCHANGED servers
  BY DEF TimerStep
<1>1. ASSUME NEW d \in Delays, SetTimeOutFunc(d) PROVE LoopInv' /\ TimersInv' /\ TimersOnly /\ MarksKept
  <2>1. AsUInt64(d) \in Int /\ Null \in Ids \cup {Null} /\ 0 \in Int
    BY DelaysAreInts DEF AsUInt64, Never
  <2>2. NewTimer("timeout", AsUInt64(d), 0, Null) /\ UNCHANGED registered_interval_cb
    BY <1>1 DEF SetTimeOutFunc
  <2>3. LoopInv' /\ TimersInv' /\ TimersOnly /\ UNCHANGED events
    BY <1>0, <2>1, <2>2, NewTimerStep
  <2> QED
    BY <2>3 DEF MarksKept
<1>2. ASSUME NEW d \in Delays, NEW i \in Ids, SetIntervalFunc(d, i)
      PROVE  LoopInv' /\ TimersInv' /\ TimersOnly /\ MarksKept
  <2>1. AsUInt64(d) \in Int /\ i \in Ids \cup {Null}
    BY DelaysAreInts DEF AsUInt64, Never
  <2>2. /\ NewTimer("interval", AsUInt64(d), AsUInt64(d), i)
        /\ registered_interval_cb' = [registered_interval_cb EXCEPT ![i] = made + 1]
    BY <1>2 DEF SetIntervalFunc
  <2>3. LoopInv' /\ TimersInv' /\ TimersOnly /\ UNCHANGED events
    BY <1>0, <2>1, <2>2, NewTimerStep, Zenon
  <2> QED
    BY <2>3 DEF MarksKept
<1>3. ASSUME NEW h \in Handles, clearIntervalFunc(h) \/ Fire(h) \/ on_close(h)
      PROVE  LoopInv' /\ TimersInv' /\ TimersOnly /\ MarksKept
  BY <1>0, <1>3, ClearStep, FireStep, OnCloseStep DEF MarksKept
<1>4. ASSUME timer_libuv_cb \/ Tick PROVE LoopInv' /\ TimersInv' /\ TimersOnly /\ MarksKept
  BY <1>0, <1>4, LibuvCbStep, TickStep DEF MarksKept
<1> QED
  BY <1>1, <1>2, <1>3, <1>4 DEF TimerStep

-----------------------------------------------------------------------------
(* Handlers and routes.                                                    *)

LEMMA RegisterStep ==
  ASSUME HandlersInv, NEW kind \in {"get", "ws", "static"}, NEW refs \in Int,
         Register(kind, refs), refs = IF kind = "static" THEN 0 ELSE 1,
         \E u \in Uris :
           \/ routes_' = [routes_ EXCEPT ![u] = registered + 1] /\ UNCHANGED ws_routes_
           \/ ws_routes_' = [ws_routes_ EXCEPT ![u] = registered + 1] /\ UNCHANGED routes_
  PROVE  HandlersInv'
<1>1. /\ registered \in Nat /\ registered < MaxRoutes /\ registered' = registered + 1
      /\ pc = "js" /\ pc' = "js"
  BY DEF HandlersInv, Register, ApiCall
<1>2. PICK k \in Handlers : k = registered + 1
  BY <1>1, ServerBounds DEF Handlers
<1>3. k \in 0 .. registered' /\ 0 .. registered \subseteq 0 .. registered'
  BY <1>1, <1>2
<1>4. routes_' \in [Uris -> 0 .. registered'] /\ ws_routes_' \in [Uris -> 0 .. registered']
  <2>1. routes_ \in [Uris -> 0 .. registered] /\ ws_routes_ \in [Uris -> 0 .. registered]
    BY DEF HandlersInv
  <2> QED
    BY <1>2, <1>3, <2>1
<1>5. handler' = [handler EXCEPT ![k] = [kind |-> kind, refs |-> refs]]
  BY <1>2 DEF Register
<1>6. handler' \in [Handlers -> [kind : {"none", "get", "ws", "static"}, refs : Int]]
  BY <1>5 DEF HandlersInv
<1>7. ASSUME NEW j \in Handlers
      PROVE  handler'[j].refs = IF handler'[j].kind \in {"get", "ws"} /\ pc' # "end" THEN 1 ELSE 0
  <2>1. CASE j = k
    BY <1>1, <1>5, <2>1 DEF HandlersInv
  <2>2. CASE j # k
    BY <1>1, <1>5, <2>2 DEF HandlersInv
  <2> QED
    BY <2>1, <2>2
<1>8. registered' \in Nat /\ registered' <= MaxRoutes
  BY <1>1, ServerBounds
<1> QED
  BY <1>4, <1>6, <1>7, <1>8 DEF HandlersInv

LEMMA HandlersSame ==
  ASSUME HandlersInv, UNCHANGED <<handler, registered, routes_, ws_routes_>>,
         pc # "end", pc' # "end"
  PROVE  HandlersInv'
BY DEF HandlersInv

-----------------------------------------------------------------------------
(* The signal.                                                             *)

LEMMA UsersFinite == IsFiniteSet(ServerIds) /\ IsFiniteSet(Users) /\ Cardinality(Users) \in Nat
<1>1. IsFiniteSet(ServerIds)
  BY FS_Interval, ServerBounds DEF ServerIds
<1>2. Users \subseteq ServerIds
  BY DEF Users
<1> QED
  BY <1>1, <1>2, FS_Subset, FS_CardinalityType

\* Nothing happens to Servers and signals.
LEMMA SignalSame ==
  ASSUME SignalInv, UNCHANGED <<server, sig, stop_flag>>, MarksKept,
         pc # "end", pc' # "end", pc' = "exit" => pc = "exit"
  PROVE  SignalInv'
<1>1. SignalShape'
  BY DEF SignalInv, SignalShape
<1>2. Started'
  BY DEF SignalInv, Started, MarksKept, Marks
<1>3. Users' = Users
  BY DEF Users, Alive
<1>4. Counted'
  BY <1>3 DEF SignalInv, Counted, MarksKept, Marks
<1> QED
  BY <1>1, <1>2, <1>4 DEF SignalInv

\* A Server that does not listen yet is no user.
LEMMA ConstructorStep ==
  ASSUME SignalInv, NEW s \in ServerIds, server_constructor(s)
  PROVE  SignalInv'
<1>1. pc = "js" /\ pc' = "js" /\ UNCHANGED <<sig, stop_flag, events>>
  BY DEF server_constructor, ApiCall
<1>2. server[s].life = "none" /\ server[s].stream = "none"
      /\ server' = [server EXCEPT ![s].life = "alive"]
  BY DEF server_constructor, SignalInv, SignalShape
<1>3. SignalShape'
  BY <1>1, <1>2 DEF SignalInv, SignalShape
<1>4. \A t \in ServerIds : (Alive(t)' /\ server'[t].stream # "none") <=> (Alive(t) /\ server[t].stream # "none")
  BY <1>2 DEF Alive, SignalInv, SignalShape
<1>5. Users' = Users
  BY <1>4 DEF Users
<1>6. Started' /\ Counted'
  BY <1>1, <1>5 DEF SignalInv, Started, Counted
<1> QED
  BY <1>3, <1>6 DEF SignalInv

\* register_daemon: what it does to the entry.
LEMMA RegisteredEntry ==
  ASSUME sig \in SigState
  PROVE  /\ Registered \in SigState /\ Registered.exists
         /\ Registered.refcount = sig.refcount + 1
         /\ sig.refcount = 0 => Registered.active /\ Registered.handle = "open"
         /\ sig.refcount # 0 => Registered.active = sig.active /\ Registered.handle = sig.handle
<1>1. sig.refcount \in Int
  BY DEF SigState
<1>2. CASE sig.refcount = 0
  <2>1. Registered = [exists |-> TRUE, refcount |-> 1, active |-> TRUE, handle |-> "open"]
    BY <1>2 DEF Registered
  <2> QED
    BY <1>2, <2>1 DEF SigState
<1>3. CASE sig.refcount # 0
  <2>1. sig.refcount + 1 # 1
    BY <1>1, <1>3
  <2>2. Registered = [sig EXCEPT !.exists = TRUE, !.refcount = sig.refcount + 1]
    BY <2>1 DEF Registered
  <2>3. PICK n \in Int : n = sig.refcount + 1
    BY <1>1
  <2> DEFINE r == [sig EXCEPT !.exists = TRUE, !.refcount = n]
  <2>4. r \in SigState /\ r.exists /\ r.refcount = n
    BY Zenon DEF SigState
  <2>5. r.active = sig.active /\ r.handle = sig.handle
    BY DEF SigState
  <2>6. Registered = r
    BY <2>2, <2>3
  <2> HIDE DEF r
  <2> QED
    BY <1>3, <2>3, <2>4, <2>5, <2>6
<1> QED
  BY <1>2, <1>3

LEMMA ListenStep ==
  ASSUME SignalInv, NEW s \in ServerIds, NEW outcome \in {"listening", "failed"},
         server_listen(s, outcome)
  PROVE  SignalInv'
<1>1. /\ pc = "js" /\ pc' = "js" /\ stop_flag' = stop_flag /\ Alive(s) /\ server[s].stream = "none"
      /\ server' = [server EXCEPT ![s].stream = outcome] /\ sig' = Registered
      /\ sig \in SigState /\ stop_flag \in BOOLEAN
  BY DEF server_listen, Run, ApiCall, SignalInv, SignalShape
<1>2. events' = events \cup
        (IF sig.refcount = 0 /\ (stop_flag \/ sig.handle \in {"open", "closing"})
         THEN {"restart"} ELSE {})
  BY DEF server_listen, Run
<1>3. /\ sig' \in SigState /\ sig'.exists /\ sig'.refcount = sig.refcount + 1
      /\ sig.refcount = 0 => sig'.active /\ sig'.handle = "open"
      /\ sig.refcount # 0 => sig'.active = sig.active /\ sig'.handle = sig.handle
  BY <1>1, RegisteredEntry
<1>4. SignalShape'
  BY <1>1, <1>3 DEF SignalInv, SignalShape, Alive
<1>5. Started'
  <2>1. CASE sig.refcount = 0
    BY <1>1, <1>2, <1>3, <2>1 DEF SignalInv, Started
  <2>2. CASE sig.refcount # 0
    BY <1>1, <1>2, <1>3, <2>2 DEF SignalInv, Started
  <2> QED
    BY <2>1, <2>2
<1>6. s \notin Users /\ Users' = Users \cup {s}
  <2>1. /\ Alive(s)' /\ server'[s].stream # "none"
        /\ \A t \in ServerIds : t # s => server'[t] = server[t]
    BY <1>1 DEF Alive, SignalInv, SignalShape
  <2> QED
    BY <1>1, <2>1 DEF Users, Alive
<1>7. Cardinality(Users') = Cardinality(Users) + 1
  BY <1>6, UsersFinite, FS_AddElement, Zenon
<1>8. Counted'
  <2>1. SUFFICES ASSUME "stray" \notin events' PROVE
               /\ sig'.refcount = Cardinality(Users')
               /\ ~ sig'.exists => sig'.refcount = 0
               /\ ~ stop_flag' => (sig'.active <=> Users' # {})
    BY DEF Counted
  <2>2. /\ sig.refcount = Cardinality(Users) /\ (~ stop_flag => (sig.active <=> Users # {}))
    BY <1>1, <1>2, <2>1 DEF SignalInv, Counted
  <2>3. ASSUME ~ stop_flag PROVE sig'.active
    <3>1. CASE sig.refcount = 0
      BY <1>3, <3>1
    <3>2. CASE sig.refcount # 0
      <4>1. Users # {}
        BY <2>2, <3>2, FS_EmptySet
      <4> QED
        BY <1>3, <2>2, <2>3, <3>2, <4>1
    <3> QED
      BY <3>1, <3>2
  <2> QED
    BY <1>1, <1>3, <1>6, <1>7, <2>2, <2>3
<1> QED
  BY <1>4, <1>5, <1>8 DEF SignalInv

\* deregister_daemon: what it does to the entry.
LEMMA DeregisteredEntry ==
  ASSUME sig \in SigState, NEW n \in Nat
  PROVE  /\ Deregistered(n) \in SigState /\ Deregistered(n).exists = sig.exists
         /\ Deregistered(n).refcount = sig.refcount - n
         /\ IF sig.active /\ sig.refcount \in 1 .. n
            THEN ~ Deregistered(n).active
            ELSE Deregistered(n).active = sig.active /\ Deregistered(n).handle = sig.handle
<1>1. sig.refcount \in Int
  BY DEF SigState
<1> DEFINE e == [sig EXCEPT !.refcount = sig.refcount - n]
<1>2. /\ e \in SigState /\ e.refcount = sig.refcount - n /\ e.exists = sig.exists
      /\ e.active = sig.active /\ e.handle = sig.handle
  BY <1>1 DEF SigState
<1>3. CASE sig.active /\ sig.refcount \in 1 .. n
  <2>1. Deregistered(n) = [e EXCEPT !.active = FALSE, !.handle = "closing"]
    BY <1>3 DEF Deregistered
  <2> HIDE DEF e
  <2> QED
    BY <1>2, <1>3, <2>1, Zenon DEF SigState
<1>4. CASE ~ (sig.active /\ sig.refcount \in 1 .. n)
  <2>1. Deregistered(n) = e
    BY <1>4 DEF Deregistered
  <2> HIDE DEF e
  <2> QED
    BY <1>2, <1>4, <2>1
<1> QED
  BY <1>3, <1>4

LEMMA FinalizerStep ==
  ASSUME SignalInv, NEW s \in ServerIds, server_finalizer(s)
  PROVE  SignalInv'
<1>1. /\ pc = "js" /\ pc' = "js" /\ stop_flag' = stop_flag /\ Alive(s)
      /\ server' = [server EXCEPT ![s].life = "deleted"]
      /\ sig \in SigState /\ stop_flag \in BOOLEAN
  BY DEF server_finalizer, ApiCall, SignalInv, SignalShape
<1>2. /\ sig' = IF sig.exists THEN Deregistered(1) ELSE sig
      /\ events' = events \cup
           (IF sig.exists /\ server[s].stream = "none" THEN {"stray"} ELSE {})
  BY DEF server_finalizer
<1>3. /\ sig' \in SigState /\ sig'.exists = sig.exists
      /\ sig.exists => sig'.refcount = sig.refcount - 1
      /\ ~ sig.exists => sig' = sig
      /\ sig'.active => sig.active /\ sig'.handle = sig.handle
      /\ (sig.active /\ ~ sig'.active) => sig.refcount = 1
      /\ (sig.exists /\ sig.active /\ sig.refcount = 1) => ~ sig'.active
  <2>1. sig.refcount \in Int
    BY <1>1 DEF SigState
  <2>2. CASE sig.exists
    <3>1. /\ sig' \in SigState /\ sig'.exists = sig.exists /\ sig'.refcount = sig.refcount - 1
          /\ IF sig.active /\ sig.refcount \in 1 .. 1
             THEN ~ sig'.active
             ELSE sig'.active = sig.active /\ sig'.handle = sig.handle
      BY <1>1, <1>2, <2>2, DeregisteredEntry, Zenon
    <3>2. sig.refcount \in 1 .. 1 <=> sig.refcount = 1
      BY <2>1
    <3> QED
      BY <2>2, <3>1, <3>2
  <2>3. CASE ~ sig.exists
    BY <1>1, <1>2, <2>3
  <2> QED
    BY <2>2, <2>3
<1>4. SignalShape'
  BY <1>1, <1>3 DEF SignalInv, SignalShape, Alive
<1>5. Started'
  BY <1>1, <1>2, <1>3 DEF SignalInv, Started
<1>6. Users' = Users \ {s}
  <2>1. ~ Alive(s)' /\ \A t \in ServerIds : t # s => server'[t] = server[t]
    BY <1>1 DEF Alive, SignalInv, SignalShape
  <2> QED
    BY <2>1 DEF Users, Alive
<1>7. Counted'
  <2>1. SUFFICES ASSUME "stray" \notin events' PROVE
               /\ sig'.refcount = Cardinality(Users')
               /\ ~ sig'.exists => sig'.refcount = 0
               /\ ~ stop_flag' => (sig'.active <=> Users' # {})
    BY DEF Counted
  <2>2. /\ sig.refcount = Cardinality(Users) /\ (~ stop_flag => (sig.active <=> Users # {}))
        /\ ~ sig.exists => sig.refcount = 0
    BY <1>1, <1>2, <2>1 DEF SignalInv, Counted
  <2>3. CASE s \in Users
    <3>1. sig.exists
      BY <2>2, <2>3, UsersFinite, FS_EmptySet
    <3>2. Cardinality(Users') = Cardinality(Users) - 1
      BY <1>6, <2>3, UsersFinite, FS_RemoveElement, Zenon
    <3>3. sig'.refcount = Cardinality(Users')
      BY <1>3, <2>2, <3>1, <3>2
    <3>4. IsFiniteSet(Users') /\ (Users' = {} <=> Cardinality(Users') = 0)
      BY <1>6, UsersFinite, FS_RemoveElement, FS_EmptySet, Zenon
    <3>5. Users' = {} <=> sig.refcount = 1
      BY <2>2, <3>2, <3>4, UsersFinite
    <3>6. ~ stop_flag => (sig'.active <=> Users' # {})
      BY <1>3, <2>2, <2>3, <3>1, <3>5
    <3> QED
      BY <1>1, <1>3, <3>1, <3>3, <3>6
  <2>4. CASE s \notin Users
    <3>1. server[s].stream = "none"
      BY <1>1, <2>4 DEF Users
    <3>2. ~ sig.exists
      BY <1>2, <2>1, <3>1
    <3>3. Users' = Users
      BY <1>6, <2>4
    <3> QED
      BY <1>1, <1>3, <2>2, <3>2, <3>3
  <2> QED
    BY <2>3, <2>4
<1> QED
  BY <1>4, <1>5, <1>7 DEF SignalInv

\* SIGINT comes, and later the handle is closed.
LEMMA InterruptStep ==
  ASSUME SignalInv, on_signal_cb \/ signal_closed
  PROVE  SignalInv'
<1>1. /\ pc = "loop" /\ pc' = "loop" /\ server' = server /\ sig \in SigState
      /\ stop_flag \in BOOLEAN /\ MarksKept
  BY DEF on_signal_cb, Interrupt, signal_closed, InLoop, SignalInv, SignalShape, MarksKept, Marks
<1>2. Users' = Users
  BY <1>1 DEF Users, Alive
<1>3. CASE on_signal_cb
  <2>1. sig' = [sig EXCEPT !.active = FALSE, !.handle = "closing"] /\ stop_flag' = TRUE
    BY <1>3 DEF on_signal_cb, Interrupt
  <2>2. sig' \in SigState /\ ~ sig'.active /\ sig'.refcount = sig.refcount /\ sig'.exists = sig.exists
    BY <1>1, <2>1, Zenon DEF SigState
  <2>3. SignalShape'
    BY <1>1, <2>1, <2>2 DEF SignalInv, SignalShape
  <2>4. Started' /\ Counted'
    BY <1>1, <1>2, <2>1, <2>2 DEF SignalInv, Started, Counted, MarksKept, Marks
  <2> QED
    BY <2>3, <2>4 DEF SignalInv
<1>4. CASE signal_closed
  <2>1. sig' = [sig EXCEPT !.handle = "closed"] /\ stop_flag' = stop_flag /\ sig.handle = "closing"
    BY <1>4 DEF signal_closed
  <2>2. sig' \in SigState /\ sig'.active = sig.active /\ sig'.refcount = sig.refcount
        /\ sig'.exists = sig.exists
    BY <1>1, <2>1 DEF SigState
  <2>3. SignalShape'
    BY <1>1, <2>1, <2>2 DEF SignalInv, SignalShape
  <2>4. Started' /\ Counted'
    BY <1>1, <1>2, <2>1, <2>2 DEF SignalInv, Started, Counted, MarksKept, Marks
  <2> QED
    BY <2>3, <2>4 DEF SignalInv
<1> QED
  BY <1>3, <1>4

-----------------------------------------------------------------------------
(* The end of the process.                                                 *)

\* The loop ends: the signal is inactive, or something was started again.
LEMMA LoopEndsStep ==
  ASSUME IInv, LoopEnds
  PROVE  IInv'
<1>1. pc = "loop" /\ pc' = "exit" /\ UNCHANGED <<frame, stop_flag, events, timers, servers>>
      /\ (stop_flag \/ ~ LoopAlive)
  BY DEF LoopEnds
<1>2. LoopInv' /\ HandlersInv'
  BY <1>1 DEF IInv, LoopInv, HandlersInv, timers, servers
<1>3. TimersInv'
  BY <1>1, Zenon DEF IInv, TimersInv, TimersShape, Held, Unmade, Interval, Collided, timers
<1>4. "restart" \notin events => ~ sig.active
  BY <1>1 DEF IInv, SignalInv, Started, LoopAlive, ServersAlive
<1>5. Users' = Users
  BY <1>1 DEF Users, Alive, servers
<1>6. SignalInv'
  <2>1. SignalShape'
    BY <1>1 DEF IInv, SignalInv, SignalShape, servers
  <2>2. Started'
    BY <1>1, <1>4 DEF IInv, SignalInv, Started, servers
  <2>3. Counted'
    BY <1>1, <1>5 DEF IInv, SignalInv, Counted, servers
  <2> QED
    BY <2>1, <2>2, <2>3 DEF SignalInv
<1> QED
  BY <1>2, <1>3, <1>6 DEF IInv

LEMMA TearDownStep ==
  ASSUME IInv, tear_down_runtime_env
  PROVE  IInv'
<1>1. /\ pc = "exit" /\ pc' = "end"
      /\ UNCHANGED <<frame, stop_flag, registered, routes_, ws_routes_, made, registered_interval_cb>>
  BY DEF tear_down_runtime_env, FreeTimerCallbacks
<1>2. LoopInv'
  BY <1>1 DEF IInv, LoopInv
<1>3. TimersInv'
  <2>1. ASSUME NEW h \in Handles
        PROVE  /\ timer'[h] \in TimerState /\ timer'[h].kind = timer[h].kind
               /\ timer'[h].life = timer[h].life /\ timer'[h].id = timer[h].id
               /\ timer'[h].cleared = timer[h].cleared /\ timer'[h].refs = 0
    <3>1. timer[h] \in TimerState /\ Held(h)
      BY Zenon DEF IInv, TimersInv, TimersShape
    <3>2. timer'[h] = [timer[h] EXCEPT !.refs = IF h <= made THEN timer[h].refs - 1 ELSE timer[h].refs]
      BY DEF tear_down_runtime_env, FreeTimerCallbacks
    <3>3. (IF h <= made THEN timer[h].refs - 1 ELSE timer[h].refs) = 0
      BY <1>1, <3>1 DEF Held
    <3>4. timer'[h] = [timer[h] EXCEPT !.refs = 0]
      BY <3>2, <3>3
    <3> QED
      BY <3>1, <3>4 DEF TimerState
  <2>2. timer' \in [Handles -> TimerState]
    <3>1. timer' = [h \in Handles |-> timer'[h]]
      BY DEF tear_down_runtime_env, FreeTimerCallbacks
    <3> QED
      BY <2>1, <3>1
  <2>3. TimersShape'
    <3>1. \A h \in Handles : timer'[h].cleared => timer'[h].kind = "interval"
      BY <2>1, Zenon DEF IInv, TimersInv, TimersShape
    <3> QED
      BY <1>1, <2>1, <2>2, <3>1, Zenon DEF IInv, TimersInv, TimersShape
  <2>4. \A h \in Handles : Held(h)' /\ Unmade(h)'
    BY <1>1, <2>1, Zenon DEF IInv, TimersInv, Held, Unmade
  <2>5. Collided => Collided'
    BY <2>1, CollidedStays
  <2>6. ASSUME ~ Collided', NEW h \in Handles PROVE Interval(h)'
    <3>1. Interval(h)
      BY <2>5, <2>6, Zenon DEF IInv, TimersInv
    <3> QED
      BY <1>1, <2>1, <3>1 DEF Interval
  <2>7. ~ Collided' => "closed twice" \notin events'
    BY <2>5, Zenon DEF IInv, TimersInv, tear_down_runtime_env, FreeServers
  <2> QED
    BY <2>3, <2>4, <2>6, <2>7, Zenon DEF TimersInv
<1>4. HandlersInv'
  <2>1. ASSUME NEW k \in Handlers
        PROVE  handler'[k] \in [kind : {"none", "get", "ws", "static"}, refs : Int] /\ handler'[k].refs = 0
    <3> DEFINE r == handler[k]
    <3>1. r \in [kind : {"none", "get", "ws", "static"}, refs : Int]
          /\ r.refs = IF r.kind \in {"get", "ws"} THEN 1 ELSE 0
      BY <1>1 DEF IInv, HandlersInv
    <3>2. handler'[k] = IF r.kind \in {"get", "ws"} THEN [r EXCEPT !.refs = r.refs - 1] ELSE r
      BY DEF tear_down_runtime_env, FreeHandlerCallbacks
    <3> HIDE DEF r
    <3> QED
      BY <3>1, <3>2
  <2>2. handler' \in [Handlers -> [kind : {"none", "get", "ws", "static"}, refs : Int]]
    <3>1. handler' = [k \in Handlers |-> handler'[k]]
      BY DEF tear_down_runtime_env, FreeHandlerCallbacks
    <3> QED
      BY <2>1, <3>1
  <2> QED
    BY <1>1, <2>1, <2>2 DEF IInv, HandlersInv
<1>5. SignalInv'
  <2>1. PICK n \in Nat : n = Cardinality({s \in ServerIds : Alive(s)})
    <3>1. IsFiniteSet({s \in ServerIds : Alive(s)})
      BY UsersFinite, FS_Subset
    <3> QED
      BY <3>1, FS_CardinalityType, Zenon
  <2>2. /\ sig' = IF sig.exists THEN Deregistered(n) ELSE sig
        /\ events' = events \cup
             (IF sig.exists /\ Deregistered(n).active # sig.active THEN {"late"} ELSE {})
    BY <2>1 DEF tear_down_runtime_env, FreeServers
  <2>3. sig \in SigState /\ stop_flag \in BOOLEAN /\ ("restart" \notin events => ~ sig.active)
    BY <1>1 DEF IInv, SignalInv, SignalShape, Started
  <2>4. sig' \in SigState /\ (~ sig.active => Deregistered(n).active = sig.active)
    BY <2>2, <2>3, DeregisteredEntry
  <2>5. SignalShape'
    <3>1. ASSUME NEW s \in ServerIds
          PROVE  /\ server'[s] \in [life : {"none", "alive", "deleted"}, stream : {"none", "listening", "failed"}]
                 /\ server'[s].life = "none" => server'[s].stream = "none"
      <4>1. server[s] \in [life : {"none", "alive", "deleted"}, stream : {"none", "listening", "failed"}]
            /\ (server[s].life = "none" => server[s].stream = "none")
        BY DEF IInv, SignalInv, SignalShape
      <4>2. server'[s] = IF Alive(s) THEN [server[s] EXCEPT !.life = "deleted"] ELSE server[s]
        BY DEF tear_down_runtime_env, FreeServers
      <4> QED
        BY <4>1, <4>2
    <3>2. server' = [s \in ServerIds |-> server'[s]]
      BY DEF tear_down_runtime_env, FreeServers
    <3> QED
      BY <1>1, <2>3, <2>4, <3>1, <3>2 DEF SignalShape
  <2>6. Started'
    <3>1. SUFFICES ASSUME "restart" \notin events' PROVE ~ sig'.active /\ "late" \notin events'
      BY DEF Started
    <3>2. "restart" \notin events
      BY <2>2, <3>1
    <3>3. ~ sig.active /\ "late" \notin events
      BY <2>3, <3>2 DEF IInv, SignalInv, Started
    <3> QED
      BY <2>2, <2>4, <3>3
  <2>7. Counted'
    BY <1>1 DEF Counted
  <2> QED
    BY <2>5, <2>6, <2>7 DEF SignalInv
<1> QED
  BY <1>2, <1>3, <1>4, <1>5 DEF IInv

-----------------------------------------------------------------------------
(* Every step.                                                             *)

LEMMA InitIInv == Init => IInv
<1> SUFFICES ASSUME Init PROVE IInv
  OBVIOUS
<1> USE DEF Init
<1>1. LoopInv
  BY TimerBound DEF EventLoopInit, TimersInit, LoopInv, Script, Frame
<1>2. ASSUME NEW h \in Handles
      PROVE  /\ timer[h] \in TimerState /\ timer[h].kind = "none" /\ timer[h].life = "none"
             /\ timer[h].refs = 0 /\ ~ timer[h].cleared
  BY DEF TimersInit, Timer, TimerState
<1>3. TimersInv
  <2>1. timer \in [Handles -> TimerState]
    <3>1. timer = [h \in Handles |-> timer[h]]
      BY DEF TimersInit
    <3> QED
      BY <1>2, <3>1
  <2>2. TimersShape
    BY <1>2, <2>1 DEF TimersShape, TimersInit, Null
  <2>3. \A h \in Handles : Held(h) /\ Unmade(h)
    BY <1>2, NullIsNoHandle DEF Held, Unmade, TimersInit, Handles
  <2>4. (\A h \in Handles : Interval(h)) /\ "closed twice" \notin events
    BY <1>2 DEF Interval, EventLoopInit
  <2> QED
    BY <2>2, <2>3, <2>4, Zenon DEF TimersInv
<1>4. HandlersInv
  <2>1. /\ registered = 0 /\ routes_ = [u \in Uris |-> 0] /\ ws_routes_ = [u \in Uris |-> 0]
        /\ handler = [k \in Handlers |-> [kind |-> "none", refs |-> 0]]
    BY DEF ServersInit, None
  <2>2. \A k \in Handlers : handler[k].kind = "none" /\ handler[k].refs = 0
    BY <2>1
  <2>3. handler \in [Handlers -> [kind : {"none", "get", "ws", "static"}, refs : Int]]
    BY <2>1
  <2>4. registered \in Nat /\ registered <= MaxRoutes /\ 0 \in 0 .. registered
    BY <2>1, ServerBounds
  <2> QED
    BY <2>1, <2>2, <2>3, <2>4 DEF HandlersInv
<1>5. SignalInv
  <2>1. Users = {}
    BY DEF Users, Alive, ServersInit
  <2>2. SignalShape
    <3>1. sig \in SigState /\ stop_flag \in BOOLEAN
      <4>1. sig = [exists |-> FALSE, refcount |-> 0, active |-> FALSE, handle |-> "none"]
            /\ stop_flag = FALSE
        BY DEF ServersInit, EventLoopInit
      <4>2. [exists |-> FALSE, refcount |-> 0, active |-> FALSE, handle |-> "none"] \in SigState
        BY DEF SigState
      <4>3. stop_flag \in BOOLEAN
        BY <4>1, Zenon
      <4> QED
        BY <4>1, <4>2, <4>3, Zenon
    <3>2. \A s \in ServerIds : server[s] = [life |-> "none", stream |-> "none"]
      BY DEF ServersInit
    <3>3. server \in [ServerIds -> [life : {"none", "alive", "deleted"},
                                   stream : {"none", "listening", "failed"}]]
      BY DEF ServersInit
    <3> QED
      BY <3>1, <3>2, <3>3 DEF SignalShape
  <2>3. Started /\ Counted
    BY <2>1, FS_EmptySet DEF Started, Counted, ServersInit, EventLoopInit
  <2> QED
    BY <2>2, <2>3 DEF SignalInv
<1> QED
  BY <1>1, <1>3, <1>4, <1>5 DEF IInv

\* Steps of the Servers and of the script leave the timers alone.
LEMMA TimersSame ==
  ASSUME TimersInv, UNCHANGED timers, pc # "end", pc' # "end",
         "closed twice" \in events' => "closed twice" \in events
  PROVE  TimersInv'
<1>1. UNCHANGED <<timer, made, registered_interval_cb>>
  BY Zenon DEF timers
<1>2. TimersShape' /\ (Collided' <=> Collided)
  BY <1>1, Zenon DEF TimersInv, TimersShape, Collided
<1>3. \A h \in Handles : Held(h)' /\ Unmade(h)'
  BY <1>1, Zenon DEF TimersInv, Held, Unmade
<1>4. \A h \in Handles : Interval(h)' <=> Interval(h)
  BY <1>1, Zenon DEF Interval
<1> QED
  BY <1>2, <1>3, <1>4, Zenon DEF TimersInv

\* A step of the script or the loop that calls or returns, and no more.
LEMMA CallStep ==
  ASSUME IInv, UNCHANGED <<stop_flag, events, timers, servers>>,
         pc \in {"js", "loop"}, pc' \in {"js", "loop", "aborted"},
         \/ UNCHANGED frame
         \/ frame' = Nobody
         \/ \E k \in Nat : frame' = Frame("handler", k)
  PROVE  IInv'
<1>1. LoopInv'
  BY DEF IInv, LoopInv, Nobody, Frame, timers
<1>2. TimersInv'
  BY TimersSame, Zenon DEF IInv
<1>3. HandlersInv'
  BY HandlersSame DEF IInv, servers
<1>4. SignalInv'
  <2>1. MarksKept
    BY DEF MarksKept
  <2> QED
    BY <2>1, SignalSame DEF IInv, servers
<1> QED
  BY <1>1, <1>2, <1>3, <1>4 DEF IInv

\* A step of the Servers whose own parts are shown to be kept.
LEMMA ServersKept ==
  ASSUME IInv, UNCHANGED <<frame, timers>>, pc \in {"js", "loop"}, pc' = pc,
         "closed twice" \in events' => "closed twice" \in events,
         HandlersInv', SignalInv'
  PROVE  IInv'
<1>1. LoopInv'
  BY Zenon DEF IInv, LoopInv, timers
<1>2. TimersInv'
  BY TimersSame, Zenon DEF IInv
<1> QED
  BY <1>1, <1>2, Zenon DEF IInv

LEMMA ServerStepInv ==
  ASSUME IInv, ServerStep
  PROVE  IInv'
<1>0. UNCHANGED timers
  BY DEF ServerStep
<1>1. ASSUME NEW s \in ServerIds, server_constructor(s) PROVE IInv'
  <2>1. SignalInv' /\ UNCHANGED <<pc, frame, events, handler, registered, routes_, ws_routes_>> /\ pc = "js"
    BY <1>1, ConstructorStep, Zenon DEF IInv, server_constructor, ApiCall
  <2> QED
    BY <1>0, <2>1, HandlersSame, ServersKept, Zenon DEF IInv
<1>2. ASSUME NEW s \in ServerIds, server_finalizer(s) PROVE IInv'
  <2>1. SignalInv' /\ UNCHANGED <<pc, frame, handler, registered, routes_, ws_routes_>> /\ pc = "js"
    BY <1>2, FinalizerStep, Zenon DEF IInv, server_finalizer, ApiCall
  <2>2. "closed twice" \in events' => "closed twice" \in events
    BY <1>2, Zenon DEF server_finalizer
  <2> QED
    BY <1>0, <2>1, <2>2, HandlersSame, ServersKept, Zenon DEF IInv
<1>3. ASSUME NEW s \in ServerIds, NEW outcome \in {"listening", "failed"}, server_listen(s, outcome)
      PROVE  IInv'
  <2>1. SignalInv' /\ UNCHANGED <<pc, frame, handler, registered, routes_, ws_routes_>> /\ pc = "js"
    BY <1>3, ListenStep DEF IInv, server_listen, ApiCall
  <2>2. "closed twice" \in events' => "closed twice" \in events
    BY <1>3, Zenon DEF server_listen, Run
  <2> QED
    BY <1>0, <2>1, <2>2, HandlersSame, ServersKept, Zenon DEF IInv
<1>4. ASSUME NEW u \in Uris, register_get_url(u) \/ register_ws_url(u) \/ server_serve_static(u)
      PROVE  IInv'
  <2>1. \/ Register("get", 1) \/ Register("ws", 1) \/ Register("static", 0)
    BY <1>4 DEF register_get_url, register_ws_url, server_serve_static
  <2>2. UNCHANGED <<pc, frame, events, stop_flag, server, sig>> /\ pc = "js"
    BY <2>1 DEF Register, ApiCall
  <2>3. HandlersInv'
    BY <1>4, RegisterStep DEF IInv, register_get_url, register_ws_url, server_serve_static
  <2>4. SignalInv'
    BY <2>2, SignalSame DEF IInv, MarksKept
  <2> QED
    BY <1>0, <2>2, <2>3, <2>4, ServersKept, Zenon
<1>5. ASSUME NEW u \in Uris, invoke_function(u) \/ invoke_ws_function(u) PROVE IInv'
  <2>1. UNCHANGED <<stop_flag, events, servers>> /\ pc = "loop" /\ pc' \in {"js", "loop"}
    BY <1>5 DEF invoke_function, invoke_ws_function, Call, InLoop
  <2>2. routes_[u] \in Nat /\ ws_routes_[u] \in Nat
    BY DEF IInv, HandlersInv
  <2>3. UNCHANGED frame \/ \E k \in Nat : frame' = Frame("handler", k)
    BY <1>5, <2>2 DEF invoke_function, invoke_ws_function, Call, InLoop
  <2> QED
    BY <1>0, <2>1, <2>3, CallStep
<1>6. ASSUME static_file_missing \/ handler_returns PROVE IInv'
  BY <1>0, <1>6, CallStep DEF static_file_missing, handler_returns, Return
<1>7. ASSUME on_signal_cb \/ signal_closed PROVE IInv'
  <2>1. UNCHANGED <<pc, frame, handler, registered, routes_, ws_routes_>> /\ pc = "loop"
        /\ ("closed twice" \in events' => "closed twice" \in events)
    BY <1>7, Zenon DEF on_signal_cb, Interrupt, signal_closed, InLoop
  <2>2. SignalInv'
    BY <1>7, InterruptStep DEF IInv
  <2> QED
    BY <1>0, <2>1, <2>2, HandlersSame, ServersKept, Zenon DEF IInv
<1> QED
  BY <1>1, <1>2, <1>3, <1>4, <1>5, <1>6, <1>7 DEF ServerStep

LEMMA NextIInv == IInv /\ [Next]_vars => IInv'
<1> SUFFICES ASSUME IInv, [Next]_vars PROVE IInv'
  OBVIOUS
<1>1. CASE TimerStep
  <2>1. LoopInv' /\ TimersInv' /\ TimersOnly /\ MarksKept
    BY <1>1, TimerStepInv DEF IInv
  <2>2. HandlersInv' /\ SignalInv'
    BY <2>1, HandlersSame, SignalSame DEF IInv, TimersOnly, servers
  <2> QED
    BY <2>1, <2>2 DEF IInv
<1>2. CASE ServerStep
  BY <1>2, ServerStepInv
<1>3. CASE ScriptEnds
  BY <1>3, CallStep DEF ScriptEnds, Running, Return
<1>4. CASE LoopEnds
  BY <1>4, LoopEndsStep
<1>5. CASE tear_down_runtime_env
  BY <1>5, TearDownStep
<1>6. CASE UNCHANGED vars
  <2>1. UNCHANGED <<loop, timers, servers>>
    BY <1>6 DEF vars
  <2>2. LoopInv' /\ HandlersInv'
    BY <2>1 DEF IInv, LoopInv, HandlersInv, loop, timers, servers
  <2>3. TimersInv'
    BY <2>1, Zenon DEF IInv, TimersInv, TimersShape, Held, Unmade, Interval, Collided, loop, timers
  <2>4. SignalInv'
    BY <2>1 DEF IInv, SignalInv, SignalShape, Started, Counted, Users, Alive, loop, servers
  <2> QED
    BY <2>2, <2>3, <2>4 DEF IInv
<1> QED
  BY <1>1, <1>2, <1>3, <1>4, <1>5, <1>6 DEF Next, Sleep, Over

\* The invariant holds in every behaviour of the process.
THEOREM Invariant == Spec => []IInv
BY InitIInv, NextIInv, PTL DEF Spec

\* A callback that a counting or running timer, or a route, may still call is held,
\* and tear_down_runtime_env gives back every reference, each once: for every
\* number of timers, routes and calls.
THEOREM CallbacksAlwaysHeld == Spec => []CallbacksHeld
<1>1. IInv => CallbacksHeld
  <2> SUFFICES ASSUME IInv PROVE CallbacksHeld
    OBVIOUS
  <2>1. ASSUME pc \in {"js", "loop"}, NEW h \in Handles,
               timer[h].life = "active" \/ Running(Frame("timer", h))
        PROVE  timer[h].refs = 1
    <3>1. Held(h) /\ Unmade(h) /\ h \in Nat /\ made \in Nat
      BY NullIsNoHandle, Zenon DEF IInv, TimersInv, LoopInv
    <3>2. CASE timer[h].life = "active"
      BY <2>1, <3>1, <3>2 DEF Held, Unmade
    <3>3. CASE Running(Frame("timer", h))
      <4>1. h \in 1 .. made
        BY <3>3 DEF IInv, LoopInv, Running, Frame
      <4> QED
        BY <2>1, <3>1, <4>1 DEF Held
    <3> QED
      BY <2>1, <3>2, <3>3
  <2>2. ASSUME pc \in {"js", "loop"}, NEW u \in Uris, NEW k \in {routes_[u], ws_routes_[u]} \ {None},
               handler[k].kind \in {"get", "ws"}
        PROVE  handler[k].refs = 1
    <3>1. k \in Handlers
      BY <2>2, ServerBounds DEF IInv, HandlersInv, Handlers, None
    <3> QED
      BY <2>2, <3>1 DEF IInv, HandlersInv
  <2>3. pc = "end" => (\A h \in Handles : timer[h].refs = 0) /\ (\A k \in Handlers : handler[k].refs = 0)
    BY Zenon DEF IInv, TimersInv, Held, HandlersInv
  <2> QED
    BY <2>1, <2>2, <2>3 DEF CallbacksHeld
<1> QED
  BY <1>1, Invariant, PTL

\* clearInterval stops its interval for good and closes no handle twice, unless
\* generate() gave one identifier to two intervals: for every number of timers.
THEOREM ClearAlwaysStops == Spec => []ClearStops
<1>1. IInv => ClearStops
  <2> SUFFICES ASSUME IInv, ~ Collided PROVE ClearStops
    BY Zenon DEF ClearStops
  <2>1. ASSUME NEW h \in Handles, timer[h].cleared PROVE timer[h].life \in {"closing", "freed"}
    BY <2>1, Zenon DEF IInv, TimersInv, TimersShape, Interval
  <2> QED
    BY <2>1, Zenon DEF ClearStops, IInv, TimersInv
<1> QED
  BY <1>1, Invariant, PTL

\* SignalContext counts the Servers that listen, and its handle is active and open
\* as long as there is one, with the exceptions SignalAccounted names: for every
\* number of Servers.
THEOREM SignalsAccounted == Spec => []SignalAccounted
<1>1. IInv => SignalAccounted
  BY DEF IInv, SignalInv, Started, Counted, SignalAccounted
<1> QED
  BY <1>1, Invariant, PTL

\* The finalizers that run after uv_library_shutdown find no active signal handle,
\* unless it was started again while the loop still had it.
THEOREM NeverLate == Spec => []NoLateCall
<1>1. IInv => NoLateCall
  BY DEF IInv, SignalInv, Started, NoLateCall
<1> QED
  BY <1>1, Invariant, PTL
=============================================================================
