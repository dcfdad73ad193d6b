----------------------------- MODULE FileSystem -----------------------------
(***************************************************************************)
(* The FileSystem object: src/builtins/fs.cc and include/file_system.h.    *)
(* The script and the callbacks run on the main thread.  A request goes    *)
(* through libuv's thread pool: it waits in a queue, a thread takes it,    *)
(* makes the system call, and reports it done; the main thread calls the   *)
(* callbacks in the order of the reports.  The kernel gives an open the    *)
(* lowest free descriptor.                                                 *)
(*                                                                         *)
(* A file is numbered by the call of open that it comes from, a read and   *)
(* the buffer it allocates by the call of read.  The numbers are not in    *)
(* the code.                                                               *)
(*                                                                         *)
(* The script may make any call at any time on a descriptor that it got    *)
(* and has not closed, and may lose the FileSystem at any time.  A step    *)
(* that uses freed memory is the last one: what comes after is undefined.  *)
(***************************************************************************)
EXTENDS Integers, Sequences, FiniteSets, Functions

CONSTANTS
  Threads,    \* threads of libuv's pool
  MaxOpens,   \* how often the script calls open (a bound)
  MaxReads,   \* how often it calls read (a bound)
  Lens        \* the lengths it asks for

ASSUME PoolSize == Threads \in Nat \ {0}
ASSUME Bounds == MaxOpens \in Nat /\ MaxReads \in Nat
ASSUME Lengths == Lens \subseteq Nat \ {0}

Opens == 1 .. MaxOpens
Fds == 1 .. MaxOpens     \* enough descriptors for every open to succeed
NoFile == 0
Failed == -1             \* req->result < 0
Pending == -2            \* the system call has not been made

VARIABLES
  fs,        \* the FileSystem: "alive" or "deleted"
  state,     \* the FileOpState of each open: its life, fd, buf and buf_len
  fd_state,  \* the map of FileSystem
  kernel,    \* which file each descriptor of the process stands for
  wq,        \* requests waiting for a thread
  running,   \* requests in the hands of threads
  done,      \* requests whose callback is due, in the order of completion
  js,        \* per open, the descriptor that the script got and what it did
  awaiting,  \* calls whose callback has not been called: <<open, 0>> for the
             \* open, <<open, n>> for the n-th call of read
  opens, reads,  \* calls so far
  undefined  \* has freed memory been used?

script == <<js, awaiting, opens, reads>>
pool == <<wq, running, done>>
vars == <<fs, state, fd_state, kernel, pool, script, undefined>>

FileOpState(life) == [life |-> life, fd |-> -1, buf |-> 0, buf_len |-> 0]

\* overtook: the callback of open came while a state had the same descriptor;
\* misused: the script closed the file, or read another length, during a read
\* of it.  Both are history.
View(fd, at, overtook) == [fd |-> fd, at |-> at, overtook |-> overtook, misused |-> FALSE]

Init ==
  /\ fs = "alive"
  /\ state = [o \in Opens |-> FileOpState("none")]
  /\ fd_state = [f \in {} |-> NoFile]
  /\ kernel = [f \in Fds |-> NoFile]
  /\ wq = <<>> /\ running = {} /\ done = <<>>
  /\ js = [o \in Opens |-> View(-1, "none", FALSE)]
  /\ awaiting = {} /\ opens = 0 /\ reads = 0
  /\ undefined = FALSE

InFlight == Range(wq) \cup running \cup Range(done)

Reading(o) == \E r \in InFlight : r.op = "read" /\ r.st = o

-----------------------------------------------------------------------------
(* The script's calls.                                                     *)

\* A request for the file of open o, on descriptor fd, handed to the pool; nth
\* tells one read from another.
Submit(op, o, fd, nth, buf) ==
  /\ wq' = Append(wq, [op |-> op, st |-> o, fd |-> fd, nth |-> nth, buf |-> buf,
                       result |-> Pending])
  /\ UNCHANGED <<fs, kernel, running, done, undefined>>

\* open(path, callback): a new FileOpState, which is not in the map yet.
open_file_async ==
  LET o == opens + 1 IN
  /\ fs = "alive" /\ opens < MaxOpens
  /\ opens' = o
  /\ state' = [state EXCEPT ![o] = FileOpState("alive")]
  /\ js' = [js EXCEPT ![o].at = "opening"]
  /\ awaiting' = awaiting \cup {<<o, 0>>}
  /\ Submit("open", o, -1, 0, 0)
  /\ UNCHANGED <<fd_state, reads>>

\* The script uses the descriptor it got from open o.
Uses(o) == fs = "alive" /\ js[o].at = "open"

Known(fd) == fd \in DOMAIN fd_state

\* The buffer of a state for the next read, of len bytes: another length
\* replaces the buffer, whoever is still using the old one.
Buffer(s, len) ==
  IF s.buf = 0 \/ s.buf_len # len THEN [s EXCEPT !.buf = reads + 1, !.buf_len = len] ELSE s

\* read(fd, len, callback)
read_file_async(o, len) ==
  LET fd == js[o].fd  entry == fd_state[fd]  new == Buffer(state[entry], len) IN
  /\ Uses(o) /\ reads < MaxReads
  /\ Known(fd)
  /\ state' = [state EXCEPT ![entry] = new]
  /\ js' = [js EXCEPT ![o].misused = @ \/ (Reading(entry) /\ new # state[entry])]
  /\ reads' = reads + 1
  /\ awaiting' = awaiting \cup {<<o, reads + 1>>}
  /\ Submit("read", entry, fd, reads + 1, new.buf)
  /\ UNCHANGED <<fd_state, opens>>

\* The descriptor is not in the map: a message, and the callback is not called.
read_unknown(o) ==
  /\ Uses(o) /\ reads < MaxReads
  /\ ~ Known(js[o].fd)
  /\ reads' = reads + 1
  /\ awaiting' = awaiting \cup {<<o, reads + 1>>}
  /\ UNCHANGED <<fs, state, fd_state, kernel, pool, js, opens, undefined>>

\* Mutant: close frees the state at once instead of in its callback.
close_deletes_early(o) ==
  LET fd == js[o].fd  entry == fd_state[fd] IN
  /\ Uses(o)
  /\ Known(fd)
  /\ state' = [state EXCEPT ![entry] = FileOpState("deleted")]
  /\ js' = [js EXCEPT ![o].at = "closed", ![o].misused = @ \/ Reading(entry)]
  /\ Submit("close", entry, fd, 0, 0)
  /\ UNCHANGED <<fd_state, awaiting, opens, reads>>

\* close(fd, callback): the callback is ignored, and the entry stays in the map
\* until the request is done.
close_file_async(o) ==
  LET fd == js[o].fd  entry == fd_state[fd] IN
  /\ Uses(o)
  /\ Known(fd)
  /\ js' = [js EXCEPT ![o].at = "closed", ![o].overtook = FALSE,
                     ![o].misused = @ \/ Reading(entry)]
  /\ Submit("close", entry, fd, 0, 0)
  /\ UNCHANGED <<state, fd_state, awaiting, opens, reads>>

\* Nothing is closed if the descriptor is not in the map.
close_unknown(o) ==
  /\ Uses(o)
  /\ ~ Known(js[o].fd)
  /\ js' = [js EXCEPT ![o].at = "closed"]
  /\ UNCHANGED <<fs, state, fd_state, kernel, pool, awaiting, opens, reads, undefined>>

\* The FileSystem becomes unreachable: a request keeps its callback, not the
\* FileSystem.  The states stay.
fs_finalizer ==
  /\ fs = "alive"
  /\ fs' = "deleted"
  /\ UNCHANGED <<state, fd_state, kernel, pool, script, undefined>>

-----------------------------------------------------------------------------
(* The threads and the kernel.                                             *)

Take ==
  /\ wq # <<>> /\ Cardinality(running) < Threads
  /\ wq' = Tail(wq)
  /\ running' = running \cup {Head(wq)}
  /\ UNCHANGED <<fs, state, fd_state, kernel, done, script, undefined>>

\* The thread's system call returns res and leaves the descriptors as table.
SysCall(r, res, table) ==
  /\ r.result = Pending
  /\ running' = (running \ {r}) \cup {[r EXCEPT !.result = res]}
  /\ kernel' = table
  /\ UNCHANGED <<fs, state, fd_state, wq, done, script, undefined>>

LowestFree(f) == kernel[f] = NoFile /\ \A g \in 1 .. f - 1 : kernel[g] # NoFile

sys_open(r) ==
  /\ r.op = "open"
  /\ \/ \E f \in Fds : LowestFree(f) /\ SysCall(r, f, [kernel EXCEPT ![f] = r.st])
     \/ SysCall(r, Failed, kernel)

UseAfterFree ==
  undefined' = TRUE /\ UNCHANGED <<fs, state, fd_state, kernel, pool, script>>

\* The buffer of a read is no longer that of its state: replaced, or freed with
\* the state.
Gone(r) == state[r.st].buf # r.buf

\* A read of a descriptor of another file returns that file's bytes.
sys_read(r) ==
  /\ r.op = "read"
  /\ \/ SysCall(r, Failed, kernel)
     \/ kernel[r.fd] # NoFile /\ ~ Gone(r) /\ SysCall(r, kernel[r.fd], kernel)
     \/ kernel[r.fd] # NoFile /\ Gone(r) /\ r.result = Pending /\ UseAfterFree

sys_close(r) ==
  /\ r.op = "close"
  /\ SysCall(r, NoFile, [kernel EXCEPT ![r.fd] = NoFile])

\* The thread puts the request on the list of those that are done.
Complete(r) ==
  /\ r.result # Pending
  /\ running' = running \ {r}
  /\ done' = Append(done, r)
  /\ UNCHANGED <<fs, state, fd_state, kernel, wq, script, undefined>>

-----------------------------------------------------------------------------
(* The callbacks, on the main thread.                                      *)

\* What the callback of r would use has been freed: the FileSystem, by the owner
\* pointer, or the state or buffer of a read.
Freed(r) ==
  \/ r.op # "read" /\ r.result # Failed /\ fs = "deleted"
  \/ r.op = "read" /\ (state[r.st].life = "deleted" \/ (r.result # Failed /\ Gone(r)))

Due(op) ==
  /\ done # <<>> /\ Head(done).op = op /\ ~ Freed(Head(done))
  /\ done' = Tail(done)
  /\ UNCHANGED <<fs, kernel, wq, running, opens, reads, undefined>>

CalledBack(r) == awaiting' = awaiting \ {<<r.st, r.nth>>}

\* A callback of the loop that uses freed memory.
late_cb == done # <<>> /\ Freed(Head(done)) /\ UseAfterFree

With(map, fd, o) == [f \in DOMAIN map \cup {fd} |-> IF f = fd THEN o ELSE map[f]]

\* A state has this descriptor: the callback of its close is still to come.
Taken(fd) == \E p \in Opens : state[p].life = "alive" /\ state[p].fd = fd

\* Mutant: an entry already under that descriptor is kept.
open_cb_stale ==
  LET r == Head(done) IN
  /\ Due("open") /\ CalledBack(r)
  /\ state' = [state EXCEPT ![r.st].fd = r.result]
  /\ fd_state' = IF r.result = Failed \/ Known(r.result) THEN fd_state
                 ELSE With(fd_state, r.result, r.st)
  /\ js' = [js EXCEPT ![r.st] = View(r.result, IF r.result = Failed THEN "failed" ELSE "open",
                                     Taken(r.result))]

\* The state enters the map under its descriptor, and the callback is called.
\* After a failure the state is nobody's.
open_file_async_cb ==
  LET r == Head(done) IN
  /\ Due("open") /\ CalledBack(r)
  /\ IF r.result = Failed
     THEN /\ js' = [js EXCEPT ![r.st].at = "failed"]
          /\ UNCHANGED <<state, fd_state>>
     ELSE /\ state' = [state EXCEPT ![r.st].fd = r.result]
          /\ fd_state' = With(fd_state, r.result, r.st)
          /\ js' = [js EXCEPT ![r.st] = View(r.result, "open", Taken(r.result))]

\* Mutant: the callback is not called after a failure.
read_cb_silent ==
  LET r == Head(done) IN
  /\ Due("read")
  /\ IF r.result = Failed THEN UNCHANGED awaiting ELSE CalledBack(r)
  /\ UNCHANGED <<state, fd_state, js>>

\* Mutant: a failed read gives the file up.
read_cb_erases ==
  LET r == Head(done) IN
  /\ Due("read") /\ CalledBack(r)
  /\ fd_state' = IF r.result = Failed THEN Restrict(fd_state, DOMAIN fd_state \ {r.fd}) ELSE fd_state
  /\ UNCHANGED <<state, js>>

\* The callback is called with the bytes in the state's buffer.
read_file_async_cb ==
  /\ Due("read") /\ CalledBack(Head(done))
  /\ UNCHANGED <<state, fd_state, js>>

\* Mutant: the state is not deleted.
close_cb_leaks ==
  /\ Due("close")
  /\ fd_state' = Restrict(fd_state, DOMAIN fd_state \ {state[Head(done).st].fd})
  /\ UNCHANGED <<state, js, awaiting>>

\* The entry under the state's descriptor is erased, and the state deleted.
close_file_async_cb ==
  LET o == Head(done).st IN
  /\ Due("close")
  /\ fd_state' = Restrict(fd_state, DOMAIN fd_state \ {state[o].fd})
  /\ state' = [state EXCEPT ![o] = FileOpState("deleted")]
  /\ UNCHANGED <<js, awaiting>>

-----------------------------------------------------------------------------
Calls ==
  \/ open_file_async
  \/ \E o \in Opens :
       \/ \E len \in Lens : read_file_async(o, len)
       \/ read_unknown(o) \/ close_file_async(o) \/ close_unknown(o)
  \/ fs_finalizer

Kernel(r) == sys_open(r) \/ sys_read(r) \/ sys_close(r)

Callback == open_file_async_cb \/ read_file_async_cb \/ close_file_async_cb \/ late_cb

Step ==
  \/ Calls
  \/ Take
  \/ \E r \in running : Kernel(r) \/ Complete(r)
  \/ Callback

\* No request is left and the script may stop here, or nothing is known any more.
Quiet == (InFlight = {} \/ undefined) /\ UNCHANGED vars

Next == (~ undefined /\ Step) \/ Quiet

Spec == Init /\ [][Next]_vars

\* Threads run, system calls return, and the loop serves what is done.  Nothing
\* is assumed of the script.
FairSpec ==
  /\ Spec
  /\ WF_vars(~ undefined /\ Take)
  /\ WF_vars(~ undefined /\ \E r \in running : Kernel(r) \/ Complete(r))
  /\ WF_vars(~ undefined /\ Callback)

-----------------------------------------------------------------------------
\* A file that is neither closed nor read with another length during a read of
\* it keeps the state and the buffer of its requests, whatever happens to other
\* files and descriptors; and freed memory is used only for a file that was, or
\* by an open or a close that was in flight when the FileSystem was collected.
LiveRequests ==
  /\ \A r \in InFlight : ~ js[r.st].misused =>
       state[r.st].life = "alive" /\ (r.op = "read" => ~ Gone(r))
  /\ undefined =>
       \E r \in InFlight : js[r.st].misused \/ (r.op # "read" /\ fs = "deleted")

\* A read returns the bytes of the file that its script opened, however the
\* descriptor has been reused before, unless the script closed it meanwhile.
RightFile ==
  \A r \in InFlight : (r.op = "read" /\ r.result \notin {Pending, Failed}) =>
    r.result = r.st \/ js[r.st].misused

\* A descriptor that the script got and has not closed is known to read and
\* close, and stands for its file there, unless the kernel had given out the
\* number again before the callback of the close that freed it: that callback
\* then erases the new entry.
FdKnown ==
  \A o \in Opens : js[o].at = "open" =>
    \/ Known(js[o].fd) /\ fd_state[js[o].fd] = o
    \/ js[o].overtook

\* What the script closes is closed: the descriptor is the file's no longer and
\* its state is deleted, unless the map refused the descriptor as above.
CloseFinishes ==
  \A o \in Opens : (js[o].at = "closed") ~>
    \/ state[o].life = "deleted" /\ \A f \in Fds : kernel[f] # o
    \/ js[o].overtook
    \/ undefined

\* Every open and every read calls back, after a failure too, except a read of a
\* descriptor that the map has lost as above: it returns without a word to the
\* script (and close never calls the callback it is given).
CallbackCalled ==
  \A o \in Opens : \A n \in 0 .. MaxReads : (<<o, n>> \in awaiting) ~>
    \/ <<o, n>> \notin awaiting
    \/ js[o].overtook
    \/ undefined
=============================================================================
