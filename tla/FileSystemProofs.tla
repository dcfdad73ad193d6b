------------------------- MODULE FileSystemProofs -------------------------
(***************************************************************************)
(* Proofs about FileSystem, for every number of threads, opens and reads,  *)
(* every set of lengths and every order of the script's calls.             *)
(*                                                                         *)
(* The invariant has three parts.  PoolOK says where requests are: each in *)
(* one place, and no two with the same key.  FileOK says, of the set       *)
(* InFlight alone, what a request, an entry of the map and the script's    *)
(* view of a file imply about each other; of the reads of a file that was  *)
(* misused it says nothing.  UsedOK says what freed memory was used for.   *)
(* The lemmas on the pool tell how each step changes InFlight, so that     *)
(* those on files never look at the queues.                                *)
(***************************************************************************)
EXTENDS FileSystem, TLAPS

Request ==
  [op : {"open", "read", "close"}, st : Opens, fd : Fds \cup {-1}, nth : Nat,
   buf : Nat, result : Int]

FileState ==
  [life : {"none", "alive", "deleted"}, fd : Fds \cup {-1}, buf : Nat, buf_len : Nat]

FileView ==
  [fd : Fds \cup {-1}, overtook : BOOLEAN, misused : BOOLEAN,
   at : {"none", "opening", "open", "closed", "failed"}]

TypeOK ==
  /\ fs \in {"alive", "deleted"}
  /\ state \in [Opens -> FileState]
  /\ DOMAIN fd_state \subseteq Fds
  /\ fd_state \in [DOMAIN fd_state -> Opens]
  /\ kernel \in [Fds -> Opens \cup {NoFile}]
  /\ wq \in Seq(Request) /\ running \subseteq Request /\ done \in Seq(Request)
  /\ js \in [Opens -> FileView]
  /\ opens \in 0 .. MaxOpens /\ reads \in Nat

\* A file has one open and one close; reads are numbered.
Key(r) == <<r.op, r.st, r.nth>>

\* The requests of a sequence, or of a set, have different keys.
Distinct(s) == \A i, j \in 1 .. Len(s) : Key(s[i]) = Key(s[j]) => i = j

Unique(R) == \A r, q \in R : Key(r) = Key(q) => r = q

\* Two sequences, or a set and a sequence, have no key in common.
Apart(s, t) == \A i \in 1 .. Len(s) : \A j \in 1 .. Len(t) : Key(s[i]) # Key(t[j])

Away(R, s) == \A r \in R : \A i \in 1 .. Len(s) : Key(r) # Key(s[i])

Answered(s) == \A i \in 1 .. Len(s) : s[i].result # Pending

\* No two requests have the same key; those done have their result.
PoolOK ==
  /\ Distinct(wq) /\ Unique(running) /\ Distinct(done)
  /\ Away(running, wq) /\ Away(running, done) /\ Apart(wq, done)
  /\ Answered(done)

Closing(o) == \E r \in InFlight : r.op = "close" /\ r.st = o

OpenOK(r) ==
  r.op = "open" =>
    /\ js[r.st].at = "opening" /\ state[r.st].fd = -1 /\ state[r.st].life = "alive"
    /\ r.nth = 0
    /\ r.result \in Fds \cup {Pending, Failed}
    /\ r.result \in Fds => kernel[r.result] = r.st

ReadOK(r) ==
  r.op = "read" =>
    /\ js[r.st].at \in {"open", "closed"} /\ r.nth <= reads /\ r.fd \in Fds
    /\ ~ js[r.st].misused =>
         /\ state[r.st].life = "alive" /\ state[r.st].buf = r.buf
         /\ kernel[r.fd] = r.st /\ ~ Closing(r.st)
         /\ r.result \in {Pending, Failed, r.st}

CloseOK(r) ==
  r.op = "close" =>
    /\ js[r.st].at = "closed" /\ state[r.st].life = "alive"
    /\ r.nth = 0
    /\ r.fd \in Fds /\ state[r.st].fd = r.fd
    /\ r.result = Pending => kernel[r.fd] = r.st

\* A request finds its memory, and the file as its script left it, unless it is a
\* read of a file that was misused.
RequestOK(r) == OpenOK(r) /\ ReadOK(r) /\ CloseOK(r)

\* Another state than o's has this descriptor.
Shared(o, fd) == \E p \in Opens : p # o /\ state[p].life = "alive" /\ state[p].fd = fd

\* A file the script holds open is what the kernel has under its descriptor and,
\* if anything, what the map has; and the map has it unless it was overtaken.
HeldOK(o) ==
  js[o].at = "open" =>
    /\ js[o].fd \in Fds
    /\ state[o].life = "alive" /\ state[o].fd = js[o].fd
    /\ kernel[js[o].fd] = o
    /\ Known(js[o].fd) => fd_state[js[o].fd] = o
    /\ js[o].overtook \/ (Known(js[o].fd) /\ ~ Shared(o, js[o].fd))

\* An entry of the map is a live state with that descriptor, and the descriptor
\* is that file's until a close of it takes effect.
EntryOK(f) ==
  /\ state[fd_state[f]].life = "alive" /\ state[fd_state[f]].fd = f
  /\ kernel[f] = fd_state[f] \/ Closing(fd_state[f])

FreshOK(o) == o > opens => js[o].at = "none" /\ state[o].life = "none"

FileOK ==
  /\ \A r \in InFlight : RequestOK(r)
  /\ \A o \in Opens : HeldOK(o)
  /\ \A f \in DOMAIN fd_state : EntryOK(f)
  /\ \A o \in Opens : FreshOK(o)

UsedOK ==
  undefined => \E r \in InFlight : js[r.st].misused \/ (r.op # "read" /\ fs = "deleted")

IInv == TypeOK /\ PoolOK /\ FileOK

-----------------------------------------------------------------------------
(* The pool.                                                               *)

\* The elements of the sequences that the pool is made of.
LEMMA RangeAppend ==
  ASSUME NEW S, NEW s \in Seq(S), NEW e \in S
  PROVE  /\ Append(s, e) \in Seq(S)
         /\ Len(Append(s, e)) = Len(s) + 1
         /\ \A i \in 1 .. Len(s) : Append(s, e)[i] = s[i]
         /\ Append(s, e)[Len(s) + 1] = e
         /\ Range(Append(s, e)) = Range(s) \cup {e}
<1>1. /\ Append(s, e) \in Seq(S)
      /\ Len(Append(s, e)) = Len(s) + 1
      /\ \A i \in 1 .. Len(s) : Append(s, e)[i] = s[i]
      /\ Append(s, e)[Len(s) + 1] = e
      /\ Len(s) \in Nat
      /\ DOMAIN s = 1 .. Len(s) /\ DOMAIN Append(s, e) = 1 .. Len(s) + 1
  OBVIOUS
<1>2. 1 .. Len(s) + 1 = (1 .. Len(s)) \cup {Len(s) + 1}
  BY <1>1
<1>3. ASSUME NEW x \in Range(Append(s, e))
      PROVE  x \in Range(s) \cup {e}
  <2>1. PICK i \in (1 .. Len(s)) \cup {Len(s) + 1} : Append(s, e)[i] = x
    BY <1>1, <1>2, Zenon DEF Range
  <2> QED
    BY <2>1, <1>1, Zenon DEF Range
<1>4. \A x \in Range(s) : x \in Range(Append(s, e))
  BY <1>1, <1>2, Zenon DEF Range
<1>5. e \in Range(Append(s, e))
  BY <1>1, <1>2, Zenon DEF Range
<1>6. Range(Append(s, e)) = Range(s) \cup {e}
  BY <1>3, <1>4, <1>5, Zenon
<1> QED
  BY <1>1, <1>6, Zenon

LEMMA RangeTail ==
  ASSUME NEW S, NEW s \in Seq(S), s # <<>>
  PROVE  /\ Tail(s) \in Seq(S) /\ Head(s) \in S /\ Head(s) = s[1]
         /\ Len(s) >= 1 /\ Len(Tail(s)) = Len(s) - 1
         /\ \A i \in 1 .. Len(s) - 1 : Tail(s)[i] = s[i + 1]
         /\ Range(s) = Range(Tail(s)) \cup {Head(s)}
         /\ \A x \in Range(Tail(s)) : \E i \in 1 .. Len(s) : i # 1 /\ s[i] = x
<1>1. /\ Tail(s) \in Seq(S) /\ Head(s) \in S /\ Head(s) = s[1]
      /\ Len(s) \in Nat /\ Len(s) >= 1 /\ Len(Tail(s)) = Len(s) - 1
      /\ \A i \in 1 .. Len(s) - 1 : Tail(s)[i] = s[i + 1]
      /\ DOMAIN s = 1 .. Len(s) /\ DOMAIN Tail(s) = 1 .. Len(s) - 1
  OBVIOUS
<1>2. ASSUME NEW x \in Range(Tail(s))
      PROVE  \E i \in 1 .. Len(s) : i # 1 /\ s[i] = x
  <2>1. PICK k \in 1 .. Len(s) - 1 : Tail(s)[k] = x
    BY <1>1, Zenon DEF Range
  <2>2. k + 1 \in 1 .. Len(s) /\ k + 1 # 1 /\ s[k + 1] = x
    BY <1>1, <2>1
  <2> QED
    BY <2>2, Zenon
<1>3. ASSUME NEW x \in Range(s)
      PROVE  x \in Range(Tail(s)) \cup {Head(s)}
  <2>1. PICK i \in 1 .. Len(s) : s[i] = x
    BY <1>1, Zenon DEF Range
  <2>2. CASE i = 1
    BY <2>1, <2>2, <1>1, Zenon
  <2>3. CASE i # 1
    <3>1. i - 1 \in 1 .. Len(s) - 1 /\ Tail(s)[i - 1] = x
      BY <2>1, <2>3, <1>1
    <3> QED
      BY <3>1, <1>1, Zenon DEF Range
  <2> QED
    BY <2>2, <2>3, Zenon
<1>4. Head(s) \in Range(s)
  <2>1. 1 \in DOMAIN s /\ s[1] = Head(s)
    BY <1>1
  <2> QED
    BY <2>1, Zenon DEF Range
<1>5. \A x \in Range(Tail(s)) : x \in Range(s)
  BY <1>1, <1>2, Zenon DEF Range
<1>6. Range(s) = Range(Tail(s)) \cup {Head(s)}
  BY <1>3, <1>4, <1>5, Zenon
<1> QED
  BY <1>1, <1>2, <1>6, Zenon

LEMMA InFlightMembers ==
  ASSUME TypeOK
  PROVE  /\ \A i \in 1 .. Len(wq) : wq[i] \in Request /\ wq[i] \in InFlight
         /\ \A r \in running : r \in Request /\ r \in InFlight
         /\ \A j \in 1 .. Len(done) : done[j] \in Request /\ done[j] \in InFlight
         /\ \A r \in InFlight : \/ \E i \in 1 .. Len(wq) : r = wq[i]
                               \/ r \in running
                               \/ \E j \in 1 .. Len(done) : r = done[j]
         /\ InFlight \subseteq Request
<1>1. /\ DOMAIN wq = 1 .. Len(wq) /\ \A i \in 1 .. Len(wq) : wq[i] \in Request
      /\ DOMAIN done = 1 .. Len(done) /\ \A i \in 1 .. Len(done) : done[i] \in Request
      /\ running \subseteq Request
  BY DEF TypeOK
<1> QED
  BY <1>1, Zenon DEF InFlight, Range

\* A key tells a request.
LEMMA OneEach ==
  ASSUME TypeOK, PoolOK
  PROVE  \A r, q \in InFlight : Key(r) = Key(q) => r = q
BY InFlightMembers DEF PoolOK, Distinct, Unique, Apart, Away

LEMMA SubmitPool ==
  ASSUME TypeOK, PoolOK, NEW r \in Request,
         wq' = Append(wq, r), running' = running, done' = done,
         \A q \in InFlight : Key(q) # Key(r)
  PROVE  PoolOK' /\ InFlight' = InFlight \cup {r} /\ wq' \in Seq(Request)
<1>1. /\ wq' \in Seq(Request) /\ Len(wq') = Len(wq) + 1 /\ Len(wq) \in Nat
      /\ \A i \in 1 .. Len(wq) : wq'[i] = wq[i]
      /\ wq'[Len(wq) + 1] = r
      /\ Range(wq') = Range(wq) \cup {r}
  BY RangeAppend DEF TypeOK
<1>2. 1 .. Len(wq') = (1 .. Len(wq)) \cup {Len(wq) + 1}
  BY <1>1
<1>3. InFlight' = InFlight \cup {r}
  BY <1>1, Zenon DEF InFlight
<1>4. \A i \in 1 .. Len(wq) : Key(wq[i]) # Key(r)
  BY InFlightMembers, Zenon
<1>5. \A q \in running : Key(q) # Key(r)
  BY InFlightMembers, Zenon
<1>6. \A j \in 1 .. Len(done) : Key(done[j]) # Key(r)
  BY InFlightMembers, Zenon
<1>7. Distinct(wq')
  BY <1>1, <1>2, <1>4 DEF PoolOK, Distinct
<1>8. Away(running, wq')
  BY <1>1, <1>2, <1>5 DEF PoolOK, Away
<1>9. Apart(wq', done)
  BY <1>1, <1>2, <1>6 DEF PoolOK, Apart
<1>10. PoolOK'
  BY <1>7, <1>8, <1>9, Zenon DEF PoolOK
<1> QED
  BY <1>1, <1>3, <1>10, Zenon

LEMMA TakePool ==
  ASSUME TypeOK, PoolOK, Take
  PROVE  PoolOK' /\ InFlight' = InFlight /\ wq' \in Seq(Request) /\ running' \subseteq Request
<1>1. /\ wq' \in Seq(Request) /\ Head(wq) \in Request /\ Head(wq) = wq[1]
      /\ Len(wq) \in Nat /\ Len(wq) >= 1 /\ Len(wq') = Len(wq) - 1
      /\ \A i \in 1 .. Len(wq) - 1 : wq'[i] = wq[i + 1]
      /\ Range(wq) = Range(wq') \cup {Head(wq)}
  BY RangeTail DEF TypeOK, Take
<1>2. running' = running \cup {Head(wq)} /\ done' = done
  BY Zenon DEF Take
<1>3. InFlight' = InFlight
  BY <1>1, <1>2, Zenon DEF InFlight
<1>4. \A i \in 1 .. Len(wq') : i + 1 \in 1 .. Len(wq) /\ i + 1 # 1 /\ wq'[i] = wq[i + 1]
  BY <1>1
<1>5. 1 \in 1 .. Len(wq)
  BY <1>1
<1>6. ASSUME NEW i \in 1 .. Len(wq'), NEW j \in 1 .. Len(wq'), Key(wq'[i]) = Key(wq'[j])
      PROVE  i + 1 = j + 1
  <2>1. /\ i + 1 \in 1 .. Len(wq) /\ wq'[i] = wq[i + 1]
        /\ j + 1 \in 1 .. Len(wq) /\ wq'[j] = wq[j + 1]
    BY <1>4, Zenon
  <2>2. Key(wq[i + 1]) = Key(wq[j + 1])
    BY <1>6, <2>1, Zenon
  <2> QED
    BY <2>1, <2>2, Zenon DEF PoolOK, Distinct
<1>7. \A i, j \in 1 .. Len(wq') : i + 1 = j + 1 => i = j
  BY <1>1
<1>8. Unique(running')
  BY <1>1, <1>2, <1>5 DEF PoolOK, Unique, Away
<1>9. Away(running', wq')
  BY <1>1, <1>2, <1>4, <1>5 DEF PoolOK, Distinct, Away
<1>10. Apart(wq', done)
  BY <1>4 DEF PoolOK, Apart
<1>11. ASSUME NEW r \in running', NEW j \in 1 .. Len(done)
       PROVE  Key(r) # Key(done[j])
  <2>1. CASE r \in running
    BY <2>1, Zenon DEF PoolOK, Away
  <2>2. CASE r = wq[1]
    BY <2>2, <1>5, Zenon DEF PoolOK, Apart
  <2> QED
    BY <2>1, <2>2, <1>1, <1>2, Zenon
<1>12. Distinct(wq') /\ Away(running', done)
  BY <1>6, <1>7, <1>11, Zenon DEF Distinct, Away
<1>13. PoolOK'
  BY <1>2, <1>8, <1>9, <1>10, <1>12, Zenon DEF PoolOK
<1> QED
  BY <1>1, <1>2, <1>3, <1>13, Zenon DEF TypeOK

\* A system call replaces a request by the same one with its result.
LEMMA SysCallPool ==
  ASSUME TypeOK, PoolOK, NEW r \in running, NEW res \in Int, NEW table,
         SysCall(r, res, table)
  PROVE  /\ PoolOK' /\ running' \subseteq Request
         /\ InFlight' = (InFlight \ {r}) \cup {[r EXCEPT !.result = res]}
         /\ [r EXCEPT !.result = res] \in Request
<1> DEFINE q == [r EXCEPT !.result = res]
<1>1. r \in Request /\ q \in Request /\ Key(q) = Key(r)
  BY Zenon DEF TypeOK, Request, Key
<1>2. running' = (running \ {r}) \cup {q} /\ wq' = wq /\ done' = done
  BY Zenon DEF SysCall
<1> HIDE DEF q
<1>3. r \notin Range(wq) /\ r \notin Range(done)
  <2>1. DOMAIN wq = 1 .. Len(wq) /\ DOMAIN done = 1 .. Len(done)
    BY DEF TypeOK
  <2> QED
    BY <2>1, Zenon DEF PoolOK, Away, Range
<1>4. InFlight' = (InFlight \ {r}) \cup {q}
  BY <1>2, <1>3, Zenon DEF InFlight
<1>5. PoolOK'
  BY <1>1, <1>2 DEF PoolOK, Unique, Away
<1> QED
  BY <1>1, <1>2, <1>4, <1>5, Zenon DEF TypeOK, q

LEMMA CompletePool ==
  ASSUME TypeOK, PoolOK, NEW r \in running, Complete(r)
  PROVE  /\ PoolOK' /\ InFlight' = InFlight
         /\ done' \in Seq(Request) /\ running' \subseteq Request
<1>1. r \in Request /\ r.result # Pending
  BY Zenon DEF TypeOK, Complete
<1>2. /\ done' \in Seq(Request) /\ Len(done') = Len(done) + 1 /\ Len(done) \in Nat
      /\ \A i \in 1 .. Len(done) : done'[i] = done[i]
      /\ done'[Len(done) + 1] = r
      /\ Range(done') = Range(done) \cup {r}
  BY <1>1, RangeAppend DEF TypeOK, Complete
<1>3. running' = running \ {r} /\ wq' = wq
  BY Zenon DEF Complete
<1>4. 1 .. Len(done') = (1 .. Len(done)) \cup {Len(done) + 1}
  BY <1>2
<1>5. InFlight' = InFlight
  BY <1>2, <1>3, Zenon DEF InFlight
<1>6. Distinct(done')
  BY <1>2, <1>4 DEF PoolOK, Distinct, Away
<1>7. Unique(running') /\ Away(running', done') /\ Away(running', wq)
  BY <1>2, <1>3, <1>4 DEF PoolOK, Unique, Away
<1>8. Apart(wq, done')
  BY <1>2, <1>4, Zenon DEF PoolOK, Away, Apart
<1>9. Answered(done')
  BY <1>1, <1>2, <1>4, Zenon DEF PoolOK, Answered
<1>10. PoolOK'
  BY <1>3, <1>6, <1>7, <1>8, <1>9, Zenon DEF PoolOK
<1> QED
  BY <1>2, <1>3, <1>5, <1>10, Zenon DEF TypeOK

LEMMA DuePool ==
  ASSUME TypeOK, PoolOK, NEW op, Due(op)
  PROVE  /\ PoolOK' /\ InFlight' = InFlight \ {Head(done)}
         /\ Head(done) \in InFlight /\ Head(done) \in Request
         /\ Head(done).op = op /\ Head(done).result # Pending
         /\ done' \in Seq(Request)
<1>1. /\ done' \in Seq(Request) /\ Head(done) \in Request /\ Head(done) = done[1]
      /\ Len(done) \in Nat /\ Len(done) >= 1 /\ Len(done') = Len(done) - 1
      /\ \A i \in 1 .. Len(done) - 1 : done'[i] = done[i + 1]
      /\ Range(done) = Range(done') \cup {Head(done)}
      /\ \A x \in Range(done') : \E i \in 1 .. Len(done) : i # 1 /\ done[i] = x
  BY RangeTail DEF TypeOK, Due
<1>2. running' = running /\ wq' = wq /\ Head(done).op = op
  BY Zenon DEF Due
<1>3. 1 \in 1 .. Len(done)
  BY <1>1
<1>4. ASSUME Head(done) \in Range(done') PROVE FALSE
  <2>1. PICK i \in 1 .. Len(done) : i # 1 /\ done[i] = done[1]
    BY <1>1, <1>4, Zenon
  <2> QED
    BY <2>1, <1>3, Zenon DEF PoolOK, Distinct
<1>5. Head(done) \notin running /\ Head(done) \notin Range(wq)
  <2>1. DOMAIN wq = 1 .. Len(wq)
    BY DEF TypeOK
  <2> QED
    BY <2>1, <1>1, <1>3 DEF PoolOK, Away, Apart, Range
<1>6. InFlight' = InFlight \ {Head(done)} /\ Head(done) \in InFlight
  BY <1>1, <1>2, <1>4, <1>5, Zenon DEF InFlight
<1>7. Head(done).result # Pending
  BY <1>1, <1>3, Zenon DEF PoolOK, Answered
<1>8. \A i \in 1 .. Len(done') : i + 1 \in 1 .. Len(done) /\ done'[i] = done[i + 1]
  BY <1>1
<1>9. ASSUME NEW i \in 1 .. Len(done'), NEW j \in 1 .. Len(done'), Key(done'[i]) = Key(done'[j])
      PROVE  i + 1 = j + 1
  <2>1. /\ i + 1 \in 1 .. Len(done) /\ done'[i] = done[i + 1]
        /\ j + 1 \in 1 .. Len(done) /\ done'[j] = done[j + 1]
    BY <1>8, Zenon
  <2>2. Key(done[i + 1]) = Key(done[j + 1])
    BY <1>9, <2>1, Zenon
  <2> QED
    BY <2>1, <2>2, Zenon DEF PoolOK, Distinct
<1>10. \A i, j \in 1 .. Len(done') : i + 1 = j + 1 => i = j
  BY <1>1
<1>11. Distinct(done')
  BY <1>9, <1>10, Zenon DEF Distinct
<1>12. Apart(wq, done') /\ Away(running, done') /\ Answered(done')
  BY <1>8, ZenonT(40) DEF PoolOK, Apart, Away, Answered
<1>13. PoolOK'
  BY <1>2, <1>11, <1>12, Zenon DEF PoolOK
<1> QED
  BY <1>1, <1>2, <1>6, <1>7, <1>13, Zenon

-----------------------------------------------------------------------------
(* The script's calls.                                                     *)

LEMMA NewStateType ==
  FileOpState("alive") \in FileState /\ FileOpState("deleted") \in FileState
BY Zenon DEF FileOpState, FileState

LEMMA ViewType ==
  ASSUME NEW v \in FileView, NEW at \in {"none", "opening", "open", "closed", "failed"}
  PROVE  [v EXCEPT !.at = at] \in FileView
BY Zenon DEF FileView

LEMMA OpenStep ==
  ASSUME IInv, open_file_async
  PROVE  IInv'
<1> DEFINE o == opens + 1
           r == [op |-> "open", st |-> o, fd |-> -1, nth |-> 0, buf |-> 0, result |-> Pending]
<1> USE DEF IInv
<1>1. /\ o \in Opens /\ o \in Nat /\ opens \in Nat /\ fs' = fs /\ opens' = o
      /\ state' = [state EXCEPT ![o] = FileOpState("alive")]
      /\ js' = [js EXCEPT ![o].at = "opening"]
      /\ wq' = Append(wq, r)
      /\ UNCHANGED <<fd_state, kernel, running, done, reads>>
  BY Bounds DEF open_file_async, Submit, TypeOK, Opens
<1>2. r \in Request
  BY <1>1 DEF Request, Pending
<1>3. r.st = o /\ r.op = "open" /\ r.result = Pending /\ r.nth = 0
  BY Zenon
<1>4. js[o].at = "none" /\ state[o].life = "none"
  BY <1>1 DEF FileOK, FreshOK
<1>5. \A q \in InFlight : q.st # o
  <2>1. SUFFICES ASSUME NEW q \in InFlight, q.st = o
                 PROVE  FALSE
    BY Zenon
  <2>2. RequestOK(q) /\ q.op \in {"open", "read", "close"}
    BY InFlightMembers, Zenon DEF FileOK, Request
  <2> QED
    BY <1>4, <2>1, <2>2, Zenon DEF RequestOK, OpenOK, ReadOK, CloseOK
<1>14. \A q \in InFlight : Key(q) # Key(r)
  BY <1>3, <1>5, Zenon DEF Key
<1> HIDE DEF r
<1>6. PoolOK' /\ InFlight' = InFlight \cup {r} /\ wq' \in Seq(Request)
  BY <1>1, <1>2, <1>14, SubmitPool, Zenon
<1>7. /\ state'[o] = [life |-> "alive", fd |-> -1, buf |-> 0, buf_len |-> 0]
      /\ \A p \in Opens : p # o => state'[p] = state[p]
      /\ js'[o].at = "opening"
      /\ \A p \in Opens : p # o => js'[p] = js[p]
  BY <1>1, Zenon DEF TypeOK, FileOpState, FileView
<1>8. TypeOK'
  <2>1. state' \in [Opens -> FileState]
    BY <1>1, NewStateType, Zenon DEF TypeOK
  <2>2. js' \in [Opens -> FileView]
    BY <1>1, ViewType, Zenon DEF TypeOK
  <2>3. opens' \in 0 .. MaxOpens
    BY <1>1 DEF Opens
  <2> QED
    BY <1>1, <1>6, <2>1, <2>2, <2>3, Zenon DEF TypeOK
<1>9. \A q \in InFlight : q.st \in Opens
  BY InFlightMembers, Zenon DEF Request
<1>10. ASSUME NEW q \in InFlight' PROVE RequestOK(q)'
  <2>1. CASE q = r
    BY <2>1, <1>1, <1>3, <1>7 DEF RequestOK, OpenOK, ReadOK, CloseOK, Pending, Fds
  <2>2. CASE q \in InFlight
    <3>1. RequestOK(q) /\ q.st \in Opens /\ q.st # o
      BY <2>2, <1>5, <1>9, Zenon DEF FileOK
    <3>2. Closing(q.st)' <=> Closing(q.st)
      BY <1>3, <1>6, Zenon DEF Closing
    <3> QED
      BY <3>1, <3>2, <1>1, <1>7, Zenon DEF RequestOK, OpenOK, ReadOK, CloseOK
  <2> QED
    BY <1>6, <2>1, <2>2, Zenon
<1>11. ASSUME NEW p \in Opens PROVE HeldOK(p)'
  BY <1>1, <1>4, <1>7 DEF FileOK, HeldOK, Known, Shared, Fds
<1>12. ASSUME NEW f \in DOMAIN fd_state' PROVE EntryOK(f)'
  <2>1. EntryOK(f) /\ fd_state[f] \in Opens /\ fd_state[f] # o
    BY <1>1, <1>4, Zenon DEF FileOK, EntryOK, TypeOK
  <2> QED
    BY <2>1, <1>1, <1>6, <1>7, Zenon DEF EntryOK, Closing
<1>13. ASSUME NEW p \in Opens PROVE FreshOK(p)'
  BY <1>1, <1>7 DEF FileOK, FreshOK, Opens
<1> QED
  BY <1>6, <1>8, <1>10, <1>11, <1>12, <1>13, Zenon DEF FileOK

\* A descriptor that the script may use has only reads in flight, and the map
\* has its own file under it or nothing.
LEMMA UsedFile ==
  ASSUME IInv, NEW o \in Opens, Uses(o)
  PROVE  /\ js[o].at = "open" /\ js[o].fd \in Fds
         /\ state[o].life = "alive" /\ state[o].fd = js[o].fd /\ kernel[js[o].fd] = o
         /\ Known(js[o].fd) => fd_state[js[o].fd] = o
         /\ \A q \in InFlight : q.st = o => q.op = "read"
         /\ ~ Closing(o) /\ ~ (o > opens)
<1>1. js[o].at = "open"
  BY Zenon DEF Uses
<1>2. HeldOK(o) /\ FreshOK(o)
  BY Zenon DEF IInv, FileOK
<1>3. ASSUME NEW q \in InFlight, q.st = o PROVE q.op = "read"
  <2>1. RequestOK(q) /\ q.op \in {"open", "read", "close"}
    BY InFlightMembers, Zenon DEF IInv, FileOK, Request
  <2> QED
    BY <1>1, <1>3, <2>1, Zenon DEF RequestOK, OpenOK, CloseOK
<1>4. ~ Closing(o)
  BY <1>3, Zenon DEF Closing
<1> QED
  BY <1>1, <1>2, <1>3, <1>4, Zenon DEF HeldOK, FreshOK

LEMMA BufferType ==
  ASSUME NEW st \in FileState, NEW len \in Nat, reads \in Nat
  PROVE  /\ Buffer(st, len) \in FileState
         /\ Buffer(st, len).life = st.life /\ Buffer(st, len).fd = st.fd
<1>1. PICK b \in Nat : b = reads + 1
  OBVIOUS
<1>2. Buffer(st, len) = st \/ Buffer(st, len) = [st EXCEPT !.buf = b, !.buf_len = len]
  BY <1>1, Zenon DEF Buffer
<1>3. /\ [st EXCEPT !.buf = b, !.buf_len = len] \in FileState
      /\ [st EXCEPT !.buf = b, !.buf_len = len].life = st.life
      /\ [st EXCEPT !.buf = b, !.buf_len = len].fd = st.fd
  BY Zenon DEF FileState
<1> QED
  BY <1>2, <1>3, Zenon

LEMMA ReadStep ==
  ASSUME IInv, NEW o \in Opens, NEW len \in Lens, read_file_async(o, len)
  PROVE  IInv'
<1> DEFINE fd == js[o].fd
           s == Buffer(state[o], len)
           m == js[o].misused \/ (Reading(o) /\ s # state[o])
           r == [op |-> "read", st |-> o, fd |-> fd, nth |-> reads + 1, buf |-> s.buf,
                 result |-> Pending]
<1> USE DEF IInv
<1>1. Uses(o) /\ Known(fd)
  BY Zenon DEF read_file_async
<1>2. /\ js[o].at = "open" /\ fd \in Fds
      /\ state[o].life = "alive" /\ state[o].fd = fd /\ kernel[fd] = o
      /\ fd_state[fd] = o
      /\ \A q \in InFlight : q.st = o => q.op = "read"
      /\ ~ Closing(o) /\ ~ (o > opens)
  BY <1>1, UsedFile, Zenon
<1>3. /\ state' = [state EXCEPT ![o] = s]
      /\ js' = [js EXCEPT ![o].misused = m]
      /\ reads' = reads + 1
      /\ wq' = Append(wq, r)
      /\ UNCHANGED <<fs, fd_state, kernel, running, done, opens>>
  BY <1>2, Zenon DEF read_file_async, Submit
<1>4. /\ state[o] \in FileState /\ js[o] \in FileView /\ reads \in Nat /\ len \in Nat
      /\ m \in BOOLEAN
  BY Lengths, Zenon DEF TypeOK
<1>5. s \in FileState /\ s.life = "alive" /\ s.fd = fd
  BY <1>2, <1>4, BufferType, Zenon
<1>6. /\ r \in Request /\ r.st = o /\ r.op = "read" /\ r.result = Pending /\ r.fd = fd
      /\ r.buf = s.buf /\ r.nth = reads + 1
  BY <1>2, <1>4, <1>5 DEF Request, FileState, Pending
<1>15. ASSUME NEW q \in InFlight PROVE Key(q) # Key(r)
  <2>1. q.nth \in Nat /\ (q.op = "read" => q.nth <= reads)
    BY InFlightMembers, Zenon DEF Request, FileOK, RequestOK, ReadOK
  <2>2. q.op = "read" => q.nth # r.nth
    BY <2>1, <1>4, <1>6
  <2> QED
    BY <2>2, <1>6, Zenon DEF Key
<1>17. ~ m => ~ js[o].misused /\ (Reading(o) => s = state[o])
  BY Zenon
<1> HIDE DEF r, s, m
<1>7. PoolOK' /\ InFlight' = InFlight \cup {r} /\ wq' \in Seq(Request)
  BY <1>3, <1>6, <1>15, SubmitPool, Zenon
<1>8. /\ state'[o] = s
      /\ \A p \in Opens : p # o => state'[p] = state[p]
      /\ js'[o].at = "open" /\ js'[o].fd = fd /\ js'[o].overtook = js[o].overtook
      /\ js'[o].misused = m
      /\ \A p \in Opens : p # o => js'[p] = js[p]
  BY <1>2, <1>3, <1>4, Zenon DEF TypeOK, FileView
<1>9. TypeOK'
  <2>1. state' \in [Opens -> FileState]
    BY <1>3, <1>5, Zenon DEF TypeOK
  <2>2. [js[o] EXCEPT !.misused = m] \in FileView
    BY <1>4, Zenon DEF FileView
  <2>3. js' \in [Opens -> FileView]
    BY <1>3, <2>2, Zenon DEF TypeOK
  <2> QED
    BY <1>3, <1>4, <1>7, <2>1, <2>3 DEF TypeOK
<1>10. \A q : Closing(q)' <=> Closing(q)
  BY <1>6, <1>7, Zenon DEF Closing
<1>18. reads <= reads' /\ \A n \in Nat : n <= reads => n <= reads'
  BY <1>3, <1>4
<1>11. ASSUME NEW q \in InFlight' PROVE RequestOK(q)'
  <2>1. CASE q = r
    <3>1. /\ q.nth <= reads' /\ q.result = Pending /\ q.st = o /\ q.fd \in Fds
          /\ q.op = "read"
      BY <2>1, <1>2, <1>3, <1>4, <1>6
    <3>2. OpenOK(q)' /\ CloseOK(q)'
      BY <3>1 DEF OpenOK, CloseOK
    <3>3. state'[o].life = "alive" /\ state'[o].buf = q.buf /\ kernel'[q.fd] = o /\ ~ Closing(o)'
      BY <2>1, <1>2, <1>3, <1>5, <1>6, <1>8, <1>10, Zenon
    <3>4. ReadOK(q)'
      BY <3>1, <3>3, <1>8, Zenon DEF ReadOK
    <3> QED
      BY <3>2, <3>4, Zenon DEF RequestOK
  <2>2. CASE q \in InFlight
    <3>1. RequestOK(q) /\ q.st \in Opens /\ q.nth \in Nat
      BY <2>2, InFlightMembers, Zenon DEF FileOK, Request
    <3>2. CASE q.st # o
      BY <3>1, <3>2, <1>3, <1>8, <1>10, <1>18, Zenon DEF RequestOK, OpenOK, ReadOK, CloseOK
    <3>3. CASE q.st = o
      <4>1. q.op = "read" /\ Reading(o)
        BY <2>2, <3>3, <1>2, Zenon DEF Reading
      <4>2. ~ m => ~ js[o].misused /\ state'[o] = state[o]
        BY <4>1, <1>8, <1>17, Zenon
      <4> QED
        BY <3>1, <3>3, <4>1, <4>2, <1>3, <1>8, <1>10, <1>18, ZenonT(40) DEF RequestOK, OpenOK, ReadOK, CloseOK
    <3> QED
      BY <3>2, <3>3, Zenon
  <2> QED
    BY <1>7, <2>1, <2>2, Zenon
<1>12. ASSUME NEW p \in Opens PROVE HeldOK(p)'
  <2>1. \A q \in Opens : state'[q].life = state[q].life /\ state'[q].fd = state[q].fd
    BY <1>2, <1>5, <1>8, Zenon
  <2>2. \A fdp : Shared(p, fdp)' <=> Shared(p, fdp)
    BY <2>1, Zenon DEF Shared
  <2>3. HeldOK(p)
    BY Zenon DEF FileOK
  <2>4. CASE p = o
    BY <2>1, <2>2, <2>3, <2>4, <1>2, <1>3, <1>8, ZenonT(40) DEF HeldOK, Known
  <2>5. CASE p # o
    BY <2>1, <2>2, <2>3, <2>5, <1>3, <1>8, Zenon DEF HeldOK, Known
  <2> QED
    BY <2>4, <2>5, Zenon
<1>13. ASSUME NEW f \in DOMAIN fd_state' PROVE EntryOK(f)'
  <2>1. EntryOK(f) /\ fd_state[f] \in Opens
    BY <1>3, Zenon DEF FileOK, TypeOK
  <2>2. \A q \in Opens : state'[q].life = state[q].life /\ state'[q].fd = state[q].fd
    BY <1>2, <1>5, <1>8, Zenon
  <2> QED
    BY <2>1, <2>2, <1>3, <1>10, Zenon DEF EntryOK
<1>14. ASSUME NEW p \in Opens PROVE FreshOK(p)'
  BY <1>2, <1>3, <1>8, Zenon DEF FileOK, FreshOK
<1> QED
  BY <1>7, <1>9, <1>11, <1>12, <1>13, <1>14, Zenon DEF FileOK

\* A close that the map refuses only changes what the script knows.
LEMMA RefusedCloseStep ==
  ASSUME IInv, NEW o \in Opens, close_unknown(o)
  PROVE  IInv'
<1> USE DEF IInv
<1>1. /\ Uses(o)
      /\ js' = [js EXCEPT ![o].at = "closed"]
      /\ UNCHANGED <<fs, state, fd_state, kernel, wq, running, done, opens, reads>>
  BY Zenon DEF close_unknown, pool
<1>2. (\A q \in InFlight : q.st = o => q.op = "read") /\ ~ (o > opens)
  BY <1>1, UsedFile, Zenon
<1>3. /\ js'[o].at = "closed" /\ js'[o].misused = js[o].misused
      /\ \A p \in Opens : p # o => js'[p] = js[p]
  BY <1>1, Zenon DEF TypeOK, FileView
<1>4. InFlight' = InFlight /\ \A q : Closing(q)' <=> Closing(q)
  BY <1>1, Zenon DEF InFlight, Closing
<1>5. TypeOK' /\ PoolOK'
  <2>1. [js[o] EXCEPT !.at = "closed"] \in FileView
    BY Zenon DEF TypeOK, FileView
  <2>2. js' \in [Opens -> FileView]
    BY <1>1, <2>1, Zenon DEF TypeOK
  <2> QED
    BY <1>1, <2>2, Zenon DEF TypeOK, PoolOK
<1>7. ASSUME NEW q \in InFlight' PROVE RequestOK(q)'
  <2>1. RequestOK(q) /\ q.st \in Opens
    BY <1>4, InFlightMembers, Zenon DEF FileOK, Request
  <2>2. CASE q.st = o
    BY <2>1, <2>2, <1>1, <1>2, <1>3, <1>4, Zenon DEF RequestOK, OpenOK, ReadOK, CloseOK
  <2>3. CASE q.st # o
    BY <2>1, <2>3, <1>1, <1>3, <1>4, Zenon DEF RequestOK, OpenOK, ReadOK, CloseOK
  <2> QED
    BY <2>2, <2>3, Zenon
<1>8. ASSUME NEW p \in Opens PROVE HeldOK(p)'
  BY <1>1, <1>3 DEF FileOK, HeldOK, Known, Shared
<1>9. ASSUME NEW f \in DOMAIN fd_state' PROVE EntryOK(f)'
  BY <1>1, <1>4, Zenon DEF FileOK, EntryOK
<1>10. ASSUME NEW p \in Opens PROVE FreshOK(p)'
  BY <1>1, <1>2, <1>3, Zenon DEF FileOK, FreshOK
<1> QED
  BY <1>5, <1>7, <1>8, <1>9, <1>10, Zenon DEF FileOK

LEMMA CloseStep ==
  ASSUME IInv, NEW o \in Opens, close_file_async(o)
  PROVE  IInv'
<1> DEFINE fd == js[o].fd
           m == js[o].misused \/ Reading(o)
           r == [op |-> "close", st |-> o, fd |-> fd, nth |-> 0, buf |-> 0, result |-> Pending]
<1> USE DEF IInv
<1>1. Uses(o) /\ Known(fd)
  BY Zenon DEF close_file_async
<1>2. /\ fd \in Fds
      /\ state[o].life = "alive" /\ state[o].fd = fd /\ kernel[fd] = o
      /\ fd_state[fd] = o
      /\ \A q \in InFlight : q.st = o => q.op = "read"
      /\ ~ (o > opens)
  BY <1>1, UsedFile, Zenon
<1>3. /\ js' = [js EXCEPT ![o].at = "closed", ![o].overtook = FALSE, ![o].misused = m]
      /\ wq' = Append(wq, r)
      /\ UNCHANGED <<fs, state, fd_state, kernel, running, done, opens, reads>>
  BY <1>2, Zenon DEF close_file_async, Submit
<1>4. r \in Request /\ r.st = o /\ r.op = "close" /\ r.result = Pending /\ r.fd = fd /\ r.nth = 0
  BY <1>2 DEF Request, Pending
<1>14. m \in BOOLEAN /\ js[o] \in FileView
  BY Zenon DEF TypeOK, FileView
<1>15. ~ m => ~ Reading(o)
  BY Zenon
<1> HIDE DEF r, m
<1>16. \A q \in InFlight : Key(q) # Key(r)
  BY <1>2, <1>4, Zenon DEF Key
<1>5. PoolOK' /\ InFlight' = InFlight \cup {r} /\ wq' \in Seq(Request)
  BY <1>3, <1>4, <1>16, SubmitPool, Zenon
<1>6. [js[o] EXCEPT !.at = "closed", !.overtook = FALSE, !.misused = m] \in FileView
  BY <1>14, Zenon DEF FileView
<1>7. /\ js'[o].at = "closed" /\ js'[o].misused = m
      /\ \A p \in Opens : p # o => js'[p] = js[p]
  BY <1>3, <1>14, Zenon DEF TypeOK, FileView
<1>8. TypeOK'
  <2>1. js' \in [Opens -> FileView]
    BY <1>3, <1>6, Zenon DEF TypeOK
  <2> QED
    BY <1>3, <1>5, <2>1, Zenon DEF TypeOK
<1>9. \A q : q # o => (Closing(q)' <=> Closing(q))
  BY <1>4, <1>5, Zenon DEF Closing
<1>10. ASSUME NEW q \in InFlight' PROVE RequestOK(q)'
  <2>1. CASE q = r
    BY <2>1, <1>2, <1>3, <1>4, <1>7, Zenon DEF RequestOK, OpenOK, ReadOK, CloseOK
  <2>2. CASE q \in InFlight
    <3>1. RequestOK(q) /\ q.st \in Opens
      BY <2>2, InFlightMembers, Zenon DEF FileOK, Request
    <3>2. CASE q.st # o
      BY <3>1, <3>2, <1>3, <1>7, <1>9, Zenon DEF RequestOK, OpenOK, ReadOK, CloseOK
    <3>3. CASE q.st = o
      <4>1. q.op = "read" /\ m
        BY <2>2, <3>3, <1>2, <1>15, Zenon DEF Reading
      <4> QED
        BY <3>1, <3>3, <4>1, <1>3, <1>7, Zenon DEF RequestOK, OpenOK, ReadOK, CloseOK
    <3> QED
      BY <3>2, <3>3, Zenon
  <2> QED
    BY <1>5, <2>1, <2>2, Zenon
<1>11. ASSUME NEW p \in Opens PROVE HeldOK(p)'
  <2>1. CASE p = o
    BY <2>1, <1>7, Zenon DEF HeldOK
  <2>2. CASE p # o
    <3>1. HeldOK(p) /\ js'[p] = js[p]
      BY <2>2, <1>7, Zenon DEF FileOK
    <3>2. \A g : (Known(g)' <=> Known(g)) /\ (Shared(p, g)' <=> Shared(p, g))
      BY <1>3, Zenon DEF Known, Shared
    <3> QED
      BY <3>1, <3>2, <1>3, Zenon DEF HeldOK
  <2> QED
    BY <2>1, <2>2, Zenon
<1>12. ASSUME NEW f \in DOMAIN fd_state' PROVE EntryOK(f)'
  <2>1. \A p : Closing(p) => Closing(p)'
    BY <1>5, Zenon DEF Closing
  <2> QED
    BY <2>1, <1>3, Zenon DEF FileOK, EntryOK
<1>13. ASSUME NEW p \in Opens PROVE FreshOK(p)'
  BY <1>2, <1>3, <1>7, Zenon DEF FileOK, FreshOK
<1> QED
  BY <1>5, <1>8, <1>10, <1>11, <1>12, <1>13, Zenon DEF FileOK

-----------------------------------------------------------------------------
(* The threads and the kernel.                                             *)

LEMMA SameFiles ==
  ASSUME TypeOK, FileOK, InFlight' = InFlight, UNCHANGED <<state, fd_state, kernel, js, opens>>,
         reads' = reads \/ reads' = reads + 1
  PROVE  FileOK'
<1>1. ASSUME NEW r \in InFlight
      PROVE  RequestOK(r)'
  <2>1. RequestOK(r) /\ r.nth \in Nat /\ (Closing(r.st)' <=> Closing(r.st))
    BY InFlightMembers, Zenon DEF FileOK, Request, Closing
  <2>2. r.nth <= reads => r.nth <= reads'
    BY <2>1 DEF TypeOK
  <2> QED
    BY <2>1, <2>2, Zenon DEF RequestOK, OpenOK, ReadOK, CloseOK
<1>2. \A o \in Opens : HeldOK(o)' /\ FreshOK(o)'
  BY Zenon DEF FileOK, HeldOK, Known, Shared, FreshOK
<1>3. \A f \in DOMAIN fd_state : EntryOK(f)'
  BY ZenonT(40) DEF FileOK, EntryOK, Closing
<1> QED
  BY <1>1, <1>2, <1>3, Zenon DEF FileOK

\* A read that the map refuses, the loss of the FileSystem and the use of freed
\* memory change nothing that the invariant reads.
LEMMA IdleStep ==
  ASSUME IInv, UNCHANGED <<state, fd_state, kernel, wq, running, done, js, opens>>,
         reads' = reads \/ reads' = reads + 1, fs' \in {"alive", "deleted"}
  PROVE  IInv'
<1>1. InFlight' = InFlight
  BY Zenon DEF InFlight
<1>2. reads' \in Nat
  BY DEF IInv, TypeOK
<1>3. TypeOK' /\ PoolOK'
  BY <1>2, Zenon DEF IInv, TypeOK, PoolOK
<1> QED
  BY <1>1, <1>3, SameFiles, Zenon DEF IInv

\* Moving a request from one place to the next changes nothing that FileOK reads.
LEMMA MoveStep ==
  ASSUME IInv, Take \/ \E r \in running : Complete(r)
  PROVE  IInv'
<1> USE DEF IInv
<1>1. PoolOK' /\ InFlight' = InFlight /\ wq' \in Seq(Request) /\ running' \subseteq Request
      /\ done' \in Seq(Request)
  <2>1. CASE Take
    BY <2>1, TakePool, Zenon DEF Take, TypeOK
  <2>2. CASE \E r \in running : Complete(r)
    BY <2>2, CompletePool, Zenon DEF Complete, TypeOK
  <2> QED
    BY <2>1, <2>2, Zenon
<1>2. UNCHANGED <<fs, state, fd_state, kernel, js, opens, reads>>
  BY Zenon DEF Take, Complete, script
<1>3. TypeOK'
  BY <1>1, <1>2, Zenon DEF TypeOK
<1>4. FileOK'
  BY <1>1, <1>2, SameFiles, Zenon
<1> QED
  BY <1>1, <1>3, <1>4, Zenon

\* A system call that gives its request a result it may have, and takes no
\* descriptor from a file that is not being closed by it.
LEMMA SysCallStep ==
  ASSUME IInv, NEW r \in running, NEW res \in Int, NEW table \in [Fds -> Opens \cup {NoFile}],
         SysCall(r, res, table),
         r.op = "open" => res \in Fds \cup {Failed} /\ (res \in Fds => table[res] = r.st),
         r.op = "read" => res \in {Failed, r.st} \/ js[r.st].misused,
         r.op = "close" => res # Pending,
         \A f \in Fds : kernel[f] # NoFile =>
           table[f] = kernel[f] \/ (r.op = "close" /\ kernel[f] = r.st)
  PROVE  IInv'
<1> DEFINE q == [r EXCEPT !.result = res]
<1> USE DEF IInv
<1>1. /\ kernel' = table
      /\ UNCHANGED <<fs, state, fd_state, wq, done, js, opens, reads>>
  BY Zenon DEF SysCall, script
<1>2. PoolOK' /\ running' \subseteq Request /\ InFlight' = (InFlight \ {r}) \cup {q}
      /\ q \in Request
  BY SysCallPool, Zenon
<1>3. r \in InFlight /\ r \in Request
  BY InFlightMembers, Zenon
<1>4. /\ q.op = r.op /\ q.st = r.st /\ q.fd = r.fd /\ q.nth = r.nth /\ q.buf = r.buf
      /\ q.result = res
  BY <1>3, Zenon DEF Request
<1> HIDE DEF q
<1>5. TypeOK'
  BY <1>1, <1>2, Zenon DEF TypeOK
<1>6. ASSUME NEW x \in InFlight, x # r, r.op = "close", x.st = r.st
      PROVE  x.op = "read" /\ js[x.st].misused
  <2>1. RequestOK(x) /\ RequestOK(r) /\ x.op \in {"open", "read", "close"} /\ Closing(r.st)
    BY <1>3, <1>6, InFlightMembers, Zenon DEF FileOK, Request, Closing
  <2>2. x.op # "close"
    <3>1. x.op = "close" => Key(x) = Key(r)
      BY <1>6, <2>1, Zenon DEF RequestOK, CloseOK, Key
    <3> QED
      BY <3>1, <1>3, <1>6, OneEach, Zenon
  <2>3. x.op # "open"
    BY <1>6, <2>1, Zenon DEF RequestOK, OpenOK, CloseOK
  <2> QED
    BY <1>6, <2>1, <2>2, <2>3, Zenon DEF RequestOK, ReadOK
<1>7. \A o : Closing(o)' <=> Closing(o)
  BY <1>2, <1>3, <1>4, ZenonT(40) DEF Closing
<1>8. NoFile \notin Opens
  BY DEF NoFile, Opens
<1>9. ASSUME NEW x \in InFlight' PROVE RequestOK(x)'
  <2>1. RequestOK(r)
    BY <1>3, Zenon DEF FileOK
  <2>2. CASE x = q
    <3>1. OpenOK(q)'
      BY <2>1, <1>1, <1>4, Zenon DEF RequestOK, OpenOK
    <3>2. ReadOK(q)'
      <4>1. r.op = "read" /\ ~ js[r.st].misused => table[r.fd] = r.st
        BY <2>1, <1>3, <1>8, InFlightMembers, Zenon DEF RequestOK, ReadOK, Request
      <4> QED
        BY <2>1, <4>1, <1>1, <1>4, <1>7, Zenon DEF RequestOK, ReadOK
    <3>3. CloseOK(q)'
      BY <2>1, <1>1, <1>4, Zenon DEF RequestOK, CloseOK
    <3> QED
      BY <2>2, <3>1, <3>2, <3>3, Zenon DEF RequestOK
  <2>3. CASE x \in InFlight /\ x # r
    <3>1. RequestOK(x) /\ x.st \in Opens
      BY <2>3, InFlightMembers, Zenon DEF FileOK, Request
    <3>2. CASE r.op = "close" /\ x.st = r.st
      BY <2>3, <3>1, <3>2, <1>1, <1>6, Zenon DEF RequestOK, OpenOK, ReadOK, CloseOK
    <3>3. CASE ~ (r.op = "close" /\ x.st = r.st)
      <4>1. \A f \in Fds : kernel[f] = x.st => table[f] = x.st
        BY <3>1, <3>3, <1>8, Zenon
      <4> QED
        BY <3>1, <4>1, <1>1, <1>7, Zenon DEF RequestOK, OpenOK, ReadOK, CloseOK
    <3> QED
      BY <3>2, <3>3, Zenon
  <2> QED
    BY <1>2, <2>2, <2>3, Zenon
<1>10. ASSUME NEW o \in Opens PROVE HeldOK(o)'
  <2>1. HeldOK(o)
    BY Zenon DEF FileOK
  <2>2. CASE js[o].at = "open"
    <3>1. r.op = "close" => r.st # o
      BY <2>2, <1>3, Zenon DEF FileOK, RequestOK, CloseOK
    <3>2. table[js[o].fd] = o
      BY <2>1, <2>2, <3>1, <1>8, Zenon DEF HeldOK
    <3> QED
      BY <2>1, <2>2, <3>2, <1>1, Zenon DEF HeldOK, Known, Shared
  <2>3. CASE js[o].at # "open"
    BY <2>3, <1>1, Zenon DEF HeldOK
  <2> QED
    BY <2>2, <2>3, Zenon
<1>11. ASSUME NEW f \in DOMAIN fd_state' PROVE EntryOK(f)'
  <2>1. EntryOK(f) /\ f \in Fds /\ fd_state[f] \in Opens
    BY <1>1, Zenon DEF FileOK, TypeOK
  <2>2. table[f] = fd_state[f] \/ Closing(fd_state[f])
    BY <2>1, <1>3, <1>8, Zenon DEF EntryOK, Closing
  <2> QED
    BY <2>1, <2>2, <1>1, <1>7, Zenon DEF EntryOK
<1>12. \A o \in Opens : FreshOK(o)'
  BY <1>1, Zenon DEF FileOK, FreshOK
<1> QED
  BY <1>2, <1>5, <1>9, <1>10, <1>11, <1>12, Zenon DEF FileOK

LEMMA KernelStep ==
  ASSUME IInv, NEW r \in running, Kernel(r)
  PROVE  IInv'
<1>1. r \in Request /\ RequestOK(r) /\ r.st \in Opens /\ r.st \in Int
  BY InFlightMembers DEF IInv, FileOK, Request, Opens
<1>2. kernel \in [Fds -> Opens \cup {NoFile}]
  BY Zenon DEF IInv, TypeOK
<1>3. NoFile \notin Opens /\ NoFile \in Int /\ Failed \in Int /\ NoFile # Pending
      /\ \A f \in Fds : f \in Int
  BY DEF NoFile, Opens, Failed, Pending, Fds
<1>4. ASSUME NEW f \in Fds, r.op = "open", LowestFree(f),
             SysCall(r, f, [kernel EXCEPT ![f] = r.st])
      PROVE  IInv'
  <2>1. [kernel EXCEPT ![f] = r.st] \in [Fds -> Opens \cup {NoFile}]
    BY <1>1, <1>2, Zenon
  <2>2. /\ [kernel EXCEPT ![f] = r.st][f] = r.st
        /\ \A g \in Fds : kernel[g] # NoFile => [kernel EXCEPT ![f] = r.st][g] = kernel[g]
    BY <1>2, <1>4, Zenon DEF LowestFree
  <2> QED
    BY <1>3, <1>4, <2>1, <2>2, SysCallStep, Zenon
<1>5. ASSUME r.op # "close", SysCall(r, Failed, kernel)
      PROVE  IInv'
  <2>1. Failed \notin Fds
    BY DEF Failed, Fds
  <2> QED
    BY <1>2, <1>3, <1>5, <2>1, SysCallStep, Zenon
<1>6. ASSUME r.op = "read", kernel[r.fd] # NoFile, SysCall(r, kernel[r.fd], kernel)
      PROVE  IInv'
  <2>1. CASE ~ js[r.st].misused
    <3>1. kernel[r.fd] = r.st
      BY <1>1, <1>6, <2>1, Zenon DEF RequestOK, ReadOK
    <3>2. SysCall(r, r.st, kernel)
      BY <1>6, <3>1, Zenon
    <3> QED
      BY <1>1, <1>2, <1>6, <3>2, SysCallStep, Zenon
  <2>2. CASE js[r.st].misused
    <3>1. r.fd \in Fds
      BY <1>1, <1>6, Zenon DEF RequestOK, ReadOK
    <3>2. kernel[r.fd] \in Int
      BY <1>2, <3>1 DEF Opens, NoFile
    <3> QED
      BY <1>2, <1>6, <2>2, <3>2, SysCallStep, Zenon
  <2> QED
    BY <2>1, <2>2, Zenon
<1>7. ASSUME r.op = "close", SysCall(r, NoFile, [kernel EXCEPT ![r.fd] = NoFile])
      PROVE  IInv'
  <2>1. r.fd \in Fds /\ kernel[r.fd] = r.st
    BY <1>1, <1>7, Zenon DEF RequestOK, CloseOK, SysCall
  <2>2. [kernel EXCEPT ![r.fd] = NoFile] \in [Fds -> Opens \cup {NoFile}]
    BY <1>2, Zenon
  <2>3. \A g \in Fds : [kernel EXCEPT ![r.fd] = NoFile][g] = kernel[g] \/ kernel[g] = r.st
    BY <1>2, <2>1, Zenon
  <2> QED
    BY <1>3, <1>7, <2>2, <2>3, SysCallStep, Zenon
<1>8. CASE UseAfterFree
  <2>1. fs' \in {"alive", "deleted"}
    BY <1>8, Zenon DEF UseAfterFree, IInv, TypeOK
  <2> QED
    BY <1>8, <2>1, IdleStep, Zenon DEF UseAfterFree, pool, script
<1> QED
  BY <1>4, <1>5, <1>6, <1>7, <1>8, Zenon DEF Kernel, sys_open, sys_read, sys_close

-----------------------------------------------------------------------------
(* The callbacks.                                                          *)

\* What every callback starts from: its request leaves.  The other requests of
\* the file are reads of a file that is open, or of one that was misused.
LEMMA CallbackRequest ==
  ASSUME IInv, NEW op, Due(op)
  PROVE  /\ Head(done) \in InFlight /\ RequestOK(Head(done))
         /\ Head(done).op = op /\ Head(done).st \in Opens /\ Head(done).result # Pending
         /\ InFlight' = InFlight \ {Head(done)}
         /\ \A q \in InFlight' : q \in InFlight /\ q.st \in Opens /\ RequestOK(q)
         /\ op = "open" => \A q \in InFlight' : q.st # Head(done).st
         /\ op = "close" => \A q \in InFlight' :
              q.st = Head(done).st => q.op = "read" /\ js[q.st].misused
         /\ \A p : Closing(p)' => Closing(p)
         /\ op # "close" => \A p : Closing(p)' <=> Closing(p)
         /\ ~ (Head(done).st > opens)
         /\ PoolOK' /\ done' \in Seq(Request)
         /\ UNCHANGED <<fs, kernel, wq, running, opens, reads>>
<1> USE DEF IInv
<1>1. /\ PoolOK' /\ InFlight' = InFlight \ {Head(done)}
      /\ Head(done) \in InFlight /\ Head(done) \in Request
      /\ Head(done).op = op /\ Head(done).result # Pending
      /\ done' \in Seq(Request)
  BY DuePool, Zenon
<1>2. RequestOK(Head(done)) /\ Head(done).st \in Opens
  BY <1>1, Zenon DEF FileOK, Request
<1>3. ASSUME NEW q \in InFlight'
      PROVE  /\ q \in InFlight /\ q.st \in Opens /\ RequestOK(q) /\ Key(q) # Key(Head(done))
             /\ q.op \in {"open", "read", "close"}
  BY <1>1, <1>3, OneEach, InFlightMembers, Zenon DEF Request, FileOK
<1>4. ~ (Head(done).st > opens)
  BY <1>1, <1>2, InFlightMembers, Zenon DEF FileOK, FreshOK, RequestOK, OpenOK, ReadOK, CloseOK, Request
<1>5. ASSUME op = "open", NEW q \in InFlight', q.st = Head(done).st
      PROVE  FALSE
  <2>1. js[q.st].at = "opening" /\ Head(done).nth = 0
    BY <1>1, <1>2, <1>5, Zenon DEF RequestOK, OpenOK
  <2>2. q.op = "open" /\ q.nth = 0
    BY <1>3, <1>5, <2>1, Zenon DEF RequestOK, OpenOK, ReadOK, CloseOK
  <2> QED
    BY <1>1, <1>3, <1>5, <2>1, <2>2, Zenon DEF Key
<1>6. ASSUME op = "close", NEW q \in InFlight', q.st = Head(done).st
      PROVE  q.op = "read" /\ js[q.st].misused
  <2>1. js[q.st].at = "closed" /\ Head(done).nth = 0 /\ Closing(q.st)
    BY <1>1, <1>2, <1>6, Zenon DEF RequestOK, CloseOK, Closing
  <2>2. q.op # "close"
    <3>1. q.op = "close" => q.nth = 0
      BY <1>3, Zenon DEF RequestOK, CloseOK
    <3>2. q.op = "close" => Key(q) = Key(Head(done))
      BY <1>1, <1>6, <2>1, <3>1, Zenon DEF Key
    <3> QED
      BY <1>3, <3>2, Zenon
  <2>3. q.op = "read"
    BY <1>3, <2>1, <2>2, Zenon DEF RequestOK, OpenOK
  <2> QED
    BY <1>3, <2>1, <2>3, Zenon DEF RequestOK, ReadOK
<1>7. \A p : Closing(p)' => Closing(p)
  BY <1>1, Zenon DEF Closing
<1>8. op # "close" => \A p : Closing(p) => Closing(p)'
  BY <1>1, Zenon DEF Closing
<1>9. UNCHANGED <<fs, kernel, wq, running, opens, reads>>
  BY Zenon DEF Due
<1> QED
  BY <1>1, <1>2, <1>3, <1>4, <1>5, <1>6, <1>7, <1>8, <1>9, Zenon

\* The callback of a read changes nothing but the request.
LEMMA ReadStepCb ==
  ASSUME IInv, read_file_async_cb
  PROVE  IInv'
<1> USE DEF IInv
<1>1. Due("read") /\ UNCHANGED <<state, fd_state, js>>
  BY Zenon DEF read_file_async_cb
<1>2. /\ \A q \in InFlight' : RequestOK(q)
      /\ \A p : Closing(p)' <=> Closing(p)
      /\ PoolOK' /\ done' \in Seq(Request)
      /\ UNCHANGED <<fs, kernel, wq, running, opens, reads>>
  <2>1. "read" # "close"
    OBVIOUS
  <2> QED
    BY <1>1, <2>1, CallbackRequest, Zenon
<1>3. TypeOK'
  BY <1>1, <1>2, Zenon DEF TypeOK
<1>4. \A q \in InFlight' : RequestOK(q)'
  BY <1>1, <1>2, Zenon DEF RequestOK, OpenOK, ReadOK, CloseOK
<1>5. \A p \in Opens : HeldOK(p)' /\ FreshOK(p)'
  BY <1>1, <1>2, Zenon DEF FileOK, HeldOK, Known, Shared, FreshOK
<1>6. \A f \in DOMAIN fd_state' : EntryOK(f)'
  BY <1>1, <1>2, Zenon DEF FileOK, EntryOK
<1> QED
  BY <1>2, <1>3, <1>4, <1>5, <1>6, Zenon DEF FileOK

\* A failed open only changes what the script knows.
LEMMA FailedStep ==
  ASSUME IInv, Due("open"), NEW r, r = Head(done),
         js' = [js EXCEPT ![r.st].at = "failed"], UNCHANGED <<state, fd_state>>
  PROVE  IInv'
<1> DEFINE o == r.st
<1> USE DEF IInv
<1>1. /\ o \in Opens
      /\ \A q \in InFlight' : RequestOK(q) /\ q.st \in Opens /\ q.st # o
      /\ \A p : Closing(p)' <=> Closing(p)
      /\ ~ (o > opens)
      /\ PoolOK' /\ done' \in Seq(Request)
      /\ UNCHANGED <<fs, kernel, wq, running, opens, reads>>
  <2>1. "open" # "close"
    OBVIOUS
  <2>2. \A q \in InFlight' : q.st # Head(done).st
    BY CallbackRequest, Zenon
  <2>4. \A q \in InFlight' : RequestOK(q) /\ q.st \in Opens
    BY CallbackRequest, Zenon
  <2>3. /\ Head(done) \in InFlight /\ RequestOK(Head(done)) /\ Head(done).op = "open"
        /\ Head(done).st \in Opens /\ ~ (Head(done).st > opens)
        /\ InFlight' = InFlight \ {Head(done)} /\ Head(done).result # Pending
        /\ PoolOK' /\ done' \in Seq(Request)
        /\ UNCHANGED <<fs, kernel, wq, running, opens, reads>>
    BY CallbackRequest, Zenon
  <2>5. \A p : Closing(p)' <=> Closing(p)
    BY <2>1, <2>3, Zenon DEF Closing
  <2> QED
    BY <2>2, <2>3, <2>4, <2>5, Zenon
<1> HIDE DEF o
<1>2. js'[o].at = "failed" /\ \A p \in Opens : p # o => js'[p] = js[p]
  BY <1>1, Zenon DEF TypeOK, FileView, o
<1>3. TypeOK'
  <2>1. [js[o] EXCEPT !.at = "failed"] \in FileView
    BY <1>1, ZenonT(40) DEF TypeOK, FileView
  <2>2. js' \in [Opens -> FileView]
    BY <1>1, <2>1, Zenon DEF TypeOK, o
  <2> QED
    BY <1>1, <2>2, Zenon DEF TypeOK
<1>4. ASSUME NEW q \in InFlight' PROVE RequestOK(q)'
  <2>1. RequestOK(q) /\ js'[q.st] = js[q.st]
    BY <1>1, <1>2, Zenon
  <2> QED
    BY <2>1, <1>1, Zenon DEF RequestOK, OpenOK, ReadOK, CloseOK
<1>5. ASSUME NEW p \in Opens PROVE HeldOK(p)'
  <2>1. CASE p = o
    BY <2>1, <1>2 DEF HeldOK
  <2>2. CASE p # o
    <3>1. HeldOK(p) /\ js'[p] = js[p]
      BY <2>2, <1>2, Zenon DEF FileOK
    <3>2. \A g : (Known(g)' <=> Known(g)) /\ (Shared(p, g)' <=> Shared(p, g))
      BY Zenon DEF Known, Shared
    <3> QED
      BY <3>1, <3>2, <1>1, Zenon DEF HeldOK
  <2> QED
    BY <2>1, <2>2, Zenon
<1>6. ASSUME NEW f \in DOMAIN fd_state' PROVE EntryOK(f)'
  BY <1>1, Zenon DEF FileOK, EntryOK
<1>7. ASSUME NEW p \in Opens PROVE FreshOK(p)'
  BY <1>1, <1>2, Zenon DEF FileOK, FreshOK
<1> QED
  BY <1>1, <1>3, <1>4, <1>5, <1>6, <1>7, Zenon DEF FileOK

\* A file that was opened enters the map.
LEMMA OpenedStep ==
  ASSUME IInv, Due("open"), NEW r, r = Head(done), r.result # Failed,
         state' = [state EXCEPT ![r.st].fd = r.result],
         fd_state' = With(fd_state, r.result, r.st),
         js' = [js EXCEPT ![r.st] = View(r.result, "open", Taken(r.result))]
  PROVE  IInv'
<1> DEFINE o == r.st
           f == r.result
<1> USE DEF IInv
<1>1. /\ r \in InFlight /\ RequestOK(r) /\ r.op = "open" /\ o \in Opens
      /\ InFlight' = InFlight \ {r} /\ f # Pending
      /\ \A q \in InFlight' : RequestOK(q) /\ q.st \in Opens /\ q.st # o
      /\ \A p : Closing(p)' <=> Closing(p)
      /\ ~ (o > opens)
      /\ PoolOK' /\ done' \in Seq(Request)
      /\ UNCHANGED <<fs, kernel, wq, running, opens, reads>>
  <2>1. "open" # "close"
    OBVIOUS
  <2>2. \A q \in InFlight' : q.st # Head(done).st
    BY CallbackRequest, Zenon
  <2>4. \A q \in InFlight' : RequestOK(q) /\ q.st \in Opens
    BY CallbackRequest, Zenon
  <2>3. /\ Head(done) \in InFlight /\ RequestOK(Head(done)) /\ Head(done).op = "open"
        /\ Head(done).st \in Opens /\ ~ (Head(done).st > opens)
        /\ InFlight' = InFlight \ {Head(done)} /\ Head(done).result # Pending
        /\ PoolOK' /\ done' \in Seq(Request)
        /\ UNCHANGED <<fs, kernel, wq, running, opens, reads>>
    BY CallbackRequest, Zenon
  <2>5. \A p : Closing(p)' <=> Closing(p)
    BY <2>1, <2>3, Zenon DEF Closing
  <2> QED
    BY <2>2, <2>3, <2>4, <2>5, Zenon
<1>2. f \in Fds /\ kernel[f] = o /\ state[o].life = "alive" /\ state[o].fd = -1
  BY <1>1, Zenon DEF RequestOK, OpenOK
<1>3. /\ state' = [state EXCEPT ![o].fd = f]
      /\ fd_state' = With(fd_state, f, o)
      /\ js' = [js EXCEPT ![o] = View(f, "open", Taken(f))]
  BY Zenon
<1> HIDE DEF o, f
<1>4. /\ state'[o].life = "alive" /\ state'[o].fd = f
      /\ \A p \in Opens : p # o => state'[p] = state[p]
      /\ js'[o] = View(f, "open", Taken(f))
      /\ \A p \in Opens : p # o => js'[p] = js[p]
  BY <1>1, <1>2, <1>3 DEF TypeOK, FileState
<1>5. /\ DOMAIN fd_state' = DOMAIN fd_state \cup {f} /\ fd_state'[f] = o
      /\ \A g \in DOMAIN fd_state : g # f => fd_state'[g] = fd_state[g]
  BY <1>3, Zenon DEF With
<1>6. TypeOK'
  <2>1. [state[o] EXCEPT !.fd = f] \in FileState
    BY <1>1, <1>2, Zenon DEF TypeOK, FileState
  <2>2. state' \in [Opens -> FileState]
    BY <1>3, <2>1, Zenon DEF TypeOK
  <2>3. View(f, "open", Taken(f)) \in FileView
    BY <1>2, Zenon DEF View, Taken, FileView
  <2>4. js' \in [Opens -> FileView]
    BY <1>3, <2>3, Zenon DEF TypeOK
  <2>5. DOMAIN fd_state' \subseteq Fds /\ fd_state' \in [DOMAIN fd_state' -> Opens]
    <3>1. DOMAIN fd_state' \subseteq Fds
      BY <1>2, <1>5, Zenon DEF TypeOK
    <3>2. \A g \in DOMAIN fd_state' : fd_state'[g] \in Opens
      BY <1>1, <1>5, Zenon DEF TypeOK
    <3>3. fd_state' = [g \in DOMAIN fd_state' |-> fd_state'[g]]
      BY <1>3, Zenon DEF With
    <3> QED
      BY <3>1, <3>2, <3>3, Zenon
  <2> QED
    BY <1>1, <2>2, <2>4, <2>5, Zenon DEF TypeOK
<1>7. ASSUME NEW q \in InFlight' PROVE RequestOK(q)'
  <2>1. RequestOK(q) /\ q.st \in Opens /\ q.st # o
    BY <1>1, Zenon
  <2>2. js'[q.st] = js[q.st] /\ state'[q.st] = state[q.st]
    BY <2>1, <1>4, Zenon
  <2> QED
    BY <2>1, <2>2, <1>1, Zenon DEF RequestOK, OpenOK, ReadOK, CloseOK
<1>8. ASSUME NEW p \in Opens PROVE HeldOK(p)'
  <2>1. CASE p = o
    <3>1. Taken(f) \/ ~ Shared(o, f)'
      BY <1>4, Zenon DEF Taken, Shared
    <3>2. js'[o].fd = f /\ js'[o].overtook = Taken(f)
      BY <1>4 DEF View
    <3>3. Known(f)' /\ fd_state'[f] = o /\ kernel'[f] = o
      BY <1>1, <1>2, <1>5, Zenon DEF Known
    <3> QED
      BY <2>1, <3>1, <3>2, <3>3, <1>2, <1>4, Zenon DEF HeldOK
  <2>2. CASE p # o /\ js[p].at = "open"
    <3>0. PICK g : g = js[p].fd
      BY Zenon
    <3>1. HeldOK(p) /\ kernel[g] = p
      BY <2>2, <3>0, Zenon DEF FileOK, HeldOK
    <3>2. g # f /\ js'[p] = js[p] /\ state'[p] = state[p]
      BY <2>2, <3>1, <1>2, <1>4, Zenon
    <3>3. Known(g)' <=> Known(g)
      BY <3>2, <1>5, Zenon DEF Known
    <3>4. Shared(p, g)' => Shared(p, g)
      BY <3>2, <1>4, Zenon DEF Shared
    <3> QED
      BY <2>2, <3>0, <3>1, <3>2, <3>3, <3>4, <1>1, <1>5, Zenon DEF HeldOK, Known
  <2>3. CASE p # o /\ js[p].at # "open"
    BY <2>3, <1>4, Zenon DEF HeldOK
  <2> QED
    BY <2>1, <2>2, <2>3, Zenon
<1>9. ASSUME NEW g \in DOMAIN fd_state' PROVE EntryOK(g)'
  <2>1. CASE g = f
    BY <2>1, <1>1, <1>2, <1>4, <1>5, Zenon DEF EntryOK
  <2>2. CASE g # f
    <3>1. g \in DOMAIN fd_state /\ g \in Fds /\ fd_state'[g] = fd_state[g]
      BY <2>2, <1>5, Zenon DEF TypeOK
    <3>2. EntryOK(g) /\ fd_state[g] \in Opens
      BY <3>1, Zenon DEF FileOK, TypeOK
    <3>3. fd_state[g] # o
      BY <3>1, <3>2, <1>2 DEF EntryOK, Fds
    <3> QED
      BY <3>1, <3>2, <3>3, <1>1, <1>4, Zenon DEF EntryOK
  <2> QED
    BY <2>1, <2>2, Zenon
<1>10. ASSUME NEW p \in Opens PROVE FreshOK(p)'
  BY <1>1, <1>4, Zenon DEF FileOK, FreshOK
<1> QED
  BY <1>1, <1>6, <1>7, <1>8, <1>9, <1>10, Zenon DEF FileOK

\* A file that was closed leaves the map, with its state.
LEMMA ClosedStep ==
  ASSUME IInv, Due("close"), NEW r, r = Head(done),
         fd_state' = Restrict(fd_state, DOMAIN fd_state \ {state[r.st].fd}),
         state' = [state EXCEPT ![r.st] = FileOpState("deleted")],
         UNCHANGED js
  PROVE  IInv'
<1> DEFINE o == r.st
           f == r.fd
<1> USE DEF IInv
<1>1. /\ r \in InFlight /\ RequestOK(r) /\ r.op = "close" /\ o \in Opens
      /\ InFlight' = InFlight \ {r}
      /\ \A q \in InFlight' : RequestOK(q) /\ q.st \in Opens
      /\ \A q \in InFlight' : q.st = o => q.op = "read" /\ js[q.st].misused
      /\ \A p : Closing(p)' => Closing(p)
      /\ ~ (o > opens)
      /\ PoolOK' /\ done' \in Seq(Request)
      /\ UNCHANGED <<fs, kernel, wq, running, opens, reads>>
  BY CallbackRequest, Zenon
<1>2. /\ f \in Fds /\ state[o].life = "alive" /\ state[o].fd = f
      /\ js[o].at = "closed"
  BY <1>1, Zenon DEF RequestOK, CloseOK
<1>3. /\ state' = [state EXCEPT ![o] = FileOpState("deleted")]
      /\ fd_state' = Restrict(fd_state, DOMAIN fd_state \ {f})
  BY <1>2, Zenon
<1> HIDE DEF o, f
<1>4. /\ state'[o].life = "deleted"
      /\ \A p \in Opens : p # o => state'[p] = state[p]
  <2>1. FileOpState("deleted").life = "deleted"
    BY Zenon DEF FileOpState
  <2>2. state'[o] = FileOpState("deleted")
    BY <1>1, <1>3, Zenon DEF TypeOK
  <2> QED
    BY <2>1, <2>2, <1>1, <1>3, Zenon DEF TypeOK
<1>5. /\ DOMAIN fd_state' = DOMAIN fd_state \ {f}
      /\ \A g \in DOMAIN fd_state' : fd_state'[g] = fd_state[g]
  BY <1>3, Zenon DEF Restrict
<1>6. TypeOK'
  <2>1. state' \in [Opens -> FileState]
    BY <1>3, NewStateType, Zenon DEF TypeOK
  <2>2. \A g \in DOMAIN fd_state' : fd_state'[g] \in Opens
    BY <1>5, Zenon DEF TypeOK
  <2>3. fd_state' = [g \in DOMAIN fd_state' |-> fd_state'[g]]
    BY <1>3, Zenon DEF Restrict
  <2>4. DOMAIN fd_state' \subseteq Fds
    BY <1>5, Zenon DEF TypeOK
  <2> QED
    BY <1>1, <2>1, <2>2, <2>3, <2>4, Zenon DEF TypeOK
<1>7. ASSUME NEW q \in InFlight' PROVE RequestOK(q)'
  <2>1. RequestOK(q) /\ q.st \in Opens
    BY <1>1, Zenon
  <2>2. CASE q.st = o
    BY <2>1, <2>2, <1>1, Zenon DEF RequestOK, OpenOK, ReadOK, CloseOK
  <2>3. CASE q.st # o
    <3>1. state'[q.st] = state[q.st]
      BY <2>1, <2>3, <1>4, Zenon
    <3> QED
      BY <2>1, <3>1, <1>1, Zenon DEF RequestOK, OpenOK, ReadOK, CloseOK
  <2> QED
    BY <2>2, <2>3, Zenon
<1>8. ASSUME NEW p \in Opens PROVE HeldOK(p)'
  <2>1. CASE js[p].at = "open"
    <3>1. PICK g : g = js[p].fd
      BY Zenon
    <3>2. HeldOK(p) /\ p # o
      BY <2>1, <1>2, Zenon DEF FileOK
    <3>3. state'[p] = state[p]
      BY <3>2, <1>4, Zenon
    <3>4. Known(g)' => Known(g)
      BY <1>5, Zenon DEF Known
    <3>5. Shared(p, g)' => Shared(p, g)
      BY <1>4, Zenon DEF Shared
    <3>6. g = f => Shared(p, g)
      BY <3>2, <1>1, <1>2, Zenon DEF Shared
    <3>7. Known(g) /\ g # f => Known(g)'
      BY <1>5, Zenon DEF Known
    <3> QED
      BY <2>1, <3>1, <3>2, <3>3, <3>4, <3>5, <3>6, <3>7, <1>1, <1>5, Zenon DEF HeldOK, Known
  <2>2. CASE js[p].at # "open"
    BY <2>2, Zenon DEF HeldOK
  <2> QED
    BY <2>1, <2>2, Zenon
<1>9. ASSUME NEW g \in DOMAIN fd_state' PROVE EntryOK(g)'
  <2>1. g \in DOMAIN fd_state /\ g # f /\ fd_state'[g] = fd_state[g]
    BY <1>5, Zenon
  <2>2. PICK p : p = fd_state[g]
    BY Zenon
  <2>3. EntryOK(g) /\ p \in Opens
    BY <2>1, <2>2, Zenon DEF FileOK, TypeOK
  <2>4. p # o
    BY <2>1, <2>2, <2>3, <1>2, Zenon DEF EntryOK
  <2>5. Closing(p) => Closing(p)'
    BY <2>4, <1>1, Zenon DEF Closing, o
  <2> QED
    BY <2>1, <2>2, <2>3, <2>4, <2>5, <1>1, <1>4, Zenon DEF EntryOK
<1>10. ASSUME NEW p \in Opens PROVE FreshOK(p)'
  BY <1>1, <1>4, Zenon DEF FileOK, FreshOK
<1> QED
  BY <1>1, <1>6, <1>7, <1>8, <1>9, <1>10, Zenon DEF FileOK

LEMMA CallbackStep ==
  ASSUME IInv, Callback
  PROVE  IInv'
<1>1. PICK r : r = Head(done)
  BY Zenon
<1>2. CASE open_file_async_cb
  <2>1. CASE r.result = Failed
    BY <1>1, <1>2, <2>1, FailedStep, Zenon DEF open_file_async_cb
  <2>2. CASE r.result # Failed
    BY <1>1, <1>2, <2>2, OpenedStep, Zenon DEF open_file_async_cb
  <2> QED
    BY <2>1, <2>2, Zenon
<1>3. CASE close_file_async_cb
  BY <1>1, <1>3, ClosedStep, Zenon DEF close_file_async_cb
<1>4. CASE late_cb
  <2>1. fs' \in {"alive", "deleted"}
    BY <1>4, Zenon DEF late_cb, UseAfterFree, IInv, TypeOK
  <2> QED
    BY <1>4, <2>1, IdleStep, Zenon DEF late_cb, UseAfterFree, pool, script
<1> QED
  BY <1>2, <1>3, <1>4, ReadStepCb, Zenon DEF Callback

-----------------------------------------------------------------------------
(* The theorems.                                                           *)

LEMMA InitIInv ==
  ASSUME Init
  PROVE  IInv
<1>1. \A o \in Opens : state[o] = FileOpState("none") /\ js[o] = View(-1, "none", FALSE)
  BY Zenon DEF Init
<1>2. InFlight = {}
  BY DEF Init, InFlight, Range
<1>3. FileOpState("none") \in FileState /\ FileOpState("none").life = "none"
  BY Zenon DEF FileOpState, FileState
<1>4. View(-1, "none", FALSE) \in FileView /\ View(-1, "none", FALSE).at = "none"
  BY Zenon DEF View, FileView
<1>5. state \in [Opens -> FileState] /\ js \in [Opens -> FileView]
  BY <1>3, <1>4, Zenon DEF Init
<1>6. DOMAIN fd_state = {} /\ fd_state \in [DOMAIN fd_state -> Opens]
  BY Zenon DEF Init
<1>7. TypeOK
  <2>1. kernel \in [Fds -> Opens \cup {NoFile}]
    BY Zenon DEF Init
  <2>2. wq \in Seq(Request) /\ running \subseteq Request /\ done \in Seq(Request)
    BY DEF Init
  <2>3. opens \in 0 .. MaxOpens /\ reads \in Nat /\ fs \in {"alive", "deleted"}
    BY Bounds DEF Init
  <2>4. DOMAIN fd_state \subseteq Fds
    BY <1>6, Zenon
  <2> QED
    BY <1>5, <1>6, <2>1, <2>2, <2>3, <2>4, Zenon DEF TypeOK
<1>8. PoolOK
  BY DEF Init, PoolOK, Distinct, Unique, Apart, Away, Answered
<1>9. FileOK
  BY <1>1, <1>2, <1>3, <1>4, <1>6, Zenon DEF FileOK, HeldOK, FreshOK
<1> QED
  BY <1>7, <1>8, <1>9, Zenon DEF IInv

LEMMA StutterStep ==
  ASSUME IInv, UNCHANGED vars
  PROVE  IInv'
<1>1. UNCHANGED <<fs, state, fd_state, kernel, wq, running, done, js, opens, reads>>
  BY Zenon DEF vars, pool, script
<1>2. fs' \in {"alive", "deleted"}
  BY <1>1, Zenon DEF IInv, TypeOK
<1> QED
  BY <1>1, <1>2, IdleStep, Zenon

LEMMA NextIInv ==
  ASSUME IInv, [Next]_vars
  PROVE  IInv'
<1>1. CASE open_file_async \/ \E o \in Opens : \/ \E len \in Lens : read_file_async(o, len)
                                             \/ close_file_async(o) \/ close_unknown(o)
  BY <1>1, OpenStep, ReadStep, RefusedCloseStep, CloseStep, Zenon
<1>2. CASE fs_finalizer \/ \E o \in Opens : read_unknown(o)
  <2>1. fs' \in {"alive", "deleted"}
    BY <1>2, Zenon DEF fs_finalizer, read_unknown, IInv, TypeOK
  <2> QED
    BY <1>2, <2>1, IdleStep, Zenon DEF fs_finalizer, read_unknown, pool, script
<1>3. CASE Take \/ \E r \in running : Complete(r)
  BY <1>3, MoveStep, Zenon
<1>4. CASE \E r \in running : Kernel(r)
  BY <1>4, KernelStep, Zenon
<1>5. CASE Callback
  BY <1>5, CallbackStep, Zenon
<1>6. CASE Quiet \/ UNCHANGED vars
  BY <1>6, StutterStep, Zenon DEF Quiet
<1> QED
  BY <1>1, <1>2, <1>3, <1>4, <1>5, <1>6, Zenon DEF Next, Step, Calls

\* A callback or a thread that uses freed memory does it for a file that was
\* misused, or for an open or a close whose FileSystem is gone.
LEMMA FreedUse ==
  ASSUME IInv, NEW r \in InFlight, Freed(r) \/ (r.op = "read" /\ Gone(r))
  PROVE  js[r.st].misused \/ (r.op # "read" /\ fs = "deleted")
<1>1. RequestOK(r)
  BY Zenon DEF IInv, FileOK
<1>2. CASE r.op = "read" /\ ~ js[r.st].misused
  <2>1. state[r.st].life = "alive" /\ state[r.st].buf = r.buf
    BY <1>1, <1>2, Zenon DEF RequestOK, ReadOK
  <2>2. state[r.st].life # "deleted"
    BY <2>1
  <2> QED
    BY <1>2, <2>1, <2>2, Zenon DEF Freed, Gone
<1>3. CASE r.op # "read"
  BY <1>3, Zenon DEF Freed
<1> QED
  BY <1>2, <1>3, Zenon

LEMMA NextUsed ==
  ASSUME IInv, UsedOK, [Next]_vars
  PROVE  UsedOK'
<1>1. CASE UNCHANGED vars
  BY <1>1, Zenon DEF UsedOK, InFlight, vars, pool, script
<1>2. ASSUME UseAfterFree, NEW r \in InFlight, Freed(r) \/ (r.op = "read" /\ Gone(r))
      PROVE  UsedOK'
  <2>1. js[r.st].misused \/ (r.op # "read" /\ fs = "deleted")
    BY <1>2, FreedUse, Zenon
  <2>2. fs' = fs /\ js' = js /\ InFlight' = InFlight
    BY <1>2, Zenon DEF UseAfterFree, InFlight, pool, script
  <2> QED
    BY <2>1, <2>2, Zenon DEF UsedOK
<1>3. ASSUME ~ undefined, undefined' = undefined
      PROVE  UsedOK'
  BY <1>3, Zenon DEF UsedOK
<1>4. CASE late_cb
  <2>1. Head(done) \in InFlight
    <3>1. done # <<>> /\ done \in Seq(Request)
      BY <1>4, Zenon DEF late_cb, IInv, TypeOK
    <3>2. 1 \in 1 .. Len(done) /\ Head(done) = done[1]
      BY <3>1
    <3> QED
      BY <3>2, InFlightMembers, Zenon DEF IInv
  <2> QED
    BY <1>2, <1>4, <2>1, Zenon DEF late_cb
<1>5. ASSUME NEW r \in running, Kernel(r), ~ undefined
      PROVE  UsedOK'
  <2>1. r \in InFlight
    BY InFlightMembers, Zenon DEF IInv
  <2>2. undefined' = undefined \/ (UseAfterFree /\ r.op = "read" /\ Gone(r))
    BY <1>5, Zenon DEF Kernel, sys_open, sys_read, sys_close, SysCall
  <2> QED
    BY <1>2, <1>3, <1>5, <2>1, <2>2, Zenon
<1>7. undefined' = undefined \/ late_cb \/ (\E r \in running : Kernel(r)) \/ UNCHANGED vars
  <2>1. CASE Calls
    BY <2>1, Zenon DEF Calls, open_file_async, read_file_async, read_unknown, close_file_async,
                       close_unknown, fs_finalizer, Submit
  <2>2. CASE Take \/ (\E r \in running : Complete(r))
    BY <2>2, Zenon DEF Take, Complete
  <2>3. CASE open_file_async_cb \/ read_file_async_cb \/ close_file_async_cb
    BY <2>3, Zenon DEF open_file_async_cb, read_file_async_cb, close_file_async_cb, Due
  <2> QED
    BY <2>1, <2>2, <2>3, Zenon DEF Next, Step, Callback, Quiet
<1>8. ~ undefined \/ UNCHANGED vars
  BY Zenon DEF Next, Quiet
<1> QED
  BY <1>1, <1>3, <1>4, <1>5, <1>7, <1>8, Zenon

\* The invariant, for every script (src/builtins/fs.cc).
THEOREM Invariant == Spec => [](IInv /\ UsedOK)
<1>1. Init => IInv /\ UsedOK
  BY InitIInv, Zenon DEF Init, UsedOK
<1>2. IInv /\ UsedOK /\ [Next]_vars => (IInv /\ UsedOK)'
  BY NextIInv, NextUsed, Zenon
<1> QED
  BY <1>1, <1>2, PTL DEF Spec

\* The callback and the thread of a request find its FileOpState and its buffer
\* unless the script closed the file, or read another length, during a read of
\* it; and freed memory is used for such a file only, or by an open or a close
\* whose FileSystem was collected (open_file_async_cb, read_file_async_cb,
\* close_file_async_cb).
THEOREM RequestsLive == Spec => []LiveRequests
<1>1. IInv /\ UsedOK => LiveRequests
  <2>1. SUFFICES ASSUME IInv, NEW r \in InFlight, ~ js[r.st].misused
                 PROVE  state[r.st].life = "alive" /\ (r.op = "read" => ~ Gone(r))
    BY Zenon DEF LiveRequests, UsedOK
  <2>2. RequestOK(r) /\ r.op \in {"open", "read", "close"}
    BY <2>1, InFlightMembers, Zenon DEF IInv, FileOK, Request
  <2> QED
    BY <2>1, <2>2, Zenon DEF RequestOK, OpenOK, ReadOK, CloseOK, Gone
<1> QED
  BY <1>1, Invariant, PTL

\* A read returns the bytes of the file its script opened, however descriptors
\* are reused, unless the script closed it during the read (read_file_async).
THEOREM ReadsRightFile == Spec => []RightFile
<1>1. IInv => RightFile
  BY InFlightMembers, Zenon DEF IInv, FileOK, RequestOK, ReadOK, RightFile
<1> QED
  BY <1>1, Invariant, PTL

\* The map has a file that the script holds open, except after an open that
\* overtook the callback of a close (close_file_async_cb).
THEOREM DescriptorKnown == Spec => []FdKnown
<1>1. IInv => FdKnown
  BY Zenon DEF IInv, FileOK, HeldOK, FdKnown
<1> QED
  BY <1>1, Invariant, PTL
=============================================================================
