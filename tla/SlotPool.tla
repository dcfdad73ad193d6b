------------------------------ MODULE SlotPool ------------------------------
(***************************************************************************)
(* What a memory pool promises its callers, whatever its data structure: a *)
(* slot is handed out zeroed and only while nobody holds it, what is in a  *)
(* held slot is the holder's alone, a null pointer means that every slot   *)
(* is held, and releasing a slot that is not held ends the program.        *)
(***************************************************************************)
CONSTANTS Slots, NoSlot

VARIABLES
  content,   \* "none" for a slot nobody holds, else what is in it
  ret,       \* what the last acquire returned
  aborted    \* has an assertion failed?

vars == <<content, ret, aborted>>

Init ==
  /\ content = [s \in Slots |-> "none"]
  /\ ret = NoSlot
  /\ aborted = FALSE

Acquire ==
  \E s \in Slots :
    /\ content[s] = "none"
    /\ content' = [content EXCEPT ![s] = "zero"]
    /\ ret' = s
    /\ UNCHANGED aborted

Exhausted ==
  /\ \A s \in Slots : content[s] # "none"
  /\ ret' = NoSlot
  /\ UNCHANGED <<content, aborted>>

Write(s) ==
  /\ content[s] # "none"
  /\ content' = [content EXCEPT ![s] = "user"]
  /\ UNCHANGED <<ret, aborted>>

Release(s) ==
  /\ content[s] # "none"
  /\ content' = [content EXCEPT ![s] = "none"]
  /\ UNCHANGED <<ret, aborted>>

DoubleRelease(s) ==
  /\ content[s] = "none"
  /\ aborted' = TRUE
  /\ UNCHANGED <<content, ret>>

Next ==
  /\ ~ aborted
  /\ \/ Acquire \/ Exhausted
     \/ \E s \in Slots : Write(s) \/ Release(s) \/ DoubleRelease(s)

Spec == Init /\ [][Next]_vars
=============================================================================
