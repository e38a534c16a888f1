----------------------------- MODULE ThreadPool -----------------------------
(***************************************************************************)
(* What the table of threads promises to those who create and end threads:  *)
(* each structure goes round in one order.  It is free, is handed out to     *)
(* one creator, is given up once by whoever ends its thread, and is free     *)
(* again.  Structures change one at a time.  The list, the atomic            *)
(* instructions and their retries are the business of ThreadTable, which     *)
(* implements this specification if one thread creates at a time.            *)
(***************************************************************************)
CONSTANT Ids  \* the structures

VARIABLE state  \* of each structure

Init == state = [i \in Ids |-> "free"]

\* alloc_thread()
Reserve(i) == state[i] = "free" /\ state' = [state EXCEPT ![i] = "reserved"]

\* free_thread_info() is called ...
GiveUp(i) == state[i] = "reserved" /\ state' = [state EXCEPT ![i] = "returning"]

\* ... and has put the structure back.
Recycle(i) == state[i] = "returning" /\ state' = [state EXCEPT ![i] = "free"]

Next == \E i \in Ids : Reserve(i) \/ GiveUp(i) \/ Recycle(i)

Spec == Init /\ [][Next]_state
=============================================================================
