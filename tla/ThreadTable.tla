---------------------------- MODULE ThreadTable ----------------------------
(***************************************************************************)
(* The table of Prolog threads of the engine (pl-thread.c): the structures  *)
(* PL_thread_info_t, which are never given back to the system, the list     *)
(* GD->thread.free from which alloc_thread() takes them and to which        *)
(* free_thread_info() returns them without a lock, and thread_highest_id,   *)
(* the bound of every loop over all threads: marking for the atom and the   *)
(* clause garbage collector, the in-use tests of hash tables and local      *)
(* data, halt.                                                              *)
(*                                                                          *)
(* A step is one access to a shared word, an atomic instruction, or a       *)
(* section that L_THREAD protects.  A structure is named by its pl_tid; the *)
(* main thread is 1 and never leaves.                                       *)
(***************************************************************************)
EXTENDS Naturals

CONSTANTS Creators,  \* threads that call alloc_thread(): thread_create/3, ...
          Freers,    \* threads that call free_thread_info()
          MaxThreads,  \* bound: structures that are allocated, main included
          MaxAllocs  \* bound: calls of alloc_thread() by one creator

ASSUME TableAssumption == /\ MaxThreads \in Nat \ {0} /\ MaxAllocs \in Nat
                          /\ Creators \cap Freers = {}

Actors == Creators \cup Freers
Ids == 2..MaxThreads
NULL == 0

VARIABLES
    free,                \* GD->thread.free
    next_free, status,   \* of each structure
    highest_allocated, thread_highest_id,
    pc, info,            \* of each actor: where it is, the structure it has
    tmp,                 \* its copy of next_free, mx, i or freelist
    leaving,             \* the structures some freer is about to free
    allocs               \* what MaxAllocs counts

list == <<free, next_free>>
vars == <<list, status, highest_allocated, thread_highest_id, pc, info, tmp,
          leaving, allocs>>

Init ==
    /\ free = NULL
    /\ next_free = [i \in Ids |-> NULL]
    /\ status = [i \in Ids |-> "UNUSED"]
    /\ highest_allocated = 1 /\ thread_highest_id = 1
    /\ pc = [a \in Actors |-> "idle"]
    /\ info = [a \in Actors |-> NULL] /\ tmp = [a \in Actors |-> NULL]
    /\ leaving = {}
    /\ allocs = [a \in Creators |-> 0]

Goto(a, where) == pc' = [pc EXCEPT ![a] = where]

\* alloc_thread() has got structure i for creator a and has not returned it.
Gets(a, i) == info[a] = i /\ pc[a] \in {"take", "raise", "raise_cas"}

-----------------------------------------------------------------------------
(* alloc_thread()                                                           *)

\* info = GD->thread.free
ReadFree(a) ==
    /\ \/ pc[a] = "idle" /\ allocs[a] < MaxAllocs
             /\ allocs' = [allocs EXCEPT ![a] = @ + 1]
       \/ pc[a] = "retry" /\ UNCHANGED allocs
    /\ info' = [info EXCEPT ![a] = free]
    /\ Goto(a, IF free = NULL THEN "new" ELSE "next")
    /\ UNCHANGED <<list, status, highest_allocated, thread_highest_id, tmp, leaving>>

\* info->next_free, the new value of the COMPARE_AND_SWAP() ...
ReadNext(a) ==
    /\ pc[a] = "next"
    /\ tmp' = [tmp EXCEPT ![a] = next_free[info[a]]]
    /\ Goto(a, "pop")
    /\ UNCHANGED <<list, status, highest_allocated, thread_highest_id, info, leaving,
                   allocs>>

\* Mutant: the new head is stored without a comparison.
Overwrites(a) == TRUE

\* The head of the list is still the structure that next_free was read from.
HeadStays(a) == free = info[a]

\* ... which replaces the head of the list, if it is still the same.
TryPop(a) ==
    /\ pc[a] = "pop"
    /\ IF HeadStays(a) THEN free' = tmp[a] /\ Goto(a, "take")
                       ELSE Goto(a, "retry") /\ UNCHANGED free
    /\ UNCHANGED <<next_free, status, highest_allocated, thread_highest_id, info, tmp,
                   leaving, allocs>>

\* A structure from the list: asserted to be UNUSED, cleared, RESERVED.
Take(a) ==
    /\ pc[a] = "take"
    /\ next_free' = [next_free EXCEPT ![info[a]] = NULL]
    /\ status' = [status EXCEPT ![info[a]] = "RESERVED"]
    /\ Goto(a, "raise")
    /\ UNCHANGED <<free, highest_allocated, thread_highest_id, info, tmp, leaving, allocs>>

\* No structure in the list: a new one, numbered with L_THREAD held.
New(a) ==
    /\ pc[a] = "new" /\ highest_allocated < MaxThreads
    /\ highest_allocated' = highest_allocated + 1
    /\ info' = [info EXCEPT ![a] = highest_allocated + 1]
    /\ status' = [status EXCEPT ![highest_allocated + 1] = "RESERVED"]
    /\ Goto(a, "raise")
    /\ UNCHANGED <<list, thread_highest_id, tmp, leaving, allocs>>

\* mx = thread_highest_id
ReadHighest(a) ==
    /\ pc[a] = "raise"
    /\ tmp' = [tmp EXCEPT ![a] = thread_highest_id]
    /\ Goto(a, "raise_cas")
    /\ UNCHANGED <<list, status, highest_allocated, thread_highest_id, info, leaving,
                   allocs>>

\* Raise thread_highest_id to the number of the structure unless it is as high.
Raise(a) ==
    /\ pc[a] = "raise_cas"
    /\ IF info[a] <= tmp[a]
       THEN Goto(a, "idle") /\ UNCHANGED thread_highest_id
       ELSE IF thread_highest_id = tmp[a]
            THEN thread_highest_id' = info[a] /\ Goto(a, "idle")
            ELSE Goto(a, "raise") /\ UNCHANGED thread_highest_id
    /\ info' = [info EXCEPT ![a] = IF pc'[a] = "idle" THEN NULL ELSE @]
    /\ tmp' = [tmp EXCEPT ![a] = IF pc'[a] = "idle" THEN NULL ELSE @]
    /\ UNCHANGED <<list, status, highest_allocated, leaving, allocs>>

-----------------------------------------------------------------------------
(* free_thread_info()                                                       *)

\* The thread has ended or was joined.  Its structure becomes UNUSED.
Mark(a) ==
    /\ pc[a] = "idle"
    /\ \E i \in Ids \ leaving :
          /\ status[i] # "UNUSED"
          /\ \A c \in Creators : ~Gets(c, i)
          /\ info' = [info EXCEPT ![a] = i]
          /\ status' = [status EXCEPT ![i] = "UNUSED"]
          /\ leaving' = leaving \cup {i}
    /\ Goto(a, "highest")
    /\ UNCHANGED <<list, highest_allocated, thread_highest_id, tmp, allocs>>

\* Is it the one with the highest number?
TestHighest(a) ==
    /\ pc[a] = "highest"
    /\ IF info[a] = thread_highest_id
       THEN tmp' = [tmp EXCEPT ![a] = info[a] - 1] /\ Goto(a, "scan")
       ELSE Goto(a, "push") /\ UNCHANGED tmp
    /\ UNCHANGED <<list, status, highest_allocated, thread_highest_id, info, leaving,
                   allocs>>

\* Look downwards for one that is in use ...
Scan(a) ==
    /\ pc[a] = "scan"
    /\ IF tmp[a] > 1 /\ status[tmp[a]] = "UNUSED"
       THEN tmp' = [tmp EXCEPT ![a] = @ - 1] /\ UNCHANGED pc
       ELSE Goto(a, "shrink") /\ UNCHANGED tmp
    /\ UNCHANGED <<list, status, highest_allocated, thread_highest_id, info, leaving,
                   allocs>>

\* Mutant: the loop has already stepped past the one it found.
PastFound(a) == tmp[a] - 1

\* Where the loop stopped.
Found(a) == tmp[a]

\* ... and make that the highest, unless thread_highest_id has changed.
Shrink(a) ==
    /\ pc[a] = "shrink"
    /\ thread_highest_id' = IF thread_highest_id = info[a] THEN Found(a)
                                                           ELSE thread_highest_id
    /\ Goto(a, "push")
    /\ UNCHANGED <<list, status, highest_allocated, info, tmp, leaving, allocs>>

\* freelist = GD->thread.free; info->next_free = freelist
Link(a) ==
    /\ pc[a] = "push"
    /\ tmp' = [tmp EXCEPT ![a] = free]
    /\ next_free' = [next_free EXCEPT ![info[a]] = free]
    /\ Goto(a, "push_cas")
    /\ UNCHANGED <<free, status, highest_allocated, thread_highest_id, info, leaving,
                   allocs>>

\* The head of the list is still the one info->next_free refers to.
Unchanged(a) == free = tmp[a]

TryPush(a) ==
    /\ pc[a] = "push_cas"
    /\ IF Unchanged(a)
       THEN /\ free' = info[a]
            /\ Goto(a, "idle")
            /\ leaving' = leaving \ {info[a]}
            /\ info' = [info EXCEPT ![a] = NULL] /\ tmp' = [tmp EXCEPT ![a] = NULL]
       ELSE /\ Goto(a, "push")
            /\ UNCHANGED <<free, leaving, info, tmp>>
    /\ UNCHANGED <<next_free, status, highest_allocated, thread_highest_id, allocs>>

-----------------------------------------------------------------------------
alloc_thread(a) == \/ ReadFree(a) \/ ReadNext(a) \/ TryPop(a) \/ Take(a) \/ New(a)
                   \/ ReadHighest(a) \/ Raise(a)
free_thread_info(a) == \/ Mark(a) \/ TestHighest(a) \/ Scan(a) \/ Shrink(a)
                       \/ Link(a) \/ TryPush(a)

Next == \/ \E a \in Creators : alloc_thread(a)
        \/ \E a \in Freers : free_thread_info(a)

Spec == Init /\ [][Next]_vars

-----------------------------------------------------------------------------
(* Properties.                                                              *)

\* Nothing of what two actors do at the same time leaves the types: the
\* bounds of the table hold for every copy an actor keeps.
TypeOK ==
    /\ free \in Ids \cup {NULL}
    /\ next_free \in [Ids -> Ids \cup {NULL}]
    /\ status \in [Ids -> {"UNUSED", "RESERVED"}]
    /\ highest_allocated \in 1..MaxThreads
    /\ thread_highest_id \in 1..highest_allocated
    /\ info \in [Actors -> Ids \cup {NULL}]
    /\ tmp \in [Actors -> 0..MaxThreads]
    /\ leaving \subseteq Ids
    /\ allocs \in [Creators -> 0..MaxAllocs]

\* What alloc_thread() asserts of a structure it took from the list, and that
\* no two threads get the same one.
AllocFresh ==
    \A a \in Actors : pc[a] = "take" =>
        /\ status[info[a]] = "UNUSED"
        /\ \A b \in Creators \ {a} : ~Gets(b, info[a])

\* A set of structures that has the head of the list and, with a structure,
\* the one its next_free refers to.
Closed(S) == /\ free # NULL => free \in S
             /\ \A i \in S : next_free[i] # NULL => next_free[i] \in S

\* The structures of the list: those that are in every such set.
Listed == {i \in Ids : \A S \in SUBSET Ids : Closed(S) => i \in S}

\* The actors that have structure i: freers, and a creator that has just taken it.
Holders(i) == {a \in Actors : info[a] = i /\ (a \in Freers \/ pc[a] = "take")}

\* Every structure is either used by a thread, in the hands of one actor, or in
\* the list: none is lost, and none is in two of these places.
NoneLost ==
    \A i \in 2..highest_allocated :
        /\ status[i] # "UNUSED" \/ Holders(i) # {} \/ i \in Listed
        /\ status[i] # "UNUSED" => Holders(i) = {} /\ i \notin Listed
        /\ Holders(i) # {} => i \notin Listed
        /\ \A a, b \in Holders(i) : a = b

\* To creators and enders of threads the list and its atomic instructions are a
\* pool: what an allocation takes was free and is nobody else's, what is given up
\* comes back once, and no step changes the place of two structures.
Place == [i \in Ids |-> IF i > highest_allocated \/ i \in Listed THEN "free"
                        ELSE IF i \in leaving THEN "returning" ELSE "reserved"]
Pool == INSTANCE ThreadPool WITH state <- Place
ImplementsPool == Pool!Spec

\* thread_highest_id is what its declaration says, the highest number handed
\* out: no thread that alloc_thread() has returned is beyond the bound of the
\* loops over all threads.
HighestCovers ==
    \A i \in Ids : (status[i] # "UNUSED" /\ \A a \in Creators : ~Gets(a, i))
                      => i <= thread_highest_id
=============================================================================
