------------------------- MODULE ThreadTableProofs -------------------------
(***************************************************************************)
(* Proofs about ThreadTable, for every size of the table and any number of  *)
(* freers.                                                                  *)
(***************************************************************************)
EXTENDS ThreadTable, TLAPS

CreatorPlaces == {"idle", "retry", "new", "next", "pop", "take", "raise", "raise_cas"}
FreerPlaces == {"idle", "highest", "scan", "shrink", "push", "push_cas"}

\* The structures that have been allocated, main aside.
Allocated == {i \in Ids : i <= highest_allocated}

\* TypeOK, and what it rests on: every reference is to an allocated structure,
\* and a freer looks for a lower number below its own.
Bounded ==
  /\ TypeOK
  /\ \A a \in Creators :
        /\ pc[a] \in CreatorPlaces
        /\ pc[a] \in {"next", "pop", "take", "raise", "raise_cas"} => info[a] # NULL
  /\ \A a \in Freers :
        /\ pc[a] \in FreerPlaces
        /\ pc[a] # "idle" => info[a] # NULL
        /\ pc[a] \in {"scan", "shrink"} => tmp[a] \in 1..(info[a] - 1)
        /\ pc[a] = "push_cas" => tmp[a] \in Allocated \cup {NULL}
  /\ \A a \in Creators : pc[a] = "pop" => tmp[a] \in Allocated \cup {NULL}
  /\ free \in Allocated \cup {NULL}
  /\ \A i \in Ids : next_free[i] \in Allocated \cup {NULL}
  /\ \A a \in Actors : info[a] \in Allocated \cup {NULL}
  /\ \A i \in Ids : status[i] # "UNUSED" => i \in Allocated
  /\ pc \in [Actors -> CreatorPlaces \cup FreerPlaces]

\* One thread creates threads: two that race for the head of the list can be
\* handed the same structure.
OneCreator == \A a, b \in Creators : a = b

\* The freers that are inside free_thread_info().
Inside == {a \in Freers : pc[a] # "idle"}

\* What keeps the list a list: no two structures are followed by the same one,
\* and none is followed by the head.
ListSound == \A i \in Listed :
  /\ status[i] = "UNUSED"
  /\ next_free[i] # NULL => /\ next_free[i] # free
                            /\ \A j \in Listed : next_free[i] = next_free[j] => i = j

\* A structure that is being freed is out of everybody else's reach, and
\* next_free is what the freer compares the head with.
FreerSound == \A a \in Inside :
  /\ info[a] \in leaving /\ info[a] \notin Listed /\ status[info[a]] = "UNUSED"
  /\ pc[a] = "push_cas" => next_free[info[a]] = tmp[a]
  /\ \A b \in Inside : info[a] = info[b] => a = b
LeavingSound == /\ \A i \in leaving : \E a \in Inside : info[a] = i
                /\ \A a \in Freers \ Inside : info[a] = NULL

\* The structure a creator looks at stays in the list, so that next_free is still
\* what it read; the one it has taken is nobody else's.
CreatorSound == \A a \in Creators :
  /\ pc[a] \in {"next", "pop"} => info[a] \in Listed
  /\ pc[a] = "pop" => tmp[a] = next_free[info[a]]
  /\ pc[a] = "take" => /\ info[a] \notin Listed /\ info[a] \notin leaving
                       /\ status[info[a]] = "UNUSED"
  /\ pc[a] \in {"raise", "raise_cas"} => status[info[a]] # "UNUSED"

\* No structure is lost.
Covered == \A i \in Allocated :
  \/ status[i] # "UNUSED" \/ i \in leaving \/ i \in Listed
  \/ \E a \in Creators : pc[a] = "take" /\ info[a] = i

Sound == ListSound /\ FreerSound /\ LeavingSound /\ CreatorSound /\ Covered

-----------------------------------------------------------------------------
(* Types and bounds.                                                        *)

\* The bounds hold at the start.
LEMMA InitBounded == Init => Bounded
BY TableAssumption DEF Init, Bounded, TypeOK, Allocated, Ids, NULL, Actors,
   CreatorPlaces, FreerPlaces

\* Steps keep the types and bounds, whoever takes them.
LEMMA BoundedKept == Bounded /\ [Next]_vars => Bounded'
<1>. SUFFICES ASSUME Bounded, [Next]_vars PROVE Bounded'
  OBVIOUS
<1>. USE TableAssumption DEF Actors, NULL, Ids, list
<1>1. CASE UNCHANGED vars
  BY <1>1 DEF vars, Bounded, TypeOK, Allocated, Inside
<1>2. ASSUME NEW a \in Creators, ReadFree(a) PROVE Bounded'
  <2>0. allocs' \in [Creators -> 0..MaxAllocs]
    <3>1. allocs \in [Creators -> 0..MaxAllocs]
      BY DEF Bounded, TypeOK
    <3>2. CASE UNCHANGED allocs
      BY <3>1, <3>2
    <3>3. CASE allocs[a] < MaxAllocs /\ allocs' = [allocs EXCEPT ![a] = @ + 1]
      BY <3>1, <3>3
    <3>. QED
      BY <1>2, <3>2, <3>3 DEF ReadFree
  <2>1. CASE free = NULL
    <3>1. /\ info' = [info EXCEPT ![a] = 0]
          /\ pc' = [pc EXCEPT ![a] = "new"]
          /\ UNCHANGED <<list, status, highest_allocated, thread_highest_id, tmp, leaving>>
      BY <1>2, <2>1 DEF ReadFree, Goto, Bounded, TypeOK
    <3>2. TypeOK'
      BY <2>0, <2>1, <3>1 DEF Bounded, TypeOK, Allocated, CreatorPlaces, FreerPlaces
    <3>. QED
      BY <2>1, <3>1, <3>2 DEF Bounded, TypeOK, Allocated, CreatorPlaces, FreerPlaces
  <2>2. CASE free # NULL
    <3>1. /\ info' = [info EXCEPT ![a] = free]
          /\ pc' = [pc EXCEPT ![a] = "next"]
          /\ UNCHANGED <<list, status, highest_allocated, thread_highest_id, tmp, leaving>>
      BY <1>2, <2>2 DEF ReadFree, Goto, Bounded, TypeOK
    <3>2. TypeOK'
      BY <2>0, <2>2, <3>1 DEF Bounded, TypeOK, Allocated, CreatorPlaces, FreerPlaces
    <3>. QED
      BY <2>2, <3>1, <3>2 DEF Bounded, TypeOK, Allocated, CreatorPlaces, FreerPlaces
  <2>. QED
    BY <2>1, <2>2
<1>3. ASSUME NEW a \in Creators, ReadNext(a) PROVE Bounded'
  BY <1>3, SMTT(30) DEF ReadNext, Goto, Bounded, TypeOK, Allocated, CreatorPlaces, FreerPlaces
<1>4. ASSUME NEW a \in Creators, TryPop(a) PROVE Bounded'
  <2>1. CASE free = info[a]
    <3>1. /\ pc' = [pc EXCEPT ![a] = "take"]
          /\ free' = tmp[a] /\ pc[a] = "pop"
          /\ UNCHANGED <<next_free, status, highest_allocated, thread_highest_id, info, tmp, leaving, allocs>>
      BY <1>4, <2>1 DEF TryPop, HeadStays, Goto, Bounded, TypeOK
    <3>2. TypeOK'
      BY <3>1 DEF Bounded, TypeOK, Allocated, CreatorPlaces, FreerPlaces
    <3>. QED
      BY <3>1, <3>2 DEF Bounded, TypeOK, Allocated, CreatorPlaces, FreerPlaces
  <2>2. CASE free # info[a]
    <3>1. /\ pc' = [pc EXCEPT ![a] = "retry"]
          /\ UNCHANGED <<list, status, highest_allocated, thread_highest_id, info, tmp, leaving, allocs>>
      BY <1>4, <2>2 DEF TryPop, HeadStays, Goto, Bounded, TypeOK
    <3>2. TypeOK'
      BY <3>1 DEF Bounded, TypeOK, Allocated, CreatorPlaces, FreerPlaces
    <3>. QED
      BY <3>1, <3>2 DEF Bounded, TypeOK, Allocated, CreatorPlaces, FreerPlaces
  <2>. QED
    BY <2>1, <2>2
<1>5. ASSUME NEW a \in Creators, Take(a) PROVE Bounded'
  BY <1>5 DEF Take, Goto, Bounded, TypeOK, Allocated, CreatorPlaces, FreerPlaces
<1>6. ASSUME NEW a \in Creators, New(a) PROVE Bounded'
  BY <1>6 DEF New, Goto, Bounded, TypeOK, Allocated, CreatorPlaces, FreerPlaces
<1>7. ASSUME NEW a \in Creators, ReadHighest(a) PROVE Bounded'
  BY <1>7 DEF ReadHighest, Goto, Bounded, TypeOK, Allocated, CreatorPlaces, FreerPlaces
<1>8. ASSUME NEW a \in Creators, Raise(a) PROVE Bounded'
  <2>1. CASE info[a] <= tmp[a]
    <3>1. /\ pc' = [pc EXCEPT ![a] = "idle"]
          /\ info' = [info EXCEPT ![a] = 0]
          /\ tmp' = [tmp EXCEPT ![a] = 0]
          /\ UNCHANGED thread_highest_id
          /\ UNCHANGED <<list, status, highest_allocated, leaving, allocs>>
      BY <1>8, <2>1 DEF Raise, Goto, Bounded, TypeOK
    <3>2. TypeOK'
      BY <2>1, <3>1 DEF Bounded, TypeOK, Allocated, CreatorPlaces, FreerPlaces
    <3>. QED
      BY <2>1, <3>1, <3>2 DEF Bounded, TypeOK, Allocated, CreatorPlaces, FreerPlaces
  <2>2. CASE ~(info[a] <= tmp[a]) /\ thread_highest_id = tmp[a]
    <3>1. /\ pc' = [pc EXCEPT ![a] = "idle"]
          /\ info' = [info EXCEPT ![a] = 0]
          /\ tmp' = [tmp EXCEPT ![a] = 0]
          /\ thread_highest_id' = info[a]
          /\ UNCHANGED <<list, status, highest_allocated, leaving, allocs>>
      BY <1>8, <2>2 DEF Raise, Goto, Bounded, TypeOK
    <3>2. TypeOK'
      BY <2>2, <3>1 DEF Bounded, TypeOK, Allocated, CreatorPlaces, FreerPlaces
    <3>. QED
      BY <2>2, <3>1, <3>2 DEF Bounded, TypeOK, Allocated, CreatorPlaces, FreerPlaces
  <2>3. CASE ~(info[a] <= tmp[a]) /\ thread_highest_id # tmp[a]
    <3>1. /\ pc' = [pc EXCEPT ![a] = "raise"]
          /\ UNCHANGED <<info, tmp>>
          /\ UNCHANGED thread_highest_id
          /\ UNCHANGED <<list, status, highest_allocated, leaving, allocs>>
      BY <1>8, <2>3 DEF Raise, Goto, Bounded, TypeOK
    <3>2. TypeOK'
      BY <2>3, <3>1 DEF Bounded, TypeOK, Allocated, CreatorPlaces, FreerPlaces
    <3>. QED
      BY <2>3, <3>1, <3>2 DEF Bounded, TypeOK, Allocated, CreatorPlaces, FreerPlaces
  <2>. QED
    BY <2>1, <2>2, <2>3
<1>9. ASSUME NEW a \in Freers, Mark(a) PROVE Bounded'
  BY <1>9 DEF Mark, Goto, Bounded, TypeOK, Allocated, CreatorPlaces, FreerPlaces
<1>10. ASSUME NEW a \in Freers, TestHighest(a) PROVE Bounded'
  <2>1. CASE info[a] = thread_highest_id
    <3>1. /\ pc' = [pc EXCEPT ![a] = "scan"]
          /\ tmp' = [tmp EXCEPT ![a] = info[a] - 1]
          /\ pc[a] = "highest"
          /\ UNCHANGED <<list, status, highest_allocated, thread_highest_id, info, leaving, allocs>>
      BY <1>10, <2>1 DEF TestHighest, Goto, Bounded, TypeOK
    <3>2. TypeOK'
      BY <2>1, <3>1 DEF Bounded, TypeOK, Allocated, CreatorPlaces, FreerPlaces
    <3>. QED
      BY <2>1, <3>1, <3>2 DEF Bounded, TypeOK, Allocated, CreatorPlaces, FreerPlaces
  <2>2. CASE info[a] # thread_highest_id
    <3>1. /\ pc' = [pc EXCEPT ![a] = "push"]
          /\ pc[a] = "highest"
          /\ UNCHANGED <<list, status, highest_allocated, thread_highest_id, info, tmp, leaving, allocs>>
      BY <1>10, <2>2 DEF TestHighest, Goto, Bounded, TypeOK
    <3>2. TypeOK'
      BY <3>1 DEF Bounded, TypeOK, Allocated, CreatorPlaces, FreerPlaces
    <3>. QED
      BY <3>1, <3>2 DEF Bounded, TypeOK, Allocated, CreatorPlaces, FreerPlaces
  <2>. QED
    BY <2>1, <2>2
<1>11. ASSUME NEW a \in Freers, Scan(a) PROVE Bounded'
  <2>1. CASE tmp[a] > 1 /\ status[tmp[a]] = "UNUSED"
    <3>1. /\ UNCHANGED pc
          /\ tmp' = [tmp EXCEPT ![a] = tmp[a] - 1]
          /\ pc[a] = "scan"
          /\ UNCHANGED <<list, status, highest_allocated, thread_highest_id, info, leaving, allocs>>
      BY <1>11, <2>1 DEF Scan, Goto, Bounded, TypeOK
    <3>2. TypeOK'
      BY <2>1, <3>1 DEF Bounded, TypeOK, Allocated, CreatorPlaces, FreerPlaces
    <3>. QED
      BY <2>1, <3>1, <3>2, SMTT(30) DEF Bounded, TypeOK, Allocated, CreatorPlaces, FreerPlaces
  <2>2. CASE ~(tmp[a] > 1 /\ status[tmp[a]] = "UNUSED")
    <3>1. /\ pc' = [pc EXCEPT ![a] = "shrink"]
          /\ pc[a] = "scan"
          /\ UNCHANGED <<list, status, highest_allocated, thread_highest_id, info, tmp, leaving, allocs>>
      BY <1>11, <2>2 DEF Scan, Goto, Bounded, TypeOK
    <3>2. TypeOK'
      BY <3>1 DEF Bounded, TypeOK, Allocated, CreatorPlaces, FreerPlaces
    <3>. QED
      BY <3>1, <3>2 DEF Bounded, TypeOK, Allocated, CreatorPlaces, FreerPlaces
  <2>. QED
    BY <2>1, <2>2
<1>12. ASSUME NEW a \in Freers, Shrink(a) PROVE Bounded'
  BY <1>12 DEF Shrink, Found, Goto, Bounded, TypeOK, Allocated, CreatorPlaces, FreerPlaces
<1>13. ASSUME NEW a \in Freers, Link(a) PROVE Bounded'
  BY <1>13 DEF Link, Goto, Bounded, TypeOK, Allocated, CreatorPlaces, FreerPlaces
<1>14. ASSUME NEW a \in Freers, TryPush(a) PROVE Bounded'
  <2>1. CASE Unchanged(a)
    <3>1. /\ pc' = [pc EXCEPT ![a] = "idle"]
          /\ info' = [info EXCEPT ![a] = 0]
          /\ tmp' = [tmp EXCEPT ![a] = 0]
          /\ free' = info[a]
          /\ leaving' \subseteq leaving
          /\ UNCHANGED <<next_free, status, highest_allocated, thread_highest_id, allocs>>
      BY <1>14, <2>1 DEF TryPush, Goto, Bounded, TypeOK
    <3>2. TypeOK'
      BY <2>1, <3>1 DEF Bounded, TypeOK, Allocated, CreatorPlaces, FreerPlaces
    <3>. QED
      BY <2>1, <3>1, <3>2 DEF Bounded, TypeOK, Allocated, CreatorPlaces, FreerPlaces
  <2>2. CASE ~Unchanged(a)
    <3>1. /\ pc[a] = "push_cas"
          /\ pc' = [pc EXCEPT ![a] = "push"]
          /\ UNCHANGED <<free, leaving, info, tmp>>
          /\ UNCHANGED <<next_free, status, highest_allocated, thread_highest_id, allocs>>
      BY <1>14, <2>2 DEF TryPush, Goto, Bounded, TypeOK
    <3>2. TypeOK'
      BY <2>2, <3>1 DEF Bounded, TypeOK, Allocated, CreatorPlaces, FreerPlaces
    <3>. QED
      BY <2>2, <3>1, <3>2 DEF Bounded, TypeOK, Allocated, CreatorPlaces, FreerPlaces
  <2>. QED
    BY <2>1, <2>2
<1>. QED
  BY <1>1, <1>2, <1>3, <1>4, <1>5, <1>6, <1>7, <1>8, <1>9, <1>10, <1>11, <1>12, <1>13, <1>14
  DEF Next, alloc_thread, free_thread_info

-----------------------------------------------------------------------------
(* The list.                                                                *)

\* The list has its head and, with a structure, the next one, and is part of
\* every set that does.
LEMMA ListedClosed ==
  ASSUME Bounded
  PROVE  /\ Listed \subseteq Ids /\ Closed(Listed)
         /\ \A S \in SUBSET Ids : Closed(S) => Listed \subseteq S
<1>1. Listed \subseteq Ids /\ \A S \in SUBSET Ids : Closed(S) => Listed \subseteq S
  BY DEF Listed
<1>2. free # NULL => free \in Listed
  BY DEF Listed, Closed, Bounded, TypeOK
<1>3. ASSUME NEW i \in Listed, next_free[i] # NULL PROVE next_free[i] \in Listed
  <2>1. next_free[i] \in Ids /\ i \in Ids
    BY <1>1, <1>3 DEF Bounded, TypeOK
  <2>2. \A S \in SUBSET Ids : Closed(S) => next_free[i] \in S
    BY <1>1, <1>3 DEF Closed
  <2>. QED
    BY <2>1, <2>2 DEF Listed
<1>. QED
  BY <1>1, <1>2, <1>3 DEF Closed

\* A structure that is not in the list may be linked to another.
LEMMA ListedStays ==
  ASSUME Bounded, free' = free,
         \A i \in Listed : next_free'[i] = next_free[i]
  PROVE  Listed' = Listed
<1>1. Listed' \subseteq Listed
  <2>1. PICK L \in SUBSET Ids : L = Listed
    BY ListedClosed
  <2>2. Closed(L)'
    BY <2>1, ListedClosed DEF Closed
  <2>. QED
    BY <2>1, <2>2 DEF Listed
<1>2. ASSUME NEW S \in SUBSET Ids, Closed(S)' PROVE Listed \subseteq S
  <2>1. Closed(S \cap Listed)
    BY <1>2, ListedClosed DEF Closed
  <2>. QED
    BY <2>1, ListedClosed
<1>3. Listed \subseteq Listed'
  BY <1>2, ListedClosed DEF Listed
<1>. QED
  BY <1>1, <1>3

\* Pushing a structure that was not in the list.
LEMMA PushListed ==
  ASSUME Bounded, NEW x \in Ids, next_free[x] = free, free' = x,
         next_free' = next_free
  PROVE  Listed' = Listed \cup {x}
<1>1. x # NULL
  BY DEF Ids, NULL
<1>2. PICK L \in SUBSET Ids : L = Listed \cup {x}
  BY ListedClosed
<1>a. Closed(L)'
  BY <1>2, ListedClosed DEF Closed
<1>3. ASSUME NEW S \in SUBSET Ids, Closed(S)' PROVE Listed \cup {x} \subseteq S
  <2>1. x \in S /\ Closed(S)
    BY <1>1, <1>3 DEF Closed
  <2>. QED
    BY <2>1, ListedClosed
<1>4. Listed' \subseteq Listed \cup {x}
  BY <1>2, <1>a DEF Listed
<1>5. Listed \cup {x} \subseteq Listed'
  BY <1>2, <1>3 DEF Listed
<1>. QED
  BY <1>4, <1>5

\* Popping the head, which nothing is followed by.
LEMMA PopListed ==
  ASSUME Bounded, free # NULL, free' = next_free[free], next_free' = next_free,
         \A i \in Listed : next_free[i] # free
  PROVE  Listed' = Listed \ {free}
<1>0. free \in Listed
  BY ListedClosed DEF Closed
<1>1. PICK L \in SUBSET Ids : L = Listed \ {free}
  BY ListedClosed
<1>a. Closed(L)'
  BY <1>0, <1>1, ListedClosed DEF Closed
<1>2. ASSUME NEW S \in SUBSET Ids, Closed(S)' PROVE Listed \ {free} \subseteq S
  <2>1. Closed(S \cup {free}) /\ S \cup {free} \in SUBSET Ids
    BY <1>0, <1>2, ListedClosed DEF Closed
  <2>. QED
    BY <2>1, ListedClosed
<1>3. Listed' \subseteq Listed \ {free}
  BY <1>1, <1>a DEF Listed
<1>4. Listed \ {free} \subseteq Listed'
  BY <1>1, <1>2 DEF Listed
<1>. QED
  BY <1>3, <1>4

\* What is in the list or in the hands of a freer has been allocated.
LEMMA ListedAllocated ==
  ASSUME Bounded, Sound
  PROVE  Listed \subseteq Allocated /\ leaving \subseteq Allocated
<1>1. Closed(Allocated) /\ Allocated \in SUBSET Ids
  BY DEF Bounded, Closed, Allocated
<1>2. Listed \subseteq Allocated
  BY <1>1, ListedClosed
<1>3. leaving \subseteq Allocated
  BY DEF Sound, LeavingSound, FreerSound, Bounded, TypeOK, Allocated, Ids, NULL, Inside, Actors
<1>. QED
  BY <1>2, <1>3

\* The list is empty at the start.
LEMMA InitSound == Init => Sound
<1>. SUFFICES ASSUME Init PROVE Sound
  OBVIOUS
<1>1. Closed({})
  BY DEF Init, Closed, NULL
<1>2. Listed = {}
  BY <1>1 DEF Listed
<1>3. Allocated = {}
  BY DEF Init, Allocated, Ids
<1>4. Inside = {}
  BY DEF Init, Inside, Actors
<1>. QED
  BY <1>2, <1>3, <1>4 DEF Init, Sound, ListSound, FreerSound, LeavingSound, CreatorSound,
     Covered, Actors

\* With one creator steps keep the list and its bookkeeping sound.
LEMMA SoundKept ==
  ASSUME OneCreator, Bounded, Sound, [Next]_vars, Bounded'
  PROVE  Sound'
<1>. USE TableAssumption DEF Actors
<1>0. /\ pc \in [Actors -> CreatorPlaces \cup FreerPlaces]
      /\ info \in [Actors -> Ids \cup {NULL}] /\ tmp \in [Actors -> 0..MaxThreads]
      /\ next_free \in [Ids -> Ids \cup {NULL}]
      /\ status \in [Ids -> {"UNUSED", "RESERVED"}]
      /\ \A a \in Inside : info[a] \in Ids
      /\ \A a \in Creators : pc[a] \in CreatorPlaces
      /\ \A a \in Creators : pc[a] \in {"next", "pop", "take", "raise", "raise_cas"} => info[a] \in Ids
  BY DEF Bounded, TypeOK, Inside
<1>1. Listed \subseteq Ids /\ Closed(Listed)
  BY ListedClosed
<1>2. CASE UNCHANGED vars
  <2>1. Listed' = Listed
    BY <1>2, ListedStays DEF vars, list
  <2>. QED
    BY <1>2, <2>1 DEF vars, list, Sound, ListSound, FreerSound, LeavingSound, CreatorSound,
       Covered, Inside, Allocated
<1>3. ASSUME NEW a \in Creators, ReadFree(a) PROVE Sound'
  <2>1. Listed' = Listed
    BY <1>3, ListedStays DEF ReadFree, list
  <2>2. ListSound'
    BY <1>0, <1>1, <1>3, <2>1 DEF ReadFree, Goto, list, Sound, ListSound, Closed
  <2>3. FreerSound'
    BY <1>0, <1>1, <1>3, <2>1 DEF ReadFree, Goto, list, Sound, FreerSound, LeavingSound, Inside
  <2>4. LeavingSound'
    BY <1>0, <1>1, <1>3, <2>1 DEF ReadFree, Goto, list, Sound, LeavingSound, FreerSound, Inside
  <2>5. CreatorSound'
    BY <1>0, <1>1, <1>3, <2>1 DEF ReadFree, Goto, list, Sound, CreatorSound, LeavingSound, FreerSound, Inside, Closed
  <2>6. Covered'
    BY <1>0, <1>1, <1>3, <2>1 DEF ReadFree, Goto, list, Sound, Covered, Allocated, CreatorSound
  <2>. QED
    BY <2>2, <2>3, <2>4, <2>5, <2>6 DEF Sound
<1>4. ASSUME NEW a \in Creators, ReadNext(a) PROVE Sound'
  <2>1. Listed' = Listed
    BY <1>4, ListedStays DEF ReadNext, list
  <2>2. ListSound'
    BY <1>0, <1>1, <1>4, <2>1 DEF ReadNext, Goto, list, Sound, ListSound, Closed
  <2>3. FreerSound'
    BY <1>0, <1>1, <1>4, <2>1 DEF ReadNext, Goto, list, Sound, FreerSound, LeavingSound, Inside
  <2>4. LeavingSound'
    BY <1>0, <1>1, <1>4, <2>1 DEF ReadNext, Goto, list, Sound, LeavingSound, FreerSound, Inside
  <2>5. CreatorSound'
    BY <1>0, <1>1, <1>4, <2>1 DEF ReadNext, Goto, list, Sound, CreatorSound, LeavingSound, FreerSound, Inside, Closed
  <2>6. Covered'
    BY <1>0, <1>1, <1>4, <2>1 DEF ReadNext, Goto, list, Sound, Covered, Allocated, CreatorSound
  <2>. QED
    BY <2>2, <2>3, <2>4, <2>5, <2>6 DEF Sound
<1>5. ASSUME NEW a \in Creators, TryPop(a) PROVE Sound'
  <2>1. Listed' = IF free = info[a] THEN Listed \ {free} ELSE Listed
    <3>1. CASE free = info[a]
      <4>1. free # NULL /\ free' = next_free[free] /\ next_free' = next_free
        BY <1>5, <3>1 DEF TryPop, HeadStays, Sound, CreatorSound, Bounded
      <4>2. \A i \in Listed : next_free[i] # free
        BY <4>1 DEF Sound, ListSound
      <4>. QED
        BY <3>1, <4>1, <4>2, PopListed
    <3>2. CASE free # info[a]
      BY <1>5, <3>2, ListedStays DEF TryPop, HeadStays
    <3>. QED
      BY <3>1, <3>2
  <2>2. ListSound'
    <3>1. CASE free # info[a]
      BY <1>5, <2>1, <3>1 DEF TryPop, HeadStays, Sound, ListSound
    <3>2. CASE free = info[a]
      <4>1. /\ free # NULL /\ free \in Listed /\ free' = next_free[free]
            /\ UNCHANGED <<next_free, status>> /\ Listed' = Listed \ {free}
        BY <1>5, <1>1, <2>1, <3>2 DEF TryPop, HeadStays, Sound, CreatorSound, Bounded
      <4>. QED
        BY <4>1 DEF Sound, ListSound
    <3>. QED
      BY <3>1, <3>2
  <2>3. FreerSound'
    BY <1>0, <1>1, <1>5, <2>1 DEF TryPop, HeadStays, Goto, list, Sound, FreerSound, LeavingSound, Inside
  <2>4. LeavingSound'
    BY <1>0, <1>1, <1>5, <2>1 DEF TryPop, HeadStays, Goto, list, Sound, LeavingSound, FreerSound, Inside
  <2>5. CreatorSound'
    <3>0. pc[a] = "pop" /\ info[a] \in Listed /\ UNCHANGED <<info, tmp, next_free, status, leaving>>
      BY <1>5 DEF TryPop, HeadStays, Sound, CreatorSound
    <3>1. \A b \in Creators : b = a
      BY <1>5 DEF OneCreator
    <3>2. CASE free # info[a]
      <4>1. pc'[a] = "retry"
        BY <1>0, <1>5, <3>2 DEF TryPop, HeadStays, Goto
      <4>. QED
        BY <3>1, <4>1 DEF CreatorSound
    <3>3. CASE free = info[a]
      <4>1. pc'[a] = "take" /\ Listed' = Listed \ {free}
        BY <1>0, <1>5, <2>1, <3>3 DEF TryPop, HeadStays, Goto
      <4>2. info[a] \notin leaving
        BY <3>0 DEF Sound, LeavingSound, FreerSound
      <4>3. status[info[a]] = "UNUSED"
        BY <3>0 DEF Sound, ListSound
      <4>. QED
        BY <3>0, <3>1, <3>3, <4>1, <4>2, <4>3 DEF CreatorSound
    <3>. QED
      BY <3>2, <3>3
  <2>6. Covered'
    BY <1>0, <1>1, <1>5, <2>1 DEF TryPop, HeadStays, Goto, list, Sound, Covered, Allocated, CreatorSound
  <2>. QED
    BY <2>2, <2>3, <2>4, <2>5, <2>6 DEF Sound
<1>6. ASSUME NEW a \in Creators, Take(a) PROVE Sound'
  <2>1. Listed' = Listed
    BY <1>6, ListedStays, <1>0, <1>1 DEF Take, Sound, CreatorSound, FreerSound, Inside
  <2>2. ListSound'
    <3>1. pc[a] = "take" /\ info[a] \in Ids /\ info[a] \notin Listed /\ free' = free
      BY <1>0, <1>6 DEF Take, Sound, CreatorSound
    <3>2. \A i \in Listed : next_free'[i] = next_free[i] /\ status'[i] = status[i]
      BY <1>0, <1>1, <1>6, <3>1 DEF Take
    <3>. QED
      BY <2>1, <3>1, <3>2 DEF Sound, ListSound
  <2>3. FreerSound'
    <3>1. pc[a] = "take" /\ info[a] \in Ids /\ info[a] \notin leaving /\ UNCHANGED <<info, tmp, leaving>>
      BY <1>0, <1>6 DEF Take, Sound, CreatorSound
    <3>2. Inside' = Inside /\ \A b \in Inside : pc'[b] = pc[b]
      BY <1>0, <1>6 DEF Take, Goto, Inside
    <3>3. \A b \in Inside : /\ next_free'[info[b]] = next_free[info[b]]
                            /\ status'[info[b]] = status[info[b]]
      BY <1>0, <1>6, <3>1 DEF Take, Sound, FreerSound
    <3>. QED
      BY <2>1, <3>1, <3>2, <3>3 DEF Sound, FreerSound
  <2>4. LeavingSound'
    BY <1>0, <1>1, <1>6, <2>1 DEF Take, Goto, list, Sound, LeavingSound, FreerSound, Inside
  <2>5. CreatorSound'
    <3>1. \A b \in Creators : b = a
      BY <1>6 DEF OneCreator
    <3>2. pc'[a] = "raise" /\ info' = info /\ status'[info[a]] = "RESERVED"
      BY <1>0, <1>6 DEF Take, Goto
    <3>. QED
      BY <3>1, <3>2 DEF CreatorSound
  <2>6. Covered'
    BY <1>0, <1>1, <1>6, <2>1 DEF Take, Goto, list, Sound, Covered, Allocated, CreatorSound
  <2>. QED
    BY <2>2, <2>3, <2>4, <2>5, <2>6 DEF Sound
<1>7. ASSUME NEW a \in Creators, New(a) PROVE Sound'
  <2>1. Listed' = Listed
    BY <1>7, ListedStays DEF New, list
  <2>2. ListSound'
    <3>1. /\ highest_allocated + 1 \in Ids /\ highest_allocated + 1 \notin Listed
          /\ highest_allocated + 1 \notin leaving
      BY <1>7, ListedAllocated DEF New, Allocated, Bounded, TypeOK, Ids
    <3>2. \A i \in Listed : status'[i] = status[i]
      BY <1>0, <1>1, <1>7, <3>1 DEF New
    <3>. QED
      BY <1>7, <2>1, <3>2 DEF New, list, Sound, ListSound
  <2>3. FreerSound'
    <3>1. /\ highest_allocated + 1 \in Ids /\ highest_allocated + 1 \notin Listed
          /\ highest_allocated + 1 \notin leaving
      BY <1>7, ListedAllocated DEF New, Allocated, Bounded, TypeOK, Ids
    <3>2. /\ Inside' = Inside /\ UNCHANGED <<tmp, leaving, next_free>>
          /\ \A b \in Inside : pc'[b] = pc[b] /\ info'[b] = info[b]
      BY <1>0, <1>7 DEF New, Goto, Inside, list
    <3>3. \A b \in Inside : status'[info[b]] = status[info[b]]
      BY <1>0, <1>7, <3>1 DEF New, Sound, FreerSound
    <3>. QED
      BY <2>1, <3>2, <3>3 DEF Sound, FreerSound
  <2>4. LeavingSound'
    BY <1>0, <1>1, <1>7, <2>1, ListedAllocated DEF New, Goto, list, Sound, LeavingSound, FreerSound, Inside
  <2>5. CreatorSound'
    <3>1. /\ highest_allocated + 1 \in Ids /\ highest_allocated + 1 \notin Listed
          /\ highest_allocated + 1 \notin leaving
      BY <1>7, ListedAllocated DEF New, Allocated, Bounded, TypeOK, Ids
    <3>2. \A b \in Creators : b = a
      BY <1>7 DEF OneCreator
    <3>3. pc'[a] = "raise" /\ status'[info'[a]] = "RESERVED"
      BY <1>0, <1>7, <3>1 DEF New, Goto
    <3>. QED
      BY <3>2, <3>3 DEF CreatorSound
  <2>6. Covered'
    <3>1. /\ highest_allocated + 1 \in Ids /\ highest_allocated + 1 \notin Listed
          /\ highest_allocated + 1 \notin leaving
      BY <1>7, ListedAllocated DEF New, Allocated, Bounded, TypeOK, Ids
    <3>2. Allocated' = Allocated \cup {highest_allocated + 1}
      BY <1>7, <3>1 DEF New, Allocated, Bounded, TypeOK, Ids
    <3>3. \A i \in Allocated : status'[i] = status[i] \/ status'[i] = "RESERVED"
      BY <1>0, <1>7 DEF New, Allocated
    <3>4. status'[highest_allocated + 1] = "RESERVED" /\ leaving' = leaving
      BY <1>0, <1>7, <3>1 DEF New
    <3>5. pc[a] = "new" /\ \A b \in Creators \ {a} : pc'[b] = pc[b] /\ info'[b] = info[b]
      BY <1>0, <1>7 DEF New, Goto
    <3>. QED
      BY <2>1, <3>2, <3>3, <3>4, <3>5 DEF Sound, Covered
  <2>. QED
    BY <2>2, <2>3, <2>4, <2>5, <2>6 DEF Sound
<1>8. ASSUME NEW a \in Creators, ReadHighest(a) PROVE Sound'
  <2>1. Listed' = Listed
    BY <1>8, ListedStays DEF ReadHighest, list
  <2>2. ListSound'
    BY <1>0, <1>1, <1>8, <2>1 DEF ReadHighest, Goto, list, Sound, ListSound, Closed
  <2>3. FreerSound'
    BY <1>0, <1>1, <1>8, <2>1 DEF ReadHighest, Goto, list, Sound, FreerSound, LeavingSound, Inside
  <2>4. LeavingSound'
    BY <1>0, <1>1, <1>8, <2>1 DEF ReadHighest, Goto, list, Sound, LeavingSound, FreerSound, Inside
  <2>5. CreatorSound'
    BY <1>0, <1>1, <1>8, <2>1 DEF ReadHighest, Goto, list, Sound, CreatorSound, LeavingSound, FreerSound, Inside, Closed
  <2>6. Covered'
    BY <1>0, <1>1, <1>8, <2>1 DEF ReadHighest, Goto, list, Sound, Covered, Allocated, CreatorSound
  <2>. QED
    BY <2>2, <2>3, <2>4, <2>5, <2>6 DEF Sound
<1>9. ASSUME NEW a \in Creators, Raise(a) PROVE Sound'
  <2>1. Listed' = Listed
    BY <1>9, ListedStays DEF Raise, list
  <2>2. ListSound'
    BY <1>0, <1>1, <1>9, <2>1 DEF Raise, Goto, list, Sound, ListSound, Closed
  <2>3. FreerSound'
    BY <1>0, <1>1, <1>9, <2>1 DEF Raise, Goto, list, Sound, FreerSound, LeavingSound, Inside
  <2>4. LeavingSound'
    BY <1>0, <1>1, <1>9, <2>1 DEF Raise, Goto, list, Sound, LeavingSound, FreerSound, Inside
  <2>5. CreatorSound'
    BY <1>0, <1>1, <1>9, <2>1 DEF Raise, Goto, list, Sound, CreatorSound, LeavingSound, FreerSound, Inside, Closed
  <2>6. Covered'
    BY <1>0, <1>1, <1>9, <2>1 DEF Raise, Goto, list, Sound, Covered, Allocated, CreatorSound
  <2>. QED
    BY <2>2, <2>3, <2>4, <2>5, <2>6 DEF Sound
<1>10. ASSUME NEW a \in Freers, Mark(a) PROVE Sound'
  <2>1. Listed' = Listed
    BY <1>10, ListedStays DEF Mark, list
  <2>2. ListSound'
    BY <1>0, <1>1, <1>10, <2>1 DEF Mark, Gets, Goto, list, Sound, ListSound, Closed
  <2>3. FreerSound'
    <3>1. PICK i \in Ids \ leaving : /\ status[i] # "UNUSED"
                                    /\ info' = [info EXCEPT ![a] = i]
                                    /\ status' = [status EXCEPT ![i] = "UNUSED"]
                                    /\ leaving' = leaving \cup {i}
      BY <1>10 DEF Mark
    <3>2. /\ Inside' = Inside \cup {a} /\ a \notin Inside /\ pc'[a] = "highest"
          /\ \A b \in Inside : pc'[b] = pc[b] /\ UNCHANGED <<tmp, next_free>>
      BY <1>0, <1>10 DEF Mark, Goto, Inside, list
    <3>3. i \notin Listed
      BY <3>1 DEF Sound, ListSound
    <3>4. info'[a] = i /\ status'[i] = "UNUSED"
      BY <1>0, <3>1
    <3>5. \A b \in Inside : info'[b] = info[b] /\ info[b] # i /\ status'[info[b]] = status[info[b]]
      BY <1>0, <3>1, <3>2 DEF Sound, FreerSound, Inside
    <3>6. ASSUME NEW b \in Inside'
          PROVE  /\ info'[b] \in leaving' /\ info'[b] \notin Listed' /\ status'[info'[b]] = "UNUSED"
                 /\ pc'[b] = "push_cas" => next_free'[info'[b]] = tmp'[b]
      <4>1. CASE b = a
        BY <2>1, <3>1, <3>2, <3>3, <3>4, <4>1
      <4>2. CASE b \in Inside
        BY <2>1, <3>1, <3>2, <3>5, <4>2 DEF Sound, FreerSound
      <4>. QED
        BY <3>2, <3>6, <4>1, <4>2
    <3>7. \A b, c \in Inside' : info'[b] = info'[c] => b = c
      BY <3>2, <3>4, <3>5 DEF Sound, FreerSound
    <3>. QED
      BY <3>6, <3>7 DEF FreerSound
  <2>4. LeavingSound'
    BY <1>0, <1>1, <1>10, <2>1 DEF Mark, Gets, Goto, list, Sound, LeavingSound, FreerSound, Inside
  <2>5. CreatorSound'
    BY <1>0, <1>1, <1>10, <2>1 DEF Mark, Gets, Goto, list, Sound, CreatorSound, LeavingSound, FreerSound, Inside, Closed
  <2>6. Covered'
    BY <1>0, <1>1, <1>10, <2>1 DEF Mark, Gets, Goto, list, Sound, Covered, Allocated, CreatorSound
  <2>. QED
    BY <2>2, <2>3, <2>4, <2>5, <2>6 DEF Sound
<1>11. ASSUME NEW a \in Freers, TestHighest(a) PROVE Sound'
  <2>1. Listed' = Listed
    BY <1>11, ListedStays DEF TestHighest, list
  <2>2. ListSound'
    BY <1>0, <1>1, <1>11, <2>1 DEF TestHighest, Goto, list, Sound, ListSound, Closed
  <2>3. FreerSound'
    BY <1>0, <1>1, <1>11, <2>1 DEF TestHighest, Goto, list, Sound, FreerSound, LeavingSound, Inside
  <2>4. LeavingSound'
    BY <1>0, <1>1, <1>11, <2>1 DEF TestHighest, Goto, list, Sound, LeavingSound, FreerSound, Inside
  <2>5. CreatorSound'
    BY <1>0, <1>1, <1>11, <2>1 DEF TestHighest, Goto, list, Sound, CreatorSound, LeavingSound, FreerSound, Inside, Closed
  <2>6. Covered'
    BY <1>0, <1>1, <1>11, <2>1 DEF TestHighest, Goto, list, Sound, Covered, Allocated, CreatorSound
  <2>. QED
    BY <2>2, <2>3, <2>4, <2>5, <2>6 DEF Sound
<1>12. ASSUME NEW a \in Freers, Scan(a) PROVE Sound'
  <2>1. Listed' = Listed
    BY <1>12, ListedStays DEF Scan, list
  <2>2. ListSound'
    BY <1>0, <1>1, <1>12, <2>1 DEF Scan, Goto, list, Sound, ListSound, Closed
  <2>3. FreerSound'
    BY <1>0, <1>1, <1>12, <2>1 DEF Scan, Goto, list, Sound, FreerSound, LeavingSound, Inside
  <2>4. LeavingSound'
    BY <1>0, <1>1, <1>12, <2>1 DEF Scan, Goto, list, Sound, LeavingSound, FreerSound, Inside
  <2>5. CreatorSound'
    BY <1>0, <1>1, <1>12, <2>1 DEF Scan, Goto, list, Sound, CreatorSound, LeavingSound, FreerSound, Inside, Closed
  <2>6. Covered'
    BY <1>0, <1>1, <1>12, <2>1 DEF Scan, Goto, list, Sound, Covered, Allocated, CreatorSound
  <2>. QED
    BY <2>2, <2>3, <2>4, <2>5, <2>6 DEF Sound
<1>13. ASSUME NEW a \in Freers, Shrink(a) PROVE Sound'
  <2>1. Listed' = Listed
    BY <1>13, ListedStays DEF Shrink, list
  <2>2. ListSound'
    BY <1>0, <1>1, <1>13, <2>1 DEF Shrink, Found, Goto, list, Sound, ListSound, Closed
  <2>3. FreerSound'
    BY <1>0, <1>1, <1>13, <2>1 DEF Shrink, Found, Goto, list, Sound, FreerSound, LeavingSound, Inside
  <2>4. LeavingSound'
    BY <1>0, <1>1, <1>13, <2>1 DEF Shrink, Found, Goto, list, Sound, LeavingSound, FreerSound, Inside
  <2>5. CreatorSound'
    BY <1>0, <1>1, <1>13, <2>1 DEF Shrink, Found, Goto, list, Sound, CreatorSound, LeavingSound, FreerSound, Inside, Closed
  <2>6. Covered'
    BY <1>0, <1>1, <1>13, <2>1 DEF Shrink, Found, Goto, list, Sound, Covered, Allocated, CreatorSound
  <2>. QED
    BY <2>2, <2>3, <2>4, <2>5, <2>6 DEF Sound
<1>14. ASSUME NEW a \in Freers, Link(a) PROVE Sound'
  <2>1. Listed' = Listed
    BY <1>14, ListedStays, <1>0, <1>1 DEF Link, Sound, CreatorSound, FreerSound, Inside
  <2>2. ListSound'
    <3>1. a \in Inside /\ info[a] \in Ids /\ info[a] \notin Listed /\ UNCHANGED <<free, status>>
      BY <1>0, <1>14 DEF Link, Sound, FreerSound, Inside
    <3>2. \A i \in Listed : next_free'[i] = next_free[i]
      BY <1>0, <1>1, <1>14, <3>1 DEF Link
    <3>. QED
      BY <2>1, <3>1, <3>2 DEF Sound, ListSound
  <2>3. FreerSound'
    BY <1>0, <1>1, <1>14, <2>1 DEF Link, Goto, list, Sound, FreerSound, LeavingSound, Inside
  <2>4. LeavingSound'
    BY <1>0, <1>1, <1>14, <2>1 DEF Link, Goto, list, Sound, LeavingSound, FreerSound, Inside
  <2>5. CreatorSound'
    BY <1>0, <1>1, <1>14, <2>1 DEF Link, Goto, list, Sound, CreatorSound, LeavingSound, FreerSound, Inside, Closed
  <2>6. Covered'
    BY <1>0, <1>1, <1>14, <2>1 DEF Link, Goto, list, Sound, Covered, Allocated, CreatorSound
  <2>. QED
    BY <2>2, <2>3, <2>4, <2>5, <2>6 DEF Sound
<1>15. ASSUME NEW a \in Freers, TryPush(a) PROVE Sound'
  <2>1. Listed' = IF free = tmp[a] THEN Listed \cup {info[a]} ELSE Listed
    <3>1. CASE free = tmp[a]
      <4>1. a \in Inside /\ info[a] \in Ids /\ free' = info[a] /\ next_free' = next_free
        BY <1>15, <1>0, <3>1 DEF TryPush, Unchanged, Inside
      <4>2. next_free[info[a]] = free
        BY <1>15, <3>1, <4>1 DEF Sound, FreerSound, TryPush
      <4>. QED
        BY <3>1, <4>1, <4>2, PushListed
    <3>2. CASE free # tmp[a]
      BY <1>15, <3>2, ListedStays DEF TryPush, Unchanged
    <3>. QED
      BY <3>1, <3>2
  <2>2. ListSound'
    <3>1. CASE free # tmp[a]
      BY <1>15, <2>1, <3>1 DEF TryPush, Unchanged, Sound, ListSound
    <3>2. CASE free = tmp[a]
      <4>1. a \in Inside /\ free' = info[a] /\ UNCHANGED <<next_free, status>>
        BY <1>15, <3>2 DEF TryPush, Unchanged, Inside
      <4>2. /\ info[a] \notin Listed /\ status[info[a]] = "UNUSED" /\ next_free[info[a]] = free
            /\ Listed' = Listed \cup {info[a]}
        BY <1>15, <2>1, <3>2, <4>1 DEF TryPush, Sound, FreerSound
      <4>3. \A i \in Listed : next_free[i] # NULL => next_free[i] # free /\ next_free[i] # info[a]
        BY <1>1, <4>2 DEF Sound, ListSound, Closed
      <4>4. free # NULL => free # info[a]
        BY <1>1, <4>2 DEF Closed
      <4>. QED
        BY <4>1, <4>2, <4>3, <4>4 DEF Sound, ListSound
    <3>. QED
      BY <3>1, <3>2
  <2>3. FreerSound'
    BY <1>0, <1>1, <1>15, <2>1 DEF TryPush, Unchanged, Goto, list, Sound, FreerSound, LeavingSound, Inside
  <2>4. LeavingSound'
    BY <1>0, <1>1, <1>15, <2>1 DEF TryPush, Unchanged, Goto, list, Sound, LeavingSound, FreerSound, Inside
  <2>5. CreatorSound'
    BY <1>0, <1>1, <1>15, <2>1 DEF TryPush, Unchanged, Goto, list, Sound, CreatorSound, LeavingSound, FreerSound, Inside, Closed
  <2>6. Covered'
    BY <1>0, <1>1, <1>15, <2>1 DEF TryPush, Unchanged, Goto, list, Sound, Covered, Allocated, CreatorSound
  <2>. QED
    BY <2>2, <2>3, <2>4, <2>5, <2>6 DEF Sound
<1>. QED
  BY <1>2, <1>3, <1>4, <1>5, <1>6, <1>7, <1>8, <1>9, <1>10, <1>11, <1>12, <1>13, <1>14, <1>15
  DEF Next, alloc_thread, free_thread_info

-----------------------------------------------------------------------------
(* Theorems.                                                                *)

\* Every reference to a structure that an actor keeps is to one that has been
\* allocated, whatever creators and freers do at the same time.
THEOREM BoundedInvariant == Spec => []Bounded
BY InitBounded, BoundedKept, PTL DEF Spec

\* The table stays within its bounds with any number of creators and freers:
\* free_thread_info() never sets thread_highest_id to 0 or beyond what has been
\* allocated.
THEOREM TypeCorrect == Spec => []TypeOK
<1>1. Bounded => TypeOK
  BY DEF Bounded
<1>. QED
  BY BoundedInvariant, <1>1, PTL

\* With one creator the list is a list.
LEMMA SoundInvariant ==
  ASSUME OneCreator
  PROVE  Spec => [](Bounded /\ Sound)
<1>1. Bounded /\ Sound /\ [Next]_vars => Bounded' /\ Sound'
  BY BoundedKept, SoundKept
<1>. QED
  BY InitBounded, InitSound, <1>1, PTL DEF Spec

\* The bookkeeping says where every structure is.
LEMMA SoundIsNoneLost ==
  ASSUME OneCreator, Bounded, Sound
  PROVE  NoneLost /\ AllocFresh
<1>. USE TableAssumption DEF Actors
<1>0. /\ highest_allocated \in 1..MaxThreads
      /\ info \in [Actors -> Ids \cup {NULL}]
  BY DEF Bounded, TypeOK
<1>1. ASSUME NEW i \in 2..highest_allocated
      PROVE  /\ status[i] # "UNUSED" \/ Holders(i) # {} \/ i \in Listed
             /\ status[i] # "UNUSED" => Holders(i) = {} /\ i \notin Listed
             /\ Holders(i) # {} => i \notin Listed
             /\ \A a, b \in Holders(i) : a = b
  <2>1. i \in Allocated /\ i \in Ids /\ i # NULL
    BY <1>0 DEF Allocated, Ids, NULL
  <2>2. i \in leaving => Holders(i) # {}
    BY DEF Sound, LeavingSound, Holders, Inside
  <2>3. ASSUME NEW a \in Creators, pc[a] = "take", info[a] = i PROVE a \in Holders(i)
    BY <2>3 DEF Holders
  <2>4. status[i] # "UNUSED" \/ Holders(i) # {} \/ i \in Listed
    BY <2>1, <2>2, <2>3 DEF Sound, Covered
  <2>5. ASSUME NEW a \in Holders(i)
        PROVE  /\ i \notin Listed /\ status[i] = "UNUSED"
               /\ a \in Inside \/ (a \in Creators /\ i \notin leaving)
    <3>1. CASE a \in Freers
      <4>1. a \in Inside
        BY <2>1, <2>5, <3>1 DEF Holders, Sound, LeavingSound
      <4>2. info[a] = i
        BY <2>5 DEF Holders
      <4>. QED
        BY <4>1, <4>2 DEF Sound, FreerSound
    <3>2. CASE a \in Creators /\ pc[a] = "take"
      BY <2>5, <3>2 DEF Holders, Sound, CreatorSound
    <3>. QED
      BY <2>5, <3>1, <3>2 DEF Holders
  <2>6. ASSUME NEW a \in Holders(i), NEW b \in Holders(i) PROVE a = b
    <3>1. info[a] = i /\ info[b] = i
      BY DEF Holders
    <3>2. CASE a \in Inside /\ b \in Inside
      BY <3>1, <3>2 DEF Sound, FreerSound
    <3>3. CASE a \in Creators /\ b \in Creators
      BY <3>3 DEF OneCreator
    <3>4. a \in Inside => i \in leaving
      BY <3>1 DEF Sound, FreerSound
    <3>5. b \in Inside => i \in leaving
      BY <3>1 DEF Sound, FreerSound
    <3>. QED
      BY <2>5, <3>2, <3>3, <3>4, <3>5
  <2>7. status[i] # "UNUSED" => i \notin Listed
    BY DEF Sound, ListSound
  <2>. QED
    BY <2>4, <2>5, <2>6, <2>7
<1>2. NoneLost
  BY <1>1 DEF NoneLost
<1>3. AllocFresh
  <2>. SUFFICES ASSUME NEW a \in Actors, pc[a] = "take"
                PROVE  /\ status[info[a]] = "UNUSED"
                       /\ \A b \in Creators \ {a} : ~Gets(b, info[a])
    BY DEF AllocFresh
  <2>1. a \in Creators
    BY DEF Bounded, FreerPlaces
  <2>. QED
    BY <2>1 DEF Sound, CreatorSound, OneCreator
<1>. QED
  BY <1>2, <1>3

\* As long as one thread creates threads, however many end at the same time: no
\* structure is lost, none is in the list while it is used, and no two actors
\* have the same one, although free_thread_info() takes no lock.
THEOREM NoneLostByOneCreator == OneCreator => (Spec => []NoneLost)
<1>. SUFFICES ASSUME OneCreator PROVE Spec => []NoneLost
  OBVIOUS
<1>1. Bounded /\ Sound => NoneLost
  BY SoundIsNoneLost
<1>. QED
  BY SoundInvariant, <1>1, PTL

\* The assertion of alloc_thread() then holds: what it takes is UNUSED.  With two
\* creators it does not (the run about AllocFresh).
THEOREM AllocFreshByOneCreator == OneCreator => (Spec => []AllocFresh)
<1>. SUFFICES ASSUME OneCreator PROVE Spec => []AllocFresh
  OBVIOUS
<1>1. Bounded /\ Sound => AllocFresh
  BY SoundIsNoneLost
<1>. QED
  BY SoundInvariant, <1>1, PTL

-----------------------------------------------------------------------------
(* The pool.                                                                *)

\* Where a structure is follows from the list, from what is being freed and from
\* what has been allocated.
LEMMA PlaceSame ==
  ASSUME Listed' = Listed, leaving' = leaving, highest_allocated' = highest_allocated
  PROVE  UNCHANGED Place
BY DEF Place

\* A structure that is allocated and not in the list is reserved until it is given
\* up; one that is given up is not in the list.
LEMMA PlaceOf ==
  ASSUME Bounded, Sound, NEW i \in Ids
  PROVE  /\ Place[i] = "free" <=> i \notin Allocated \/ i \in Listed
         /\ Place[i] = "returning" <=> i \in leaving
         /\ Place[i] = "reserved" <=> i \in Allocated \ (Listed \cup leaving)
<1>1. i > highest_allocated <=> i \notin Allocated
  BY DEF Allocated, Bounded, TypeOK, Ids
<1>2. i \in leaving => i \in Allocated /\ i \notin Listed
  BY ListedAllocated DEF Sound, LeavingSound, FreerSound
<1>. QED
  BY <1>1, <1>2 DEF Place

\* One structure moves.
LEMMA PlaceMoves ==
  ASSUME NEW i \in Ids, NEW where, Place'[i] = where,
         \A j \in Ids \ {i} : Place'[j] = Place[j]
  PROVE  Place' = [Place EXCEPT ![i] = where]
BY DEF Place

\* A creator gets a structure that was free, from the list or a new one; its
\* other steps move nothing.
LEMMA CreatorReserves ==
  ASSUME OneCreator, Bounded, Sound, Bounded', Sound', NEW a \in Creators, alloc_thread(a)
  PROVE  Pool!Next \/ UNCHANGED Place
<1>. USE TableAssumption DEF Actors
<1>1. CASE TryPop(a) /\ free = info[a]
  <2>1. free # NULL /\ free' = next_free[free] /\ next_free' = next_free /\ free \in Ids
    BY <1>1 DEF TryPop, HeadStays, Sound, CreatorSound, Bounded, TypeOK
  <2>2. \A i \in Listed : next_free[i] # free
    BY <2>1 DEF Sound, ListSound
  <2>3. Listed' = Listed \ {free} /\ free \in Listed
    BY <2>1, <2>2, PopListed, ListedClosed DEF Closed
  <2>4. leaving' = leaving /\ highest_allocated' = highest_allocated
    BY <1>1 DEF TryPop
  <2>5. Place[free] = "free" /\ Place'[free] = "reserved"
    <3>1. free \in Allocated' /\ free \notin leaving'
      BY <2>1, <2>3, <2>4, ListedAllocated DEF Allocated, Sound, LeavingSound, FreerSound
    <3>2. ~(free > highest_allocated')
      BY <2>1, <3>1 DEF Allocated, Bounded, TypeOK, Ids
    <3>. QED
      BY <2>1, <2>3, <3>1, <3>2 DEF Place
  <2>6. \A j \in Ids \ {free} : Place'[j] = Place[j]
    BY <2>3, <2>4 DEF Place
  <2>7. Pool!Reserve(free)
    BY <2>1, <2>5, <2>6, PlaceMoves DEF Pool!Reserve
  <2>. QED
    BY <2>1, <2>7 DEF Pool!Next
<1>2. CASE New(a)
  <2>. DEFINE n == highest_allocated + 1
  <2>1. /\ n \in Ids /\ n \notin Listed /\ n \notin leaving
        /\ n > highest_allocated /\ ~(n > highest_allocated')
        /\ \A j \in Ids \ {n} : j > highest_allocated' <=> j > highest_allocated
    BY <1>2, ListedAllocated DEF New, Allocated, Bounded, TypeOK, Ids
  <2>2. Listed' = Listed /\ leaving' = leaving
    BY <1>2, ListedStays DEF New, list
  <2>. HIDE DEF n
  <2>3. Place[n] = "free" /\ Place'[n] = "reserved"
    BY <2>1, <2>2 DEF Place
  <2>4. \A j \in Ids \ {n} : Place'[j] = Place[j]
    BY <2>1, <2>2 DEF Place
  <2>5. Pool!Reserve(n)
    BY <2>1, <2>3, <2>4, PlaceMoves DEF Pool!Reserve
  <2>. QED
    BY <2>1, <2>5 DEF Pool!Next
<1>3. CASE Take(a)
  <2>1. info[a] \notin Listed /\ info[a] \in Ids
    BY <1>3 DEF Take, Sound, CreatorSound, Bounded, TypeOK
  <2>2. free' = free /\ \A i \in Listed : next_free'[i] = next_free[i]
    BY <1>3, <2>1, ListedClosed DEF Take, Bounded, TypeOK
  <2>3. leaving' = leaving /\ highest_allocated' = highest_allocated
    BY <1>3 DEF Take
  <2>. QED
    BY <2>2, <2>3, ListedStays, PlaceSame
<1>4. CASE ~(TryPop(a) /\ free = info[a]) /\ ~New(a) /\ ~Take(a)
  <2>1. list' = list /\ leaving' = leaving /\ highest_allocated' = highest_allocated
    BY <1>4 DEF alloc_thread, ReadFree, ReadNext, TryPop, HeadStays, ReadHighest, Raise, list
  <2>2. Listed' = Listed
    BY <2>1, ListedStays DEF list
  <2>. QED
    BY <2>1, <2>2, PlaceSame
<1>. QED
  BY <1>1, <1>2, <1>3, <1>4

\* A freer gives up a structure that was reserved and brings it back.
LEMMA FreerRecycles ==
  ASSUME Bounded, Sound, Bounded', Sound', NEW a \in Freers, free_thread_info(a)
  PROVE  Pool!Next \/ UNCHANGED Place
<1>. USE TableAssumption DEF Actors
<1>1. CASE Mark(a)
  <2>1. PICK i \in Ids \ leaving : status[i] # "UNUSED" /\ leaving' = leaving \cup {i}
    BY <1>1 DEF Mark
  <2>2. i \in Allocated /\ i \notin Listed
    BY <2>1 DEF Bounded, Sound, ListSound
  <2>3. Listed' = Listed /\ highest_allocated' = highest_allocated
    BY <1>1, ListedStays DEF Mark, list
  <2>4. ~(i > highest_allocated)
    BY <2>2 DEF Allocated, Bounded, TypeOK, Ids
  <2>5. Place[i] = "reserved" /\ Place'[i] = "returning"
    BY <2>1, <2>2, <2>3, <2>4 DEF Place
  <2>6. \A j \in Ids \ {i} : Place'[j] = Place[j]
    BY <2>1, <2>3 DEF Place
  <2>7. Pool!GiveUp(i)
    BY <2>5, <2>6, PlaceMoves DEF Pool!GiveUp
  <2>. QED
    BY <2>7 DEF Pool!Next
<1>2. CASE TryPush(a) /\ free = tmp[a]
  <2>. DEFINE i == info[a]
  <2>1. a \in Inside /\ i \in Ids /\ free' = i /\ next_free' = next_free
    BY <1>2 DEF TryPush, Unchanged, Inside, Bounded, TypeOK
  <2>2. next_free[i] = free
    BY <1>2, <2>1 DEF Sound, FreerSound, TryPush
  <2>3. Listed' = Listed \cup {i}
    BY <2>1, <2>2, PushListed
  <2>4. leaving' = leaving \ {i} /\ highest_allocated' = highest_allocated /\ i \in leaving
    BY <1>2, <2>1 DEF TryPush, Unchanged, Sound, FreerSound
  <2>5. i \notin Listed /\ ~(i > highest_allocated)
    BY <2>1, <2>4, PlaceOf DEF Place
  <2>. HIDE DEF i
  <2>6. Place[i] = "returning" /\ Place'[i] = "free"
    BY <2>1, <2>3, <2>4, <2>5 DEF Place
  <2>7. \A j \in Ids \ {i} : Place'[j] = Place[j]
    BY <2>3, <2>4 DEF Place
  <2>8. Pool!Recycle(i)
    BY <2>1, <2>6, <2>7, PlaceMoves DEF Pool!Recycle
  <2>. QED
    BY <2>1, <2>8 DEF Pool!Next
<1>3. CASE Link(a)
  <2>1. info[a] \notin Listed /\ info[a] \in Ids
    BY <1>3 DEF Link, Sound, FreerSound, Inside, Bounded, TypeOK
  <2>2. free' = free /\ \A i \in Listed : next_free'[i] = next_free[i]
    BY <1>3, <2>1, ListedClosed DEF Link, Bounded, TypeOK
  <2>3. leaving' = leaving /\ highest_allocated' = highest_allocated
    BY <1>3 DEF Link
  <2>. QED
    BY <2>2, <2>3, ListedStays, PlaceSame
<1>4. CASE ~Mark(a) /\ ~(TryPush(a) /\ free = tmp[a]) /\ ~Link(a)
  <2>1. list' = list /\ leaving' = leaving /\ highest_allocated' = highest_allocated
    BY <1>4 DEF free_thread_info, TestHighest, Scan, Shrink, TryPush, Unchanged, list
  <2>2. Listed' = Listed
    BY <2>1, ListedStays DEF list
  <2>. QED
    BY <2>1, <2>2, PlaceSame
<1>. QED
  BY <1>1, <1>2, <1>3, <1>4

\* Without a lock, and with retries, the table is a pool whose structures change
\* hands one at a time, as ThreadLife takes it to be; with two creators it is not.
THEOREM Refinement == OneCreator => (Spec => ImplementsPool)
<1>. SUFFICES ASSUME OneCreator PROVE Spec => ImplementsPool
  OBVIOUS
<1>1. Init => Pool!Init
  <2>. SUFFICES ASSUME Init PROVE Place = [i \in Ids |-> "free"]
    BY DEF Pool!Init
  <2>1. \A i \in Ids : i > highest_allocated
    BY DEF Init, Ids
  <2>. QED
    BY <2>1 DEF Place
<1>2. (Bounded /\ Sound) /\ (Bounded /\ Sound)' /\ [Next]_vars => [Pool!Next]_Place
  <2>. SUFFICES ASSUME Bounded, Sound, Bounded', Sound', [Next]_vars
                PROVE  Pool!Next \/ UNCHANGED Place
    OBVIOUS
  <2>1. CASE UNCHANGED vars
    BY <2>1, ListedStays, PlaceSame DEF vars, list
  <2>. QED
    BY <2>1, CreatorReserves, FreerRecycles DEF Next
<1>. QED
  BY SoundInvariant, <1>1, <1>2, PTL DEF Spec, ImplementsPool, Pool!Spec
=============================================================================
