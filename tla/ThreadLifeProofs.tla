-------------------------- MODULE ThreadLifeProofs --------------------------
(***************************************************************************)
(* Proofs about ThreadLife, for any number of threads and structures: which *)
(* slots are free for a new thread, and that a slot is freed once.          *)
(***************************************************************************)
EXTENDS ThreadLife, DataLemmas

Places == {"none", "start", "init", "run", "acknowledge", "kill", "release", "test",
           "free", "unlink", "post", "end", "dead"}
ClientPlaces == {"idle", "join", "joining", "status", "gctest", "gcjoin", "gcjoining", "gcwait",
                 "free", "unlink"}
HaltPlaces == {"no", "look", "join", "joining", "request", "raise", "crashed", "done"}

\* TypeOK, and what it rests on: a thread is still to be made when a slot is
\* reserved for it, and one slot is reserved at a time.
Typed ==
  /\ TypeOK
  /\ doing \in Scenarios
  /\ handle \in [Threads -> {"live", "garbage", "none"}]
  /\ exit_requested \in [Threads -> BOOLEAN] /\ acknowledge \in [Threads -> BOOLEAN]
  /\ pc \in [Threads -> Places] /\ cpc \in [Clients -> ClientPlaces]
  /\ halt \in [pc : HaltPlaces, todo : SUBSET Slots, at : Slots \cup {Nil},
               canceled : Int, maxwait : 0..MaxWait, sem : Nat]
  /\ \A s \in Slots : status[s] = "RESERVED" =>
        created < MaxThreads /\ \A x \in Slots : status[x] = "RESERVED" => x = s

\* Thread k still uses its slot.
Living(k) == pc[k] \notin {"none", "post", "end", "dead"}

\* What a thread is before it is created, and from then on.
Born == \A k \in Threads :
  /\ k > created => /\ pc[k] = "none" /\ slot[k] = Nil /\ info[k] = Nil
                    /\ handle[k] = "none" /\ pthread[k] = 0
  /\ k <= created => /\ pc[k] # "none" /\ slot[k] \in Slots /\ info[k] \in {slot[k], Nil}
                     /\ pthread[k] \in 1..k
                     /\ os[k] = "running" <=> pc[k] # "dead"
                     /\ joinid[k] = Detached => os[k] # "ended"

\* A pthread_t is used again only when its thread is gone.
Recycled == \A j, k \in Threads :
  j < k /\ k <= created /\ pthread[j] = pthread[k] => os[j] = "gone"

\* A thread that uses its slot owns it, and the status tells where it is.
Occupied == \A k \in Threads : Living(k) =>
  /\ owner[slot[k]] = k /\ ~listed[slot[k]]
  /\ pc[k] \in {"start", "init"} => status[slot[k]] = "CREATED"
  /\ pc[k] = "run" => status[slot[k]] = "RUNNING"
  /\ pc[k] \in {"acknowledge", "kill", "release", "test", "free"} => status[slot[k]] \in Completed
  /\ pc[k] = "unlink" => status[slot[k]] = "UNUSED"
  /\ pc[k] \in {"test", "free", "unlink"} => ~thread_data[slot[k]]

\* A slot that is reserved has no thread yet.
Reserved == \A s \in Slots : status[s] = "RESERVED" => owner[s] = 0 /\ ~listed[s]

\* The thread that owns a slot was created for it.
Owned == \A s \in Slots : owner[s] \in Threads => slot[owner[s]] = s

\* The slot that a client has is that of the thread it has, which is dead when
\* the client frees it.
Claims(c) ==
  /\ of[c] \in 1..created /\ slot[of[c]] = at[c] /\ owner[at[c]] = of[c]
  /\ cpc[c] \in {"status", "gcwait", "free", "unlink"} => pc[of[c]] = "dead"
  /\ cpc[c] = "unlink" => status[at[c]] = "UNUSED" /\ ~thread_data[at[c]]
Claimed == \A c \in Clients : cpc[c] # "idle" => Claims(c)

\* Client c has joined the thread and is about to free its slot.
Joined(c, k) == of[c] = k /\ cpc[c] \in {"status", "free", "unlink"}

\* Thread k has not been asked to exit, so that it frees its slot only if it is
\* detached.
Unasked(k) ==
  /\ ~exit_requested[k] /\ ~acknowledge[k]
  /\ pc[k] \in {"free", "unlink"} => detached[slot[k]]
  /\ joinid[k] = Detached /\ slot[k] \in Slots /\ owner[slot[k]] = k => detached[slot[k]]

\* A handle that is live shows a thread that nobody has dealt with, or that
\* somebody is dealing with.
LiveHandle(k) == handle[k] = "live" /\ info[k] # Nil =>
  /\ owner[info[k]] = k /\ ~listed[info[k]]
  /\ status[info[k]] = "UNUSED" =>
       pc[k] = "unlink" \/ \E c \in Joiners : of[c] = k /\ cpc[c] = "unlink"
  /\ status[info[k]] = "JOINED" => \E c \in Joiners : of[c] = k /\ cpc[c] = "free"
  /\ os[k] = "gone" => detached[info[k]] \/ \E c \in Joiners : Joined(c, k)
  /\ joinid[k] \notin {Nil, Detached} =>
       \E c \in Joiners : Joined(c, k) \/ (of[c] = k /\ cpc[c] = "joining")

\* Thread k is left to thread gc alone.
Forgotten(k) == owner[slot[k]] = k /\ ~listed[slot[k]] /\ ~detached[slot[k]]

\* A handle that is garbage shows a thread that thread gc is to deal with.
GarbageHandle(k) == handle[k] = "garbage" =>
  /\ "discard" \in doing /\ info[k] = slot[k] /\ Forgotten(k)
  /\ joinid[k] = Nil /\ os[k] # "gone" /\ ~Invalid(status[slot[k]])

\* Whoever joins a thread has a handle that is live, and the thread to himself.
JoinerSound(c) == cpc[c] # "idle" =>
  /\ "join" \in doing /\ cpc[c] \in {"join", "joining", "status", "free", "unlink"}
  /\ handle[of[c]] = "live" /\ info[of[c]] = at[c]
  /\ ~listed[at[c]] /\ ~detached[at[c]]
  /\ cpc[c] = "join" => joinid[of[c]] = Nil /\ os[of[c]] # "gone"
  /\ cpc[c] = "joining" => joinid[of[c]] = c /\ os[of[c]] # "gone"
  /\ cpc[c] = "status" => ~Invalid(status[at[c]])
  /\ cpc[c] = "free" => status[at[c]] = "JOINED"

\* Thread gc has freed the handle, and has the thread to itself.
CollectorSound == cpc[TheGC] # "idle" =>
  /\ "discard" \in doing
  /\ cpc[TheGC] \in {"gctest", "gcjoin", "gcjoining", "gcwait", "free", "unlink"}
  /\ handle[of[TheGC]] = "none" /\ Forgotten(of[TheGC])
  /\ cpc[TheGC] # "unlink" => ~Invalid(status[at[TheGC]])
  /\ cpc[TheGC] \in {"gctest", "gcjoin"} => joinid[of[TheGC]] = Nil /\ os[of[TheGC]] # "gone"
  /\ cpc[TheGC] = "gcjoining" => joinid[of[TheGC]] = TheGC /\ os[of[TheGC]] # "gone"
  /\ cpc[TheGC] \in {"gcwait", "free", "unlink"} => os[of[TheGC]] = "gone"

\* What holds until the threads are told to exit (the last part: thread_detach/1
\* always finds the POSIX thread).
Before == /\ \A k \in Threads : Unasked(k) /\ LiveHandle(k) /\ GarbageHandle(k)
          /\ \A c \in Joiners : JoinerSound(c)
          /\ CollectorSound
          /\ \A c \in Detachers : cpc[c] = "idle"

\* When the threads are told to exit, thread gc does not discard any.
Undisturbed == halt.pc # "no" => cpc[TheGC] = "idle"

\* Thread gc joins the thread that it deals with.
Awaited == \A k \in Threads :
  joinid[k] = TheGC /\ os[k] # "gone" => cpc[TheGC] = "gcjoining" /\ of[TheGC] = k

\* What holds always.
Core == /\ Typed /\ Born /\ Recycled /\ Occupied /\ Reserved /\ Owned
        /\ Claimed /\ ListedIsFree /\ Undisturbed /\ Awaited

IInv == /\ Core
        /\ halt.pc = "no" => Before

-----------------------------------------------------------------------------
(* Types.                                                                   *)

\* The type of each variable.
LEMMA Fields ==
  ASSUME Typed
  PROVE  /\ status \in [Slots -> Statuses] /\ owner \in [Slots -> 0..created]
         /\ detached \in [Slots -> BOOLEAN] /\ has_tid \in [Slots -> BOOLEAN]
         /\ thread_data \in [Slots -> BOOLEAN] /\ listed \in [Slots -> BOOLEAN]
         /\ created \in Nat /\ created <= MaxThreads /\ MaxThreads \in Nat
         /\ slot \in [Threads -> Slots \cup {Nil}] /\ info \in [Threads -> Slots \cup {Nil}]
         /\ pthread \in [Threads -> 0..MaxThreads]
         /\ handle \in [Threads -> {"live", "garbage", "none"}]
         /\ os \in [Threads -> {"none", "running", "ended", "gone"}]
         /\ joinid \in [Threads -> Joiners \cup {TheGC, Nil, Detached, Main}]
         /\ exit_requested \in [Threads -> BOOLEAN] /\ acknowledge \in [Threads -> BOOLEAN]
         /\ pc \in [Threads -> Places] /\ cpc \in [Clients -> ClientPlaces]
         /\ at \in [Clients -> Slots \cup {Nil}] /\ of \in [Clients -> 0..MaxThreads]
         /\ halt.pc \in HaltPlaces /\ halt.maxwait \in 0..MaxWait
         /\ Nil \notin Slots
<1>1. \A f \in {detached, has_tid, thread_data, listed} : f \in [Slots -> BOOLEAN]
  BY DEF Typed, TypeOK
<1>2. /\ detached \in [Slots -> BOOLEAN] /\ has_tid \in [Slots -> BOOLEAN]
      /\ thread_data \in [Slots -> BOOLEAN] /\ listed \in [Slots -> BOOLEAN]
  BY <1>1, Zenon
<1>3. halt.pc \in HaltPlaces
  BY DEF Typed
<1>. QED
  BY <1>2, <1>3, LifeAssumption DEF Typed, TypeOK

\* The values of joinid are different.
LEMMA Names ==
  /\ TheGC \in Clients /\ TheGC \notin Joiners /\ Joiners \subseteq Clients
  /\ \A c \in Clients : c # Nil /\ c # Detached /\ c # Main
  /\ Detached # Nil /\ Main # Nil /\ Detached # Main
BY LifeAssumption DEF Clients, Detached, Main

\* Typed is what the types of the variables say.
LEMMA TypedFrom ==
  ASSUME doing' \in Scenarios,
         status' \in [Slots -> Statuses], owner' \in [Slots -> 0..created'],
         detached' \in [Slots -> BOOLEAN], has_tid' \in [Slots -> BOOLEAN],
         thread_data' \in [Slots -> BOOLEAN], listed' \in [Slots -> BOOLEAN],
         created' \in 0..MaxThreads,
         slot' \in [Threads -> Slots \cup {Nil}], info' \in [Threads -> Slots \cup {Nil}],
         pthread' \in [Threads -> 0..MaxThreads],
         handle' \in [Threads -> {"live", "garbage", "none"}],
         os' \in [Threads -> {"none", "running", "ended", "gone"}],
         joinid' \in [Threads -> Joiners \cup {TheGC, Nil, Detached, Main}],
         exit_requested' \in [Threads -> BOOLEAN], acknowledge' \in [Threads -> BOOLEAN],
         pc' \in [Threads -> Places], cpc' \in [Clients -> ClientPlaces],
         at' \in [Clients -> Slots \cup {Nil}], of' \in [Clients -> 0..MaxThreads],
         halt' \in [pc : HaltPlaces, todo : SUBSET Slots, at : Slots \cup {Nil},
                    canceled : Int, maxwait : 0..MaxWait, sem : Nat],
         \A s \in Slots : status'[s] = "RESERVED" =>
           created' < MaxThreads /\ \A x \in Slots : status'[x] = "RESERVED" => x = s
  PROVE  Typed'
<1>1. \A f \in {detached', has_tid', thread_data', listed'} : f \in [Slots -> BOOLEAN]
  OBVIOUS
<1>2. halt'.maxwait \in 0..MaxWait /\ halt'.canceled \in Int /\ halt'.sem \in Nat
  OBVIOUS
<1>. QED
  BY <1>1, <1>2 DEF Typed, TypeOK

\* Steps keep the types.
LEMMA TypedKept == Typed /\ [Next]_vars => Typed'
<1>. SUFFICES ASSUME Typed, [Next]_vars PROVE Typed'
  OBVIOUS
<1>. DEFINE HaltType == [pc : HaltPlaces, todo : SUBSET Slots, at : Slots \cup {Nil},
                         canceled : Int, maxwait : 0..MaxWait, sem : Nat]
<1>0. doing \in Scenarios /\ halt \in HaltType
      /\ \A s \in Slots : status[s] = "RESERVED" =>
           created < MaxThreads /\ \A x \in Slots : status[x] = "RESERVED" => x = s
  BY DEF Typed
<1>. USE Fields, LifeAssumption, <1>0
<1>. USE DEF slots, threads, posix, ld, clients, vars, Clients
<1>1. CASE UNCHANGED vars
  BY <1>1, TypedFrom
<1>2. ASSUME UNCHANGED doing, Reserve PROVE Typed'
  <2>1. UNCHANGED <<created, slot, info, pthread, handle, os, joinid, exit_requested, acknowledge, pc, cpc, of, at, halt>>
    BY <1>2 DEF Reserve
  <2>2. listed' \in [Slots -> BOOLEAN]
    <3>1. PICK s \in Usable, d \in BOOLEAN : listed' = [listed EXCEPT ![s] = FALSE]
      BY <1>2 DEF Reserve
    <3>. QED
      BY <3>1
  <2>3. status' \in [Slots -> Statuses]
    <3>1. PICK s \in Usable, d \in BOOLEAN : status' = [status EXCEPT ![s] = "RESERVED"]
      BY <1>2 DEF Reserve
    <3>. QED
      BY <3>1 DEF Statuses
  <2>4. thread_data' \in [Slots -> BOOLEAN]
    <3>1. PICK s \in Usable, d \in BOOLEAN : thread_data' = [thread_data EXCEPT ![s] = TRUE]
      BY <1>2 DEF Reserve
    <3>. QED
      BY <3>1
  <2>5. has_tid' \in [Slots -> BOOLEAN]
    <3>1. PICK s \in Usable, d \in BOOLEAN : has_tid' = [has_tid EXCEPT ![s] = FALSE]
      BY <1>2 DEF Reserve
    <3>. QED
      BY <3>1
  <2>6. detached' \in [Slots -> BOOLEAN]
    <3>1. PICK s \in Usable, d \in BOOLEAN : detached' = [detached EXCEPT ![s] = d]
      BY <1>2 DEF Reserve
    <3>. QED
      BY <3>1
  <2>7. owner' \in [Slots -> 0..created']
    <3>1. PICK s \in Usable : owner' = [owner EXCEPT ![s] = 0]
      BY <1>2 DEF Reserve
    <3>2. UNCHANGED created
      BY <1>2 DEF Reserve
    <3>3. owner \in [Slots -> 0..created'] /\ 0 \in 0..created'
      BY <3>2
    <3>. QED
      BY ONLY <3>1, <3>3
  <2>8. \A y \in Slots : status'[y] = "RESERVED" =>
          created' < MaxThreads /\ \A x \in Slots : status'[x] = "RESERVED" => x = y
    BY <1>2 DEF Reserve, Completed
  <2>. QED
    BY <1>2, <2>1, <2>2, <2>3, <2>4, <2>5, <2>6, <2>7, <2>8, TypedFrom
<1>3. ASSUME UNCHANGED doing, NEW s \in Slots, Abandon(s) PROVE Typed'
  BY <1>3, TypedFrom DEF Abandon, Mark, Unlink, Statuses, Places, ClientPlaces, HaltPlaces
<1>4. ASSUME UNCHANGED doing, NEW s \in Slots, Create(s) PROVE Typed'
  <2>1. UNCHANGED <<detached, has_tid, thread_data, listed, exit_requested, acknowledge, cpc, of, at, halt>>
    BY <1>4 DEF Create, Goto, Unused
  <2>2. created' \in 0..MaxThreads
    BY <1>4 DEF Create, Goto, Unused
  <2>3. status' \in [Slots -> Statuses]
    BY <1>4 DEF Create, Goto, Unused, Statuses
  <2>4. owner' \in [Slots -> 0..created']
    BY <1>4 DEF Create, Goto, Unused
  <2>5. slot' \in [Threads -> Slots \cup {Nil}]
    BY <1>4 DEF Create, Goto, Unused
  <2>6. info' \in [Threads -> Slots \cup {Nil}]
    BY <1>4 DEF Create, Goto, Unused
  <2>7. pthread' \in [Threads -> 0..MaxThreads]
    <3>1. PICK p \in {created + 1} \cup Unused : pthread' = [pthread EXCEPT ![created + 1] = p]
      BY <1>4 DEF Create
    <3>2. p \in 0..MaxThreads
      <4>1. created + 1 \in 0..MaxThreads
        BY <1>4 DEF Create
      <4>2. ASSUME p \in Unused PROVE p \in 0..MaxThreads
        <5>1. PICK j \in 1..created : p = pthread[j]
          BY <4>2 DEF Unused
        <5>. QED
          BY <5>1 DEF Threads
      <4>. QED
        BY <4>1, <4>2
    <3>. QED
      BY <3>1, <3>2
  <2>8. handle' \in [Threads -> {"live", "garbage", "none"}]
    BY <1>4 DEF Create, Goto, Unused
  <2>9. os' \in [Threads -> {"none", "running", "ended", "gone"}]
    BY <1>4 DEF Create, Goto, Unused
  <2>10. joinid' \in [Threads -> Joiners \cup {TheGC, Nil, Detached, Main}]
    BY <1>4 DEF Create, Goto, Unused
  <2>11. pc' \in [Threads -> Places]
    BY <1>4 DEF Create, Goto, Unused, Places
  <2>12. \A y \in Slots : status'[y] = "RESERVED" =>
          created' < MaxThreads /\ \A x \in Slots : status'[x] = "RESERVED" => x = y
    BY <1>4 DEF Create, Goto, Unused, Completed
  <2>. QED
    BY <1>4, <2>1, <2>2, <2>3, <2>4, <2>5, <2>6, <2>7, <2>8, <2>9, <2>10, <2>11, <2>12, TypedFrom
<1>5. ASSUME UNCHANGED doing, NEW k \in Threads, SetTid(k) PROVE Typed'
  <2>1. UNCHANGED <<status, owner, detached, thread_data, listed, created, slot, info, pthread, handle, os, joinid, exit_requested, acknowledge, cpc, of, at, halt>>
    BY <1>5 DEF SetTid, Goto
  <2>2. has_tid' \in [Slots -> BOOLEAN]
    BY <1>5 DEF SetTid, Goto
  <2>3. pc' \in [Threads -> Places]
    BY <1>5 DEF SetTid, Goto, Places
  <2>. QED
    BY <1>5, <2>1, <2>2, <2>3, TypedFrom
<1>6. ASSUME UNCHANGED doing, NEW k \in Threads, NoMem(k) PROVE Typed'
  <2>1. UNCHANGED <<owner, detached, has_tid, thread_data, listed, created, slot, info, pthread, handle, joinid, exit_requested, acknowledge, cpc, of, at, halt>>
    BY <1>6 DEF NoMem, Ends, Goto
  <2>2. status' \in [Slots -> Statuses]
    BY <1>6 DEF NoMem, Ends, Goto, Statuses
  <2>3. os' \in [Threads -> {"none", "running", "ended", "gone"}]
    BY <1>6 DEF NoMem, Ends, Goto
  <2>4. pc' \in [Threads -> Places]
    BY <1>6 DEF NoMem, Ends, Goto, Places
  <2>5. \A y \in Slots : status'[y] = "RESERVED" =>
          created' < MaxThreads /\ \A x \in Slots : status'[x] = "RESERVED" => x = y
    BY <1>6 DEF NoMem, Ends, Goto, Completed
  <2>. QED
    BY <1>6, <2>1, <2>2, <2>3, <2>4, <2>5, TypedFrom
<1>7. ASSUME UNCHANGED doing, NEW k \in Threads, Begin(k) PROVE Typed'
  <2>1. UNCHANGED <<owner, detached, has_tid, thread_data, listed, created, slot, info, pthread, handle, os, joinid, exit_requested, acknowledge, cpc, of, at, halt>>
    BY <1>7 DEF Begin, Goto
  <2>2. status' \in [Slots -> Statuses]
    BY <1>7 DEF Begin, Goto, Statuses
  <2>3. pc' \in [Threads -> Places]
    BY <1>7 DEF Begin, Goto, Places
  <2>4. \A y \in Slots : status'[y] = "RESERVED" =>
          created' < MaxThreads /\ \A x \in Slots : status'[x] = "RESERVED" => x = y
    BY <1>7 DEF Begin, Goto, Completed
  <2>. QED
    BY <1>7, <2>1, <2>2, <2>3, <2>4, TypedFrom
<1>8. ASSUME UNCHANGED doing, NEW k \in Threads, DetachSelf(k) PROVE Typed'
  <2>1. UNCHANGED <<status, owner, has_tid, thread_data, listed, created, slot, info, pthread, handle, exit_requested, acknowledge, pc, cpc, of, at, halt>>
    BY <1>8 DEF DetachSelf, PthreadDetach
  <2>2. joinid' \in [Threads -> Joiners \cup {TheGC, Nil, Detached, Main}]
    BY <1>8 DEF DetachSelf, PthreadDetach
  <2>3. os' \in [Threads -> {"none", "running", "ended", "gone"}]
    BY <1>8 DEF DetachSelf, PthreadDetach
  <2>4. detached' \in [Slots -> BOOLEAN]
    BY <1>8 DEF DetachSelf, PthreadDetach
  <2>. QED
    BY <1>8, <2>1, <2>2, <2>3, <2>4, TypedFrom
<1>9. ASSUME UNCHANGED doing, NEW k \in Threads, Complete(k) PROVE Typed'
  <2>1. UNCHANGED <<owner, detached, has_tid, thread_data, listed, created, slot, info, pthread, handle, os, joinid, exit_requested, acknowledge, cpc, of, at, halt>>
    BY <1>9 DEF Complete, Goto
  <2>2. status' \in [Slots -> Statuses]
    <3>1. PICK o \in Outcomes : status' = [status EXCEPT ![slot[k]] = o]
      BY <1>9 DEF Complete
    <3>2. status \in [Slots -> Statuses] /\ o \in Statuses
      BY DEF Statuses
    <3>. QED
      BY ONLY <3>1, <3>2
  <2>3. pc' \in [Threads -> Places]
    BY <1>9 DEF Complete, Goto, Places
  <2>4. \A y \in Slots : status'[y] = "RESERVED" =>
          created' < MaxThreads /\ \A x \in Slots : status'[x] = "RESERVED" => x = y
    BY <1>9 DEF Complete, Goto, Completed
  <2>. QED
    BY <1>9, <2>1, <2>2, <2>3, <2>4, TypedFrom
<1>10. ASSUME UNCHANGED doing, NEW k \in Threads, Acknowledge(k) PROVE Typed'
  BY <1>10, TypedFrom DEF Acknowledge, Goto, Statuses, Places, ClientPlaces, HaltPlaces
<1>11. ASSUME UNCHANGED doing, NEW k \in Threads, Kill(k) PROVE Typed'
  BY <1>11, TypedFrom DEF Kill, Goto, Statuses, Places, ClientPlaces, HaltPlaces
<1>12. ASSUME UNCHANGED doing, NEW k \in Threads, ReleaseData(k) PROVE Typed'
  <2>1. UNCHANGED <<status, owner, detached, listed, created, slot, info, pthread, handle, os, joinid, exit_requested, acknowledge, cpc, of, at, halt>>
    BY <1>12 DEF ReleaseData, Goto
  <2>2. thread_data' \in [Slots -> BOOLEAN]
    BY <1>12 DEF ReleaseData, Goto
  <2>3. has_tid' \in [Slots -> BOOLEAN]
    BY <1>12 DEF ReleaseData, Goto
  <2>4. pc' \in [Threads -> Places]
    BY <1>12 DEF ReleaseData, Goto, Places
  <2>. QED
    BY <1>12, <2>1, <2>2, <2>3, <2>4, TypedFrom
<1>13. ASSUME UNCHANGED doing, NEW k \in Threads, TestDetached(k) PROVE Typed'
  BY <1>13, TypedFrom DEF TestDetached, Goto, Statuses, Places, ClientPlaces, HaltPlaces
<1>14. ASSUME UNCHANGED doing, NEW k \in Threads, FreeSelf(k) PROVE Typed'
  <2>1. UNCHANGED <<owner, has_tid, created, slot, pthread, handle, os, joinid, exit_requested, acknowledge, cpc, of, at, halt>>
    BY <1>14 DEF FreeSelf, MarkSelf, UnlinkSelf, Mark, Unlink, Goto
  <2>2. status' \in [Slots -> Statuses]
    BY <1>14 DEF FreeSelf, MarkSelf, UnlinkSelf, Mark, Unlink, Goto, Statuses
  <2>3. thread_data' \in [Slots -> BOOLEAN]
    BY <1>14 DEF FreeSelf, MarkSelf, UnlinkSelf, Mark, Unlink, Goto
  <2>4. detached' \in [Slots -> BOOLEAN]
    BY <1>14 DEF FreeSelf, MarkSelf, UnlinkSelf, Mark, Unlink, Goto
  <2>5. info' \in [Threads -> Slots \cup {Nil}]
    BY <1>14 DEF FreeSelf, MarkSelf, UnlinkSelf, Mark, Unlink, Goto
  <2>6. listed' \in [Slots -> BOOLEAN]
    BY <1>14 DEF FreeSelf, MarkSelf, UnlinkSelf, Mark, Unlink, Goto
  <2>7. pc' \in [Threads -> Places]
    BY <1>14 DEF FreeSelf, MarkSelf, UnlinkSelf, Mark, Unlink, Goto, Places
  <2>8. \A y \in Slots : status'[y] = "RESERVED" =>
          created' < MaxThreads /\ \A x \in Slots : status'[x] = "RESERVED" => x = y
    BY <1>14 DEF FreeSelf, MarkSelf, UnlinkSelf, Mark, Unlink, Goto, Completed
  <2>. QED
    BY <1>14, <2>1, <2>2, <2>3, <2>4, <2>5, <2>6, <2>7, <2>8, TypedFrom
<1>15. ASSUME UNCHANGED doing, NEW k \in Threads, Post(k) PROVE Typed'
  BY <1>15, TypedFrom, SMTT(30) DEF Post, PthreadDetach, Goto, Statuses, Places, ClientPlaces, HaltPlaces
<1>16. ASSUME UNCHANGED doing, NEW k \in Threads, End(k) PROVE Typed'
  BY <1>16, TypedFrom DEF End, Ends, Goto, Statuses, Places, ClientPlaces, HaltPlaces
<1>17. ASSUME UNCHANGED doing, NEW c \in Joiners, JoinFind(c) PROVE Typed'
  BY <1>17, TypedFrom DEF JoinFind, Client, Statuses, Places, ClientPlaces, HaltPlaces
<1>18. ASSUME UNCHANGED doing, NEW c \in Joiners, JoinTry(c) PROVE Typed'
  BY <1>18, TypedFrom, SMTT(30) DEF JoinTry, Client, Leave, Statuses, Places, ClientPlaces, HaltPlaces
<1>19. ASSUME UNCHANGED doing, NEW c \in Joiners, JoinTimeout(c) PROVE Typed'
  <2>1. UNCHANGED <<status, owner, detached, has_tid, thread_data, listed, created, slot, info, pthread, handle, os, exit_requested, acknowledge, pc, halt>>
    BY <1>19 DEF JoinTimeout, Client, Leave
  <2>2. joinid' \in [Threads -> Joiners \cup {TheGC, Nil, Detached, Main}]
    BY <1>19 DEF JoinTimeout, Client, Leave
  <2>3. cpc' \in [Clients -> ClientPlaces]
    BY <1>19 DEF JoinTimeout, Client, Leave, ClientPlaces
  <2>4. of' \in [Clients -> 0..MaxThreads]
    BY <1>19 DEF JoinTimeout, Client, Leave
  <2>5. at' \in [Clients -> Slots \cup {Nil}]
    BY <1>19 DEF JoinTimeout, Client, Leave
  <2>. QED
    BY <1>19, <2>1, <2>2, <2>3, <2>4, <2>5, TypedFrom
<1>20. ASSUME UNCHANGED doing, NEW c \in Joiners, JoinEnded(c) PROVE Typed'
  <2>1. UNCHANGED <<status, owner, detached, has_tid, thread_data, listed, created, slot, info, pthread, handle, joinid, exit_requested, acknowledge, pc, of, at, halt>>
    BY <1>20 DEF JoinEnded, Client
  <2>2. os' \in [Threads -> {"none", "running", "ended", "gone"}]
    BY <1>20 DEF JoinEnded, Client
  <2>3. cpc' \in [Clients -> ClientPlaces]
    BY <1>20 DEF JoinEnded, Client, ClientPlaces
  <2>. QED
    BY <1>20, <2>1, <2>2, <2>3, TypedFrom
<1>21. ASSUME UNCHANGED doing, NEW c \in Joiners, JoinStatus(c) PROVE Typed'
  BY <1>21, TypedFrom, SMTT(30) DEF JoinStatus, Client, Leave, Statuses, Places, ClientPlaces, HaltPlaces
<1>22. ASSUME UNCHANGED doing, NEW c \in Clients, FreeOther(c) PROVE Typed'
  <2>1. UNCHANGED <<owner, has_tid, created, slot, pthread, handle, os, joinid, exit_requested, acknowledge, pc, halt>>
    BY <1>22 DEF FreeOther, MarkOther, UnlinkOther, Mark, Unlink, Client, Leave
  <2>2. status' \in [Slots -> Statuses]
    BY <1>22 DEF FreeOther, MarkOther, UnlinkOther, Mark, Unlink, Client, Leave, Statuses
  <2>3. thread_data' \in [Slots -> BOOLEAN]
    BY <1>22 DEF FreeOther, MarkOther, UnlinkOther, Mark, Unlink, Client, Leave
  <2>4. detached' \in [Slots -> BOOLEAN]
    BY <1>22 DEF FreeOther, MarkOther, UnlinkOther, Mark, Unlink, Client, Leave
  <2>5. info' \in [Threads -> Slots \cup {Nil}]
    BY <1>22 DEF FreeOther, MarkOther, UnlinkOther, Mark, Unlink, Client, Leave
  <2>6. listed' \in [Slots -> BOOLEAN]
    BY <1>22 DEF FreeOther, MarkOther, UnlinkOther, Mark, Unlink, Client, Leave
  <2>7. cpc' \in [Clients -> ClientPlaces]
    BY <1>22 DEF FreeOther, MarkOther, UnlinkOther, Mark, Unlink, Client, Leave, ClientPlaces
  <2>8. of' \in [Clients -> 0..MaxThreads]
    BY <1>22 DEF FreeOther, MarkOther, UnlinkOther, Mark, Unlink, Client, Leave
  <2>9. at' \in [Clients -> Slots \cup {Nil}]
    BY <1>22 DEF FreeOther, MarkOther, UnlinkOther, Mark, Unlink, Client, Leave
  <2>10. \A y \in Slots : status'[y] = "RESERVED" =>
          created' < MaxThreads /\ \A x \in Slots : status'[x] = "RESERVED" => x = y
    BY <1>22 DEF FreeOther, MarkOther, UnlinkOther, Mark, Unlink, Client, Leave, Completed
  <2>. QED
    BY <1>22, <2>1, <2>2, <2>3, <2>4, <2>5, <2>6, <2>7, <2>8, <2>9, <2>10, TypedFrom
<1>23. ASSUME UNCHANGED doing, NEW c \in Detachers, Detach(c) PROVE Typed'
  <2>1. UNCHANGED <<status, owner, has_tid, thread_data, listed, created, slot, info, pthread, handle, exit_requested, acknowledge, pc, halt>>
    BY <1>23 DEF Detach, Client, PthreadDetach
  <2>2. cpc' \in [Clients -> ClientPlaces]
    BY <1>23 DEF Detach, Client, PthreadDetach, ClientPlaces
  <2>3. of' \in [Clients -> 0..MaxThreads]
    <3>1. of' = of \/ \E k \in Threads : of' = [of EXCEPT ![c] = k]
      BY <1>23 DEF Detach
    <3>2. of \in [Clients -> 0..MaxThreads] /\ \A k \in Threads : k \in 0..MaxThreads
      BY DEF Threads
    <3>. QED
      BY ONLY <3>1, <3>2
  <2>4. at' \in [Clients -> Slots \cup {Nil}]
    BY <1>23 DEF Detach, Client, PthreadDetach
  <2>5. detached' \in [Slots -> BOOLEAN]
    <3>1. detached' = detached \/ \E k \in Threads : detached' = [detached EXCEPT ![info[k]] = TRUE]
      BY <1>23 DEF Detach
    <3>2. detached \in [Slots -> BOOLEAN]
      OBVIOUS
    <3>. QED
      BY ONLY <3>1, <3>2
  <2>6. joinid' \in [Threads -> Joiners \cup {TheGC, Nil, Detached, Main}]
    BY <1>23 DEF Detach, Client, PthreadDetach
  <2>7. os' \in [Threads -> {"none", "running", "ended", "gone"}]
    BY <1>23 DEF Detach, Client, PthreadDetach
  <2>. QED
    BY <1>23, <2>1, <2>2, <2>3, <2>4, <2>5, <2>6, <2>7, TypedFrom
<1>24. ASSUME UNCHANGED doing, NEW k \in Threads, CollectHandle(k) PROVE Typed'
  BY <1>24, TypedFrom DEF CollectHandle, Statuses, Places, ClientPlaces, HaltPlaces
<1>25. ASSUME UNCHANGED doing, NEW k \in Threads, Discard(k) PROVE Typed'
  <2>1. UNCHANGED <<status, owner, has_tid, thread_data, listed, created, slot, info, pthread, exit_requested, acknowledge, pc, halt>>
    BY <1>25 DEF Discard, PthreadDetach, Client
  <2>2. handle' \in [Threads -> {"live", "garbage", "none"}]
    BY <1>25 DEF Discard, PthreadDetach, Client
  <2>3. joinid' \in [Threads -> Joiners \cup {TheGC, Nil, Detached, Main}]
    BY <1>25 DEF Discard, PthreadDetach, Client
  <2>4. os' \in [Threads -> {"none", "running", "ended", "gone"}]
    BY <1>25 DEF Discard, PthreadDetach, Client
  <2>5. detached' \in [Slots -> BOOLEAN]
    BY <1>25 DEF Discard, PthreadDetach, Client
  <2>6. cpc' \in [Clients -> ClientPlaces]
    BY <1>25 DEF Discard, PthreadDetach, Client, ClientPlaces
  <2>7. of' \in [Clients -> 0..MaxThreads]
    BY <1>25, SMTT(30) DEF Discard, Client, PthreadDetach, Threads
  <2>8. at' \in [Clients -> Slots \cup {Nil}]
    BY <1>25 DEF Discard, PthreadDetach, Client
  <2>. QED
    BY <1>25, <2>1, <2>2, <2>3, <2>4, <2>5, <2>6, <2>7, <2>8, TypedFrom
<1>26. ASSUME UNCHANGED doing, DiscardJoin PROVE Typed'
  <2>1. UNCHANGED <<status, owner, detached, has_tid, thread_data, listed, created, slot, info, pthread, handle, os, exit_requested, acknowledge, pc, of, at, halt>>
    BY <1>26 DEF DiscardJoin, Client
  <2>2. joinid' \in [Threads -> Joiners \cup {TheGC, Nil, Detached, Main}]
    BY <1>26 DEF DiscardJoin, Client
  <2>3. cpc' \in [Clients -> ClientPlaces]
    BY <1>26 DEF DiscardJoin, Client, ClientPlaces
  <2>. QED
    BY <1>26, <2>1, <2>2, <2>3, TypedFrom
<1>27. ASSUME UNCHANGED doing, DiscardWait PROVE Typed'
  BY <1>27, TypedFrom DEF DiscardWait, Client, Statuses, Places, ClientPlaces, HaltPlaces
<1>28. ASSUME UNCHANGED doing, HaltBegin PROVE Typed'
  BY <1>28, TypedFrom DEF HaltBegin, Statuses, Places, ClientPlaces, HaltPlaces
<1>29. ASSUME UNCHANGED doing, NEW s \in Slots, HaltLook(s) PROVE Typed'
  <2>1. UNCHANGED <<status, owner, detached, has_tid, thread_data, listed, created, slot, info, pthread, handle, os, joinid, exit_requested, acknowledge, pc, cpc, of, at>>
    BY <1>29 DEF HaltLook
  <2>2. halt' \in HaltType
    BY <1>29 DEF HaltLook, HaltPlaces
  <2>. QED
    BY <1>29, <2>1, <2>2, TypedFrom
<1>30. ASSUME UNCHANGED doing, HaltJoin PROVE Typed'
  <2>1. UNCHANGED <<status, owner, detached, has_tid, thread_data, listed, created, slot, info, pthread, handle, os, exit_requested, acknowledge, pc, cpc, of, at>>
    BY <1>30 DEF HaltJoin
  <2>2. joinid' \in [Threads -> Joiners \cup {TheGC, Nil, Detached, Main}]
    BY <1>30 DEF HaltJoin
  <2>3. halt' \in HaltType
    BY <1>30 DEF HaltJoin, HaltPlaces
  <2>. QED
    BY <1>30, <2>1, <2>2, <2>3, TypedFrom
<1>31. ASSUME UNCHANGED doing, HaltRequest PROVE Typed'
  <2>1. UNCHANGED <<status, owner, detached, has_tid, thread_data, listed, created, slot, info, pthread, handle, os, joinid, acknowledge, pc, cpc, of, at>>
    BY <1>31 DEF HaltRequest
  <2>2. exit_requested' \in [Threads -> BOOLEAN]
    <3>1. exit_requested' = exit_requested
          \/ exit_requested' = [exit_requested EXCEPT ![owner[halt.at]] = TRUE]
      BY <1>31 DEF HaltRequest
    <3>2. exit_requested \in [Threads -> BOOLEAN]
      OBVIOUS
    <3>. QED
      BY ONLY <3>1, <3>2
  <2>3. halt' \in HaltType
    BY <1>31, SMTT(30) DEF HaltRequest, HaltPlaces
  <2>. QED
    BY <1>31, <2>1, <2>2, <2>3, TypedFrom
<1>32. ASSUME UNCHANGED doing, HaltRaise PROVE Typed'
  <2>1. UNCHANGED <<status, owner, detached, has_tid, thread_data, listed, created, slot, info, pthread, handle, os, joinid, exit_requested, acknowledge, pc, cpc, of, at>>
    BY <1>32 DEF HaltRaise
  <2>2. halt' \in HaltType
    <3>1. PICK n \in Int : halt' = [halt EXCEPT !.pc = "look", !.canceled = n]
      <4>1. halt.canceled \in Int /\ halt.canceled + 1 \in Int
        OBVIOUS
      <4>. QED
        BY <1>32, <4>1 DEF HaltRaise
    <3>. QED
      BY <3>1 DEF HaltPlaces
  <2>. QED
    BY <1>32, <2>1, <2>2, TypedFrom
<1>33. ASSUME UNCHANGED doing, HaltWait PROVE Typed'
  <2>1. UNCHANGED <<status, owner, detached, has_tid, thread_data, listed, created, slot, info, pthread, handle, os, joinid, exit_requested, acknowledge, pc, cpc, of, at>>
    BY <1>33 DEF HaltWait, WaitsOn, Tick
  <2>2. halt' \in HaltType
    <3>1. CASE WaitsOn
      <4>1. halt.canceled - halt.sem \in Int /\ halt.maxwait - 1 \in 0..MaxWait
        BY <3>1 DEF WaitsOn
      <4>2. halt' = [halt EXCEPT !.canceled = halt.canceled - halt.sem, !.sem = 0,
                                !.maxwait = halt.maxwait - 1]
        BY <1>33, <3>1 DEF HaltWait, Tick
      <4>. QED
        BY <4>1, <4>2
    <3>2. CASE ~WaitsOn
      <4>1. halt' = [halt EXCEPT !.pc = "done"]
        BY <1>33, <3>2 DEF HaltWait
      <4>. QED
        BY <4>1 DEF HaltPlaces
    <3>. QED
      BY <3>1, <3>2
  <2>. QED
    BY <1>33, <2>1, <2>2, TypedFrom
<1>34. ASSUME UNCHANGED doing, DiscardTest PROVE Typed'
  BY <1>34, TypedFrom DEF DiscardTest, Client, ClientPlaces
<1>35. ASSUME UNCHANGED doing, DiscardJoined PROVE Typed'
  <2>1. UNCHANGED <<status, owner, detached, has_tid, thread_data, listed, created, slot, info, pthread, handle, joinid, exit_requested, acknowledge, pc, of, at, halt>>
    BY <1>35 DEF DiscardJoined, Client
  <2>2. os' \in [Threads -> {"none", "running", "ended", "gone"}]
    BY <1>35 DEF DiscardJoined, Client
  <2>3. cpc' \in [Clients -> ClientPlaces]
    BY <1>35 DEF DiscardJoined, Client, ClientPlaces
  <2>. QED
    BY <1>35, <2>1, <2>2, <2>3, TypedFrom
<1>36. ASSUME UNCHANGED doing, HaltJoined PROVE Typed'
  <2>1. UNCHANGED <<status, owner, detached, has_tid, thread_data, listed, created, slot, info, pthread, handle, joinid, exit_requested, acknowledge, pc, cpc, of, at>>
    BY <1>36 DEF HaltJoined
  <2>2. os' \in [Threads -> {"none", "running", "ended", "gone"}]
    BY <1>36 DEF HaltJoined
  <2>3. halt' \in HaltType
    BY <1>36 DEF HaltJoined, HaltPlaces
  <2>. QED
    BY <1>36, <2>1, <2>2, <2>3, TypedFrom
<1>. QED
  BY <1>1, <1>2, <1>3, <1>4, <1>5, <1>6, <1>7, <1>8, <1>9, <1>10, <1>11, <1>12, <1>13, <1>14, <1>15, <1>16, <1>17, <1>18, <1>19, <1>20, <1>21, <1>22, <1>23, <1>24, <1>25, <1>26, <1>27, <1>28, <1>29, <1>30, <1>31, <1>32, <1>33, <1>34, <1>35, <1>36
  DEF Next, Step, Thread, Goal, Join, Collector, Halter

-----------------------------------------------------------------------------
(* What the parts of the invariant say together.                            *)

\* A thread is joined by one, and not detached by another.
Apart == \A s \in Scenarios : "join" \in s => "detach" \notin s /\ "self_detach" \notin s
OneJoiner == \A a, b \in Joiners : a = b

\* Handles are not discarded while threads detach themselves or are told to exit.
DiscardAlone == \A s \in Scenarios :
                   "discard" \in s => "self_detach" \notin s /\ "halt" \notin s

\* The thread that a pthread_t stands for is the last one that got it.
LEMMA LatestGot ==
  ASSUME Typed, NEW k \in Threads
  PROVE  /\ Latest(pthread[k]) \in Threads /\ pthread[Latest(pthread[k])] = pthread[k]
         /\ \A j \in Threads : pthread[j] = pthread[k] => j <= Latest(pthread[k])
<1>. DEFINE S == {j \in Threads : pthread[j] = pthread[k]}
<1>1. S \in SUBSET Nat /\ S # {} /\ MaxThreads \in Nat /\ \A j \in S : j <= MaxThreads
  BY LifeAssumption DEF Threads
<1>2. Max(S) \in S /\ \A j \in S : j <= Max(S)
  <2>. HIDE DEF S
  <2>. QED
    BY <1>1, MaxIsGreatest
<1>. QED
  BY <1>2 DEF Latest

\* The thread that a client waits for is the one it means, unless that is gone.
LEMMA TargetMeant ==
  ASSUME Typed, Born, Recycled, Claimed, NEW c \in Clients, cpc[c] # "idle"
  PROVE  /\ of[c] \in Threads /\ of[c] <= created
         /\ Target(c) \in Threads /\ Target(c) <= created
         /\ Target(c) = of[c] \/ os[of[c]] = "gone"
<1>1. of[c] \in Threads /\ of[c] <= created
  BY Fields DEF Claimed, Claims, Threads
<1>2. /\ Target(c) \in Threads /\ pthread[Target(c)] = pthread[of[c]]
      /\ of[c] <= Target(c)
  BY <1>1, LatestGot DEF Target
<1>3. Target(c) <= created
  <2>1. pthread[of[c]] # 0
    BY <1>1, Fields DEF Born, Threads
  <2>2. ~(Target(c) > created)
    BY <1>2, <2>1 DEF Born
  <2>. QED
    BY <1>2, <2>2, Fields DEF Threads
<1>4. CASE of[c] < Target(c)
  BY <1>1, <1>2, <1>3, <1>4 DEF Recycled
<1>5. CASE of[c] = Target(c)
  BY <1>1, <1>2, <1>3, <1>5
<1>. QED
  BY <1>1, <1>2, <1>3, <1>4, <1>5, Fields DEF Threads

\* Before the threads are told to exit, a slot that a client has is not listed.
LEMMA SlotsHeld ==
  ASSUME Core, Before, NEW c \in Clients, cpc[c] # "idle"
  PROVE  ~listed[at[c]] /\ owner[at[c]] = of[c] /\ ~detached[at[c]]
<1>1. c \in Joiners \/ c = TheGC
  BY DEF Before, Clients
<1>2. slot[of[c]] = at[c] /\ owner[at[c]] = of[c]
  BY DEF Core, Claimed, Claims
<1>3. CASE c = TheGC
  BY <1>2, <1>3 DEF Before, CollectorSound, Forgotten
<1>4. CASE c \in Joiners
  BY <1>2, <1>4 DEF Before, JoinerSound
<1>. QED
  BY <1>1, <1>3, <1>4

\* pthread_detach() changes one thread at most.
LEMMA DetachEffect ==
  ASSUME Typed, NEW k, PthreadDetach(k)
  PROVE  \A j \in Threads :
           /\ \/ joinid'[j] = joinid[j]
              \/ j = k /\ joinid[j] = Nil /\ joinid'[j] = Detached
           /\ \/ os'[j] = os[j] /\ (joinid'[j] = joinid[j] \/ os[j] # "ended")
              \/ j = k /\ joinid[j] = Nil /\ os[j] = "ended" /\ os'[j] = "gone"
           /\ j = k => joinid'[j] # Nil
<1>1. joinid \in [Threads -> Joiners \cup {TheGC, Nil, Detached, Main}]
      /\ os \in [Threads -> {"none", "running", "ended", "gone"}]
  BY Fields
<1>2. CASE joinid[k] = Nil
  BY <1>1, <1>2, LifeAssumption DEF PthreadDetach
<1>3. CASE joinid[k] # Nil
  BY <1>1, <1>3 DEF PthreadDetach, posix
<1>. QED
  BY <1>2, <1>3

\* Two threads do not use a slot at the same time.
LEMMA OneUser ==
  ASSUME Occupied, NEW j \in Threads, NEW k \in Threads, Living(j), Living(k), slot[j] = slot[k]
  PROVE  j = k
BY DEF Occupied

\* Nobody uses the slot that a client frees.
LEMMA NoUser ==
  ASSUME Typed, Born, Occupied, Reserved, Claimed, NEW c \in Clients,
         cpc[c] \in {"status", "gcwait", "free", "unlink"}
  PROVE  /\ of[c] \in Threads /\ of[c] <= created /\ at[c] = slot[of[c]] /\ at[c] \in Slots
         /\ owner[at[c]] = of[c] /\ pc[of[c]] = "dead" /\ status[at[c]] # "RESERVED"
         /\ \A k \in Threads : Living(k) => slot[k] # at[c]
<1>1. Claims(c)
  BY DEF Claimed
<1>2. of[c] \in Threads /\ of[c] <= created
  BY <1>1, Fields DEF Claims, Threads
<1>3. at[c] = slot[of[c]] /\ at[c] \in Slots
  BY <1>1, <1>2 DEF Claims, Born
<1>4. owner[at[c]] = of[c] /\ pc[of[c]] = "dead"
  BY <1>1 DEF Claims
<1>5. status[at[c]] # "RESERVED"
  BY <1>2, <1>3, <1>4 DEF Reserved, Threads
<1>6. \A k \in Threads : Living(k) => slot[k] # at[c]
  BY <1>2, <1>4 DEF Occupied, Living
<1>. QED
  BY <1>2, <1>3, <1>4, <1>5, <1>6

\* A handle that shows a slot is that of a thread.
LEMMA BornHandle ==
  ASSUME Typed, Born, NEW k \in Threads, info[k] # Nil
  PROVE  k <= created /\ info[k] = slot[k] /\ slot[k] \in Slots
<1>1. k <= created \/ k > created
  BY Fields DEF Threads
<1>. QED
  BY <1>1 DEF Born

\* thread_join/2 finds a thread that nobody has dealt with.
LEMMA JoinFinds ==
  ASSUME Core, Before, OneJoiner, NEW c \in Joiners, JoinFind(c)
  PROVE  \E k \in Threads :
           /\ k <= created /\ handle[k] = "live" /\ info[k] = slot[k] /\ slot[k] \in Slots
           /\ owner[slot[k]] = k /\ ~listed[slot[k]] /\ ~detached[slot[k]]
           /\ ~Invalid(status[slot[k]]) /\ joinid[k] = Nil /\ os[k] # "gone"
           /\ of' = [of EXCEPT ![c] = k] /\ at' = [at EXCEPT ![c] = slot[k]]
<1>1. Typed /\ Born /\ \A x \in Threads : Unasked(x) /\ LiveHandle(x)
  BY DEF Core, Before
<1>2. PICK k \in Threads :
        /\ handle[k] = "live" /\ info[k] # Nil
        /\ ~Invalid(status[info[k]]) /\ ~detached[info[k]]
        /\ of' = [of EXCEPT ![c] = owner[info[k]]] /\ at' = [at EXCEPT ![c] = info[k]]
  BY DEF JoinFind
<1>3. k <= created /\ info[k] = slot[k] /\ slot[k] \in Slots
  BY <1>1, <1>2, BornHandle
<1>4. owner[slot[k]] = k /\ ~listed[slot[k]]
  BY <1>1, <1>2, <1>3 DEF LiveHandle
<1>5. \A b \in Joiners : cpc[b] = "idle"
  BY DEF OneJoiner, JoinFind
<1>6. os[k] # "gone" /\ joinid[k] \in {Nil, Detached}
  BY <1>1, <1>2, <1>3, <1>5 DEF LiveHandle, Joined
<1>7. joinid[k] # Detached
  BY <1>1, <1>2, <1>3, <1>4 DEF Unasked
<1>. QED
  BY <1>2, <1>3, <1>4, <1>6, <1>7

\* thread_detach/1 finds a thread that pthread_detach() knows.
LEMMA DetachFinds ==
  ASSUME Core, Before, Apart, NEW c \in Detachers, Detach(c)
  PROVE  \E k \in Threads :
           /\ k <= created /\ handle[k] = "live" /\ info[k] = slot[k] /\ slot[k] \in Slots
           /\ owner[slot[k]] = k /\ ~listed[slot[k]] /\ ~Invalid(status[slot[k]])
           /\ ~detached[slot[k]] /\ joinid[k] = Nil /\ os[k] # "gone"
           /\ PthreadDetach(k) /\ detached' = [detached EXCEPT ![slot[k]] = TRUE]
           /\ UNCHANGED clients
<1>1. /\ Typed /\ Born /\ \A x \in Threads : Unasked(x) /\ LiveHandle(x)
      /\ \A b \in Joiners : JoinerSound(b)
  BY DEF Core, Before
<1>2. PICK k \in Threads :
        /\ handle[k] = "live" /\ info[k] # Nil
        /\ ~Invalid(status[info[k]]) /\ ~detached[info[k]]
        /\ \/ os[owner[info[k]]] = "gone"
           \/ /\ PthreadDetach(owner[info[k]])
              /\ detached' = [detached EXCEPT ![info[k]] = TRUE]
              /\ UNCHANGED clients
  BY DEF Detach
<1>3. k <= created /\ info[k] = slot[k] /\ slot[k] \in Slots
  BY <1>1, <1>2, BornHandle
<1>4. owner[slot[k]] = k /\ ~listed[slot[k]]
  BY <1>1, <1>2, <1>3 DEF LiveHandle
<1>5. "join" \notin doing
  BY <1>1 DEF Apart, Detach, Typed
<1>6. \A b \in Joiners : cpc[b] = "idle"
  BY <1>1, <1>5 DEF JoinerSound
<1>7. os[k] # "gone" /\ joinid[k] \in {Nil, Detached}
  BY <1>1, <1>2, <1>3, <1>6 DEF LiveHandle, Joined
<1>8. joinid[k] # Detached
  BY <1>1, <1>2, <1>3, <1>4 DEF Unasked
<1>. QED
  BY <1>2, <1>3, <1>4, <1>7, <1>8

\* A thread that is somewhere, or has a slot, has been created.
LEMMA BornThread ==
  ASSUME Typed, Born, NEW k \in Threads, pc[k] # "none" \/ slot[k] # Nil
  PROVE  /\ k \in 1..created /\ k <= created /\ slot[k] \in Slots /\ pc[k] # "none"
         /\ info[k] \in {slot[k], Nil}
         /\ os[k] = "running" <=> pc[k] # "dead"
         /\ joinid[k] = Detached => os[k] # "ended"
<1>1. k \in Nat /\ created \in Nat /\ k >= 1
  BY Fields DEF Threads
<1>2. ~(k > created)
  BY DEF Born
<1>. QED
  BY <1>1, <1>2 DEF Born

\* A client has a thread that has been created.
LEMMA ClaimedThread ==
  ASSUME Typed, Born, NEW c \in Clients, Claims(c)
  PROVE  /\ of[c] \in Threads /\ of[c] <= created /\ slot[of[c]] \in Slots
         /\ at[c] = slot[of[c]] /\ pc[of[c]] # "none"
<1>1. of[c] \in 1..created /\ slot[of[c]] = at[c]
  BY DEF Claims
<1>2. of[c] \in Threads /\ of[c] <= created
  BY <1>1, Fields DEF Threads
<1>. QED
  BY <1>1, <1>2 DEF Born

-----------------------------------------------------------------------------
(* Core is kept by every step.                                              *)

\* alloc_thread() takes a slot that is listed, which no thread uses.
LEMMA CoreReserve ==
  ASSUME Core, halt.pc = "no" => Before, Reserve
  PROVE  Born' /\ Recycled' /\ Occupied' /\ Reserved' /\ Claimed' /\ ListedIsFree'
<1>. USE DEF slots, threads, posix, ld, clients
<1>1. Typed /\ Born /\ Recycled /\ Occupied /\ Reserved /\ Claimed /\ ListedIsFree
  BY DEF Core
<1>2. Born'
  BY <1>1, Fields, LifeAssumption DEF Reserve, Born
<1>3. Recycled'
  BY <1>1, Fields, LifeAssumption DEF Reserve, Recycled, Born
<1>4. Occupied'
  BY <1>1, Fields, LifeAssumption DEF Reserve, Occupied, Living, Born, Claimed, Claims, Reserved
<1>5. Reserved'
  BY <1>1, Fields, LifeAssumption DEF Reserve, Reserved, Occupied, Born, Living, Claimed, Claims, Completed
<1>6. Claimed'
  <2>. SUFFICES ASSUME NEW d \in Clients, cpc'[d] # "idle" PROVE Claims(d)'
    BY DEF Claimed
  <2>1. cpc[d] # "idle" => Claims(d)
    BY <1>1 DEF Claimed
  <2>p. ~listed[at[d]] /\ owner[at[d]] = of[d]
    <3>1. cpc[d] # "idle" /\ halt.pc = "no"
      BY DEF Reserve
    <3>. QED
      BY <3>1, SlotsHeld
  <2>2. of'[d] \in 1..created' /\ slot'[of'[d]] = at'[d]
    BY <2>1, <2>p, <1>1, Fields, LifeAssumption DEF Reserve, Claims, Born
  <2>3. owner'[at'[d]] = of'[d]
    BY <2>1, <2>p, <1>1, Fields, LifeAssumption DEF Reserve, Claims, Born
  <2>4. cpc'[d] \in {"status", "gcwait", "free", "unlink"} => pc'[of'[d]] = "dead"
    BY <2>1, <2>p, <1>1, Fields, LifeAssumption DEF Reserve, Claims, Born
  <2>5. cpc'[d] = "unlink" => status'[at'[d]] = "UNUSED" /\ ~thread_data'[at'[d]]
    BY <2>1, <2>p, <1>1, Fields, LifeAssumption DEF Reserve, Claims, Born, Occupied, Living, Reserved
  <2>. QED
    BY <2>2, <2>3, <2>4, <2>5 DEF Claims
<1>7. ListedIsFree'
  BY <1>1, Fields, LifeAssumption DEF Reserve, ListedIsFree, Occupied, Living, Born, Reserved, Claimed, Claims
<1>. QED
  BY <1>2, <1>3, <1>4, <1>5, <1>6, <1>7

\* thread_create/3 gives a slot back that no thread has got.
LEMMA CoreAbandon ==
  ASSUME Core, halt.pc = "no" => Before, NEW s \in Slots, Abandon(s)
  PROVE  Born' /\ Recycled' /\ Occupied' /\ Reserved' /\ Claimed' /\ ListedIsFree'
<1>. USE DEF slots, threads, posix, ld, clients
<1>1. Typed /\ Born /\ Recycled /\ Occupied /\ Reserved /\ Claimed /\ ListedIsFree
  BY DEF Core
<1>2. Born'
  BY <1>1, Fields, LifeAssumption DEF Abandon, Mark, Unlink, Born
<1>3. Recycled'
  BY <1>1, Fields, LifeAssumption DEF Abandon, Mark, Unlink, Recycled, Born
<1>4. Occupied'
  BY <1>1, Fields, LifeAssumption DEF Abandon, Mark, Unlink, Occupied, Living, Born, Claimed, Claims, Reserved
<1>5. Reserved'
  BY <1>1, Fields, LifeAssumption DEF Abandon, Mark, Unlink, Reserved, Occupied, Born, Living, Claimed, Claims, Completed
<1>6. Claimed'
  BY <1>1, Fields, LifeAssumption DEF Abandon, Mark, Unlink, Claimed, Claims, Born, Occupied, Living, Reserved
<1>7. ListedIsFree'
  <2>1. \A j \in Threads : Living(j) => slot[j] # s
    BY <1>1, Fields DEF Abandon, Occupied, Reserved, Threads
  <2>2. \A j \in Threads : slot[j] = s => pc[j] # "none"
    BY <1>1, Fields, BornThread
  <2>. QED
    BY <1>1, <2>1, <2>2, Fields DEF Abandon, Mark, Unlink, ListedIsFree, Living
<1>. QED
  BY <1>2, <1>3, <1>4, <1>5, <1>6, <1>7

\* pthread_create() makes a thread that has a reserved slot, and a pthread_t of its own
\* or that of a thread that is gone.
LEMMA CoreCreate ==
  ASSUME Core, halt.pc = "no" => Before, NEW s \in Slots, Create(s)
  PROVE  Born' /\ Recycled' /\ Occupied' /\ Reserved' /\ Claimed' /\ ListedIsFree'
<1>. USE DEF slots, threads, posix, ld, clients
<1>1. Typed /\ Born /\ Recycled /\ Occupied /\ Reserved /\ Claimed /\ ListedIsFree
  BY DEF Core
<1>2. Born'
  <2>. DEFINE n == created + 1
  <2>1. PICK p \in {n} \cup Unused :
          /\ pthread' = [pthread EXCEPT ![n] = p] /\ created' = n
          /\ slot' = [slot EXCEPT ![n] = s] /\ info' = [info EXCEPT ![n] = s]
          /\ handle' = [handle EXCEPT ![n] = "live"] /\ os' = [os EXCEPT ![n] = "running"]
          /\ joinid' = [joinid EXCEPT ![n] = IF detached[s] THEN Detached ELSE Nil]
          /\ pc' = [pc EXCEPT ![n] = "start"]
    BY DEF Create, Goto
  <2>2. n \in Threads /\ created \in Nat /\ created < MaxThreads /\ MaxThreads \in Nat
    <3>1. created < MaxThreads
      BY <1>1 DEF Create, Typed
    <3>. QED
      BY <1>1, <3>1, Fields DEF Threads
  <2>3. ASSUME p # n
        PROVE  /\ p \in 1..created
               /\ \A j \in Threads : pthread[j] = p => j <= created /\ os[j] = "gone"
    <3>1. PICK i \in 1..created : p = pthread[i] /\ os[Latest(p)] = "gone"
      BY <2>1, <2>3 DEF Unused
    <3>2. i \in Threads /\ i <= created /\ i \in Nat
      BY <2>2, <3>1 DEF Threads
    <3>3. p \in 1..i
      BY <1>1, <3>1, <3>2 DEF Born
    <3>4. Latest(p) \in Threads /\ pthread[Latest(p)] = p
          /\ \A j \in Threads : pthread[j] = p => j <= Latest(p)
      BY <1>1, <3>1, <3>2, LatestGot
    <3>5. ASSUME NEW j \in Threads, pthread[j] = p PROVE j <= created
      <4>1. j \in Nat
        BY DEF Threads
      <4>2. ~(j > created)
        BY <1>1, <3>2, <3>3, <3>5 DEF Born
      <4>. QED
        BY <2>2, <4>1, <4>2
    <3>6. ASSUME NEW j \in Threads, pthread[j] = p PROVE os[j] = "gone"
      <4>1. j \in Nat /\ Latest(p) \in Nat
        BY <3>4 DEF Threads
      <4>2. CASE j = Latest(p)
        BY <3>1, <4>2
      <4>3. CASE j < Latest(p)
        BY <1>1, <3>4, <3>5, <3>6, <4>3 DEF Recycled
      <4>. QED
        BY <3>4, <3>6, <4>1, <4>2, <4>3
    <3>. QED
      BY <2>2, <3>2, <3>3, <3>5, <3>6
  <2>4. p \in 1..n
    BY <2>1, <2>2, <2>3
  <2>5. ASSUME NEW j \in Threads, j # n
        PROVE  /\ j > created' => j > created
               /\ j <= created' => j <= created
               /\ pthread'[j] = pthread[j] /\ slot'[j] = slot[j] /\ info'[j] = info[j]
               /\ handle'[j] = handle[j] /\ os'[j] = os[j] /\ joinid'[j] = joinid[j]
               /\ pc'[j] = pc[j]
    <3>1. j \in Nat
      BY DEF Threads
    <3>. QED
      BY <1>1, <2>1, <2>2, <2>5, <3>1, Fields
  <2>6. /\ pthread'[n] = p /\ slot'[n] = s /\ info'[n] = s /\ os'[n] = "running"
        /\ pc'[n] = "start" /\ ~(n > created')
    BY <1>1, <2>1, <2>2, Fields
  <2>. HIDE DEF n
  <2>. QED
    BY <1>1, <2>4, <2>5, <2>6 DEF Born
<1>3. Recycled'
  <2>. DEFINE n == created + 1
  <2>1. PICK p \in {n} \cup Unused :
          /\ pthread' = [pthread EXCEPT ![n] = p] /\ created' = n
          /\ slot' = [slot EXCEPT ![n] = s] /\ info' = [info EXCEPT ![n] = s]
          /\ handle' = [handle EXCEPT ![n] = "live"] /\ os' = [os EXCEPT ![n] = "running"]
          /\ joinid' = [joinid EXCEPT ![n] = IF detached[s] THEN Detached ELSE Nil]
          /\ pc' = [pc EXCEPT ![n] = "start"]
    BY DEF Create, Goto
  <2>2. n \in Threads /\ created \in Nat /\ created < MaxThreads /\ MaxThreads \in Nat
    <3>1. created < MaxThreads
      BY <1>1 DEF Create, Typed
    <3>. QED
      BY <1>1, <3>1, Fields DEF Threads
  <2>3. ASSUME p # n
        PROVE  /\ p \in 1..created
               /\ \A j \in Threads : pthread[j] = p => j <= created /\ os[j] = "gone"
    <3>1. PICK i \in 1..created : p = pthread[i] /\ os[Latest(p)] = "gone"
      BY <2>1, <2>3 DEF Unused
    <3>2. i \in Threads /\ i <= created /\ i \in Nat
      BY <2>2, <3>1 DEF Threads
    <3>3. p \in 1..i
      BY <1>1, <3>1, <3>2 DEF Born
    <3>4. Latest(p) \in Threads /\ pthread[Latest(p)] = p
          /\ \A j \in Threads : pthread[j] = p => j <= Latest(p)
      BY <1>1, <3>1, <3>2, LatestGot
    <3>5. ASSUME NEW j \in Threads, pthread[j] = p PROVE j <= created
      <4>1. j \in Nat
        BY DEF Threads
      <4>2. ~(j > created)
        BY <1>1, <3>2, <3>3, <3>5 DEF Born
      <4>. QED
        BY <2>2, <4>1, <4>2
    <3>6. ASSUME NEW j \in Threads, pthread[j] = p PROVE os[j] = "gone"
      <4>1. j \in Nat /\ Latest(p) \in Nat
        BY <3>4 DEF Threads
      <4>2. CASE j = Latest(p)
        BY <3>1, <4>2
      <4>3. CASE j < Latest(p)
        BY <1>1, <3>4, <3>5, <3>6, <4>3 DEF Recycled
      <4>. QED
        BY <3>4, <3>6, <4>1, <4>2, <4>3
    <3>. QED
      BY <2>2, <3>2, <3>3, <3>5, <3>6
  <2>4. ASSUME NEW j \in Threads, NEW k \in Threads, j < k, k <= created',
               pthread'[j] = pthread'[k]
        PROVE  os'[j] = "gone"
    <3>1. j \in Nat /\ k \in Nat /\ k <= n
      BY <2>1, <2>4 DEF Threads
    <3>2. j # n /\ os'[j] = os[j] /\ pthread'[j] = pthread[j]
      BY <1>1, <2>1, <2>2, <2>4, <3>1, Fields
    <3>3. CASE k = n
      <4>1. pthread[j] = p
        BY <1>1, <2>1, <2>2, <2>4, <3>2, <3>3, Fields
      <4>2. p # n
        <5>1. j <= created
          BY <2>2, <2>4, <3>1, <3>3
        <5>2. pthread[j] \in 1..j
          BY <1>1, <5>1 DEF Born
        <5>. QED
          BY <2>2, <3>1, <4>1, <5>1, <5>2
      <4>. QED
        BY <2>3, <3>2, <4>1, <4>2
    <3>4. CASE k # n
      <4>1. k <= created /\ pthread'[k] = pthread[k]
        BY <1>1, <2>1, <2>2, <3>1, <3>4, Fields
      <4>. QED
        BY <1>1, <2>4, <3>2, <4>1 DEF Recycled
    <3>. QED
      BY <3>3, <3>4
  <2>. QED
    BY <2>4 DEF Recycled
<1>4. Occupied'
  BY <1>1, Fields, LifeAssumption DEF Create, Goto, Unused, Occupied, Living, Born, Claimed, Claims, Reserved
<1>5. Reserved'
  BY <1>1, Fields, LifeAssumption DEF Create, Goto, Unused, Reserved, Occupied, Born, Living, Claimed, Claims, Completed
<1>6. Claimed'
  <2>. DEFINE n == created + 1
  <2>1. PICK p \in {n} \cup Unused :
          /\ pthread' = [pthread EXCEPT ![n] = p] /\ created' = n
          /\ slot' = [slot EXCEPT ![n] = s] /\ info' = [info EXCEPT ![n] = s]
          /\ handle' = [handle EXCEPT ![n] = "live"] /\ os' = [os EXCEPT ![n] = "running"]
          /\ joinid' = [joinid EXCEPT ![n] = IF detached[s] THEN Detached ELSE Nil]
          /\ pc' = [pc EXCEPT ![n] = "start"]
    BY DEF Create, Goto
  <2>2. n \in Threads /\ created \in Nat /\ created < MaxThreads /\ MaxThreads \in Nat
    <3>1. created < MaxThreads
      BY <1>1 DEF Create, Typed
    <3>. QED
      BY <1>1, <3>1, Fields DEF Threads
  <2>3. ASSUME p # n
        PROVE  /\ p \in 1..created
               /\ \A j \in Threads : pthread[j] = p => j <= created /\ os[j] = "gone"
    <3>1. PICK i \in 1..created : p = pthread[i] /\ os[Latest(p)] = "gone"
      BY <2>1, <2>3 DEF Unused
    <3>2. i \in Threads /\ i <= created /\ i \in Nat
      BY <2>2, <3>1 DEF Threads
    <3>3. p \in 1..i
      BY <1>1, <3>1, <3>2 DEF Born
    <3>4. Latest(p) \in Threads /\ pthread[Latest(p)] = p
          /\ \A j \in Threads : pthread[j] = p => j <= Latest(p)
      BY <1>1, <3>1, <3>2, LatestGot
    <3>5. ASSUME NEW j \in Threads, pthread[j] = p PROVE j <= created
      <4>1. j \in Nat
        BY DEF Threads
      <4>2. ~(j > created)
        BY <1>1, <3>2, <3>3, <3>5 DEF Born
      <4>. QED
        BY <2>2, <4>1, <4>2
    <3>6. ASSUME NEW j \in Threads, pthread[j] = p PROVE os[j] = "gone"
      <4>1. j \in Nat /\ Latest(p) \in Nat
        BY <3>4 DEF Threads
      <4>2. CASE j = Latest(p)
        BY <3>1, <4>2
      <4>3. CASE j < Latest(p)
        BY <1>1, <3>4, <3>5, <3>6, <4>3 DEF Recycled
      <4>. QED
        BY <3>4, <3>6, <4>1, <4>2, <4>3
    <3>. QED
      BY <2>2, <3>2, <3>3, <3>5, <3>6
  <2>. SUFFICES ASSUME NEW d \in Clients, cpc'[d] # "idle" PROVE Claims(d)'
    BY DEF Claimed
  <2>4. cpc[d] # "idle" /\ UNCHANGED <<cpc, of, at, thread_data>>
    BY DEF Create
  <2>5. Claims(d) /\ of[d] \in Threads /\ of[d] <= created /\ at[d] \in Slots
    BY <1>1, <2>4, ClaimedThread DEF Claimed
  <2>6. of[d] \in Nat /\ of[d] >= 1 /\ of[d] # n
    BY <2>2, <2>5 DEF Threads
  <2>7. owner[at[d]] = of[d] => at[d] # s
    BY <1>1, <2>5, <2>6 DEF Create, Reserved
  <2>8. owner' = [owner EXCEPT ![s] = n] /\ status' = [status EXCEPT ![s] = "CREATED"]
    BY DEF Create
  <2>9. of[d] \in 1..created' /\ slot'[of[d]] = slot[of[d]] /\ joinid'[of[d]] = joinid[of[d]]
        /\ pc'[of[d]] = pc[of[d]] /\ pthread'[of[d]] = pthread[of[d]]
    BY <1>1, <2>1, <2>2, <2>5, <2>6, Fields
  <2>10. owner'[at[d]] = of[d]
    BY <1>1, <2>5, <2>7, <2>8, Fields DEF Claims
  <2>11. cpc[d] = "unlink" => status'[at[d]] = "UNUSED" /\ ~thread_data[at[d]]
    BY <1>1, <2>5, <2>7, <2>8, Fields DEF Claims
  <2>. HIDE DEF n
  <2>. QED
    BY <2>4, <2>5, <2>9, <2>10, <2>11 DEF Claims
<1>7. ListedIsFree'
  BY <1>1, Fields, LifeAssumption DEF Create, Goto, Unused, ListedIsFree, Occupied, Living, Born, Reserved, Claimed, Claims
<1>. QED
  BY <1>2, <1>3, <1>4, <1>5, <1>6, <1>7

\* set_system_thread_id() leaves the slot to the thread.
LEMMA CoreSetTid ==
  ASSUME Core, halt.pc = "no" => Before, NEW k \in Threads, SetTid(k)
  PROVE  Born' /\ Recycled' /\ Occupied' /\ Reserved' /\ Claimed' /\ ListedIsFree'
<1>. USE DEF slots, threads, posix, ld, clients
<1>1. Typed /\ Born /\ Recycled /\ Occupied /\ Reserved /\ Claimed /\ ListedIsFree
  BY DEF Core
<1>2. Born'
  BY <1>1, Fields, LifeAssumption DEF SetTid, Goto, Born
<1>3. Recycled'
  BY <1>1, Fields, LifeAssumption DEF SetTid, Goto, Recycled, Born
<1>4. Occupied'
  BY <1>1, Fields, LifeAssumption DEF SetTid, Goto, Occupied, Living, Born, Claimed, Claims, Reserved
<1>5. Reserved'
  BY <1>1, Fields, LifeAssumption DEF SetTid, Goto, Reserved, Occupied, Born, Living, Claimed, Claims, Completed
<1>6. Claimed'
  BY <1>1, Fields, LifeAssumption DEF SetTid, Goto, Claimed, Claims, Born, Occupied, Living, Reserved
<1>7. ListedIsFree'
  BY <1>1, Fields, LifeAssumption DEF SetTid, Goto, ListedIsFree, Occupied, Living, Born, Reserved, Claimed, Claims
<1>. QED
  BY <1>2, <1>3, <1>4, <1>5, <1>6, <1>7

\* start_thread() without memory ends the thread, which keeps the slot.
LEMMA CoreNoMem ==
  ASSUME Core, halt.pc = "no" => Before, NEW k \in Threads, NoMem(k)
  PROVE  Born' /\ Recycled' /\ Occupied' /\ Reserved' /\ Claimed' /\ ListedIsFree'
<1>. USE DEF slots, threads, posix, ld, clients
<1>1. Typed /\ Born /\ Recycled /\ Occupied /\ Reserved /\ Claimed /\ ListedIsFree
  BY DEF Core
<1>2. Born'
  BY <1>1, Fields, LifeAssumption DEF NoMem, Ends, Goto, Born
<1>3. Recycled'
  <2>1. os[k] = "running"
    BY <1>1, BornThread DEF NoMem, Ends, Goto
  <2>. QED
    BY <1>1, <2>1, Fields DEF NoMem, Ends, Goto, Recycled
<1>4. Occupied'
  <2>1. ASSUME NEW j \in Threads, Living(j)', j # k
        PROVE  Living(j) /\ slot[j] # slot[k]
    <3>1. Living(j) /\ Living(k)
      BY <1>1, <2>1, Fields DEF NoMem, Ends, Goto, Living
    <3>. QED
      BY <1>1, <2>1, <3>1, OneUser
  <2>2. slot[k] \in Slots
    BY <1>1, BornThread DEF NoMem, Ends, Goto
  <2>. QED
    BY <1>1, <2>1, <2>2, Fields DEF NoMem, Ends, Goto, Occupied, Living, Completed
<1>5. Reserved'
  BY <1>1, Fields, LifeAssumption DEF NoMem, Ends, Goto, Reserved, Occupied, Born, Living, Claimed, Claims, Completed
<1>6. Claimed'
  BY <1>1, Fields, LifeAssumption DEF NoMem, Ends, Goto, Claimed, Claims, Born, Occupied, Living, Reserved
<1>7. ListedIsFree'
  BY <1>1, Fields, LifeAssumption DEF NoMem, Ends, Goto, ListedIsFree, Occupied, Living, Born, Reserved, Claimed, Claims
<1>. QED
  BY <1>2, <1>3, <1>4, <1>5, <1>6, <1>7

\* start_thread() sets the status of the thread's own slot.
LEMMA CoreBegin ==
  ASSUME Core, halt.pc = "no" => Before, NEW k \in Threads, Begin(k)
  PROVE  Born' /\ Recycled' /\ Occupied' /\ Reserved' /\ Claimed' /\ ListedIsFree'
<1>. USE DEF slots, threads, posix, ld, clients
<1>1. Typed /\ Born /\ Recycled /\ Occupied /\ Reserved /\ Claimed /\ ListedIsFree
  BY DEF Core
<1>2. Born'
  BY <1>1, Fields, LifeAssumption DEF Begin, Goto, Born
<1>3. Recycled'
  BY <1>1, Fields, LifeAssumption DEF Begin, Goto, Recycled, Born
<1>4. Occupied'
  <2>1. ASSUME NEW j \in Threads, Living(j)', j # k
        PROVE  Living(j) /\ slot[j] # slot[k]
    <3>1. Living(j) /\ Living(k)
      BY <1>1, <2>1, Fields DEF Begin, Goto, Living
    <3>. QED
      BY <1>1, <2>1, <3>1, OneUser
  <2>2. slot[k] \in Slots
    BY <1>1, BornThread DEF Begin, Goto
  <2>. QED
    BY <1>1, <2>1, <2>2, Fields DEF Begin, Goto, Occupied, Living, Completed
<1>5. Reserved'
  BY <1>1, Fields, LifeAssumption DEF Begin, Goto, Reserved, Occupied, Born, Living, Claimed, Claims, Completed
<1>6. Claimed'
  BY <1>1, Fields, LifeAssumption DEF Begin, Goto, Claimed, Claims, Born, Occupied, Living, Reserved
<1>7. ListedIsFree'
  BY <1>1, Fields, LifeAssumption DEF Begin, Goto, ListedIsFree, Occupied, Living, Born, Reserved, Claimed, Claims
<1>. QED
  BY <1>2, <1>3, <1>4, <1>5, <1>6, <1>7

\* thread_detach/1 of the thread itself: it runs, so it stays.
LEMMA CoreDetachSelf ==
  ASSUME Core, halt.pc = "no" => Before, NEW k \in Threads, DetachSelf(k)
  PROVE  Born' /\ Recycled' /\ Occupied' /\ Reserved' /\ Claimed' /\ ListedIsFree'
<1>. USE DEF slots, threads, posix, ld, clients
<1>1. Typed /\ Born /\ Recycled /\ Occupied /\ Reserved /\ Claimed /\ ListedIsFree
  BY DEF Core
<1>2. Born'
  BY <1>1, Fields, LifeAssumption DEF DetachSelf, PthreadDetach, Born
<1>3. Recycled'
  BY <1>1, Fields, LifeAssumption DEF DetachSelf, PthreadDetach, Recycled, Born
<1>4. Occupied'
  BY <1>1, Fields, LifeAssumption DEF DetachSelf, PthreadDetach, Occupied, Living, Born, Claimed, Claims, Reserved
<1>5. Reserved'
  BY <1>1, Fields, LifeAssumption DEF DetachSelf, PthreadDetach, Reserved, Occupied, Born, Living, Claimed, Claims, Completed
<1>6. Claimed'
  <2>. SUFFICES ASSUME NEW d \in Clients, cpc'[d] # "idle" PROVE Claims(d)'
    BY DEF Claimed
  <2>1. cpc[d] # "idle" => Claims(d)
    BY <1>1 DEF Claimed
  <2>e. \A j \in Threads :
          /\ joinid'[j] = joinid[j] \/ (joinid[j] = Nil /\ joinid'[j] = Detached)
          /\ os'[j] = os[j] \/ (os[j] = "ended" /\ os'[j] = "gone")
    BY <1>1, DetachEffect DEF DetachSelf
  <2>f. cpc[d] # "idle" => of[d] \in Threads
    BY <1>1, <2>1, ClaimedThread
  <2>2. of'[d] \in 1..created' /\ slot'[of'[d]] = at'[d]
    BY <2>1, <2>e, <2>f, <1>1, Fields, LifeAssumption DEF DetachSelf, Claims, Born
  <2>3. owner'[at'[d]] = of'[d]
    BY <2>1, <2>e, <2>f, <1>1, Fields, LifeAssumption DEF DetachSelf, Claims, Born
  <2>4. cpc'[d] \in {"status", "gcwait", "free", "unlink"} => pc'[of'[d]] = "dead"
    BY <2>1, <2>e, <2>f, <1>1, Fields, LifeAssumption DEF DetachSelf, Claims, Born
  <2>5. cpc'[d] = "unlink" => status'[at'[d]] = "UNUSED" /\ ~thread_data'[at'[d]]
    BY <2>1, <2>e, <2>f, <1>1, Fields, LifeAssumption DEF DetachSelf, Claims, Born, Occupied, Living, Reserved
  <2>. QED
    BY <2>2, <2>3, <2>4, <2>5 DEF Claims
<1>7. ListedIsFree'
  BY <1>1, Fields, LifeAssumption DEF DetachSelf, PthreadDetach, ListedIsFree, Occupied, Living, Born, Reserved, Claimed, Claims
<1>. QED
  BY <1>2, <1>3, <1>4, <1>5, <1>6, <1>7

\* set_thread_completion() sets the status of the thread's own slot.
LEMMA CoreComplete ==
  ASSUME Core, halt.pc = "no" => Before, NEW k \in Threads, Complete(k)
  PROVE  Born' /\ Recycled' /\ Occupied' /\ Reserved' /\ Claimed' /\ ListedIsFree'
<1>. USE DEF slots, threads, posix, ld, clients
<1>1. Typed /\ Born /\ Recycled /\ Occupied /\ Reserved /\ Claimed /\ ListedIsFree
  BY DEF Core
<1>2. Born'
  BY <1>1, Fields, LifeAssumption DEF Complete, Goto, Born
<1>3. Recycled'
  BY <1>1, Fields, LifeAssumption DEF Complete, Goto, Recycled, Born
<1>4. Occupied'
  <2>1. ASSUME NEW j \in Threads, Living(j)', j # k
        PROVE  Living(j) /\ slot[j] # slot[k]
    <3>1. Living(j) /\ Living(k)
      BY <1>1, <2>1, Fields DEF Complete, Goto, Living
    <3>. QED
      BY <1>1, <2>1, <3>1, OneUser
  <2>2. slot[k] \in Slots
    BY <1>1, BornThread DEF Complete, Goto
  <2>3. PICK o \in Completed : status' = [status EXCEPT ![slot[k]] = o]
    BY LifeAssumption DEF Complete
  <2>. QED
    BY <1>1, <2>1, <2>2, <2>3, Fields DEF Complete, Goto, Occupied, Living
<1>5. Reserved'
  <2>1. PICK o \in Completed : status' = [status EXCEPT ![slot[k]] = o]
    BY LifeAssumption DEF Complete
  <2>2. o # "RESERVED"
    BY DEF Completed
  <2>. QED
    BY <1>1, <2>1, <2>2, Fields DEF Complete, Reserved
<1>6. Claimed'
  BY <1>1, Fields, LifeAssumption DEF Complete, Goto, Claimed, Claims, Born, Occupied, Living, Reserved
<1>7. ListedIsFree'
  BY <1>1, Fields, LifeAssumption DEF Complete, Goto, ListedIsFree, Occupied, Living, Born, Reserved, Claimed, Claims
<1>. QED
  BY <1>2, <1>3, <1>4, <1>5, <1>6, <1>7

\* freePrologThread() reads whether the thread is to exit.
LEMMA CoreAcknowledge ==
  ASSUME Core, halt.pc = "no" => Before, NEW k \in Threads, Acknowledge(k)
  PROVE  Born' /\ Recycled' /\ Occupied' /\ Reserved' /\ Claimed' /\ ListedIsFree'
<1>. USE DEF slots, threads, posix, ld, clients
<1>1. Typed /\ Born /\ Recycled /\ Occupied /\ Reserved /\ Claimed /\ ListedIsFree
  BY DEF Core
<1>2. Born'
  BY <1>1, Fields, LifeAssumption DEF Acknowledge, Goto, Born
<1>3. Recycled'
  BY <1>1, Fields, LifeAssumption DEF Acknowledge, Goto, Recycled, Born
<1>4. Occupied'
  BY <1>1, Fields, LifeAssumption DEF Acknowledge, Goto, Occupied, Living, Born, Claimed, Claims, Reserved
<1>5. Reserved'
  BY <1>1, Fields, LifeAssumption DEF Acknowledge, Goto, Reserved, Occupied, Born, Living, Claimed, Claims, Completed
<1>6. Claimed'
  BY <1>1, Fields, LifeAssumption DEF Acknowledge, Goto, Claimed, Claims, Born, Occupied, Living, Reserved
<1>7. ListedIsFree'
  BY <1>1, Fields, LifeAssumption DEF Acknowledge, Goto, ListedIsFree, Occupied, Living, Born, Reserved, Claimed, Claims
<1>. QED
  BY <1>2, <1>3, <1>4, <1>5, <1>6, <1>7

\* freePrologThread() shuts off signals.
LEMMA CoreKill ==
  ASSUME Core, halt.pc = "no" => Before, NEW k \in Threads, Kill(k)
  PROVE  Born' /\ Recycled' /\ Occupied' /\ Reserved' /\ Claimed' /\ ListedIsFree'
<1>. USE DEF slots, threads, posix, ld, clients
<1>1. Typed /\ Born /\ Recycled /\ Occupied /\ Reserved /\ Claimed /\ ListedIsFree
  BY DEF Core
<1>2. Born'
  BY <1>1, Fields, LifeAssumption DEF Kill, Goto, Born
<1>3. Recycled'
  BY <1>1, Fields, LifeAssumption DEF Kill, Goto, Recycled, Born
<1>4. Occupied'
  BY <1>1, Fields, LifeAssumption DEF Kill, Goto, Occupied, Living, Born, Claimed, Claims, Reserved
<1>5. Reserved'
  BY <1>1, Fields, LifeAssumption DEF Kill, Goto, Reserved, Occupied, Born, Living, Claimed, Claims, Completed
<1>6. Claimed'
  BY <1>1, Fields, LifeAssumption DEF Kill, Goto, Claimed, Claims, Born, Occupied, Living, Reserved
<1>7. ListedIsFree'
  BY <1>1, Fields, LifeAssumption DEF Kill, Goto, ListedIsFree, Occupied, Living, Born, Reserved, Claimed, Claims
<1>. QED
  BY <1>2, <1>3, <1>4, <1>5, <1>6, <1>7

\* freePrologThread() releases the local data in the thread's own slot.
LEMMA CoreReleaseData ==
  ASSUME Core, halt.pc = "no" => Before, NEW k \in Threads, ReleaseData(k)
  PROVE  Born' /\ Recycled' /\ Occupied' /\ Reserved' /\ Claimed' /\ ListedIsFree'
<1>. USE DEF slots, threads, posix, ld, clients
<1>1. Typed /\ Born /\ Recycled /\ Occupied /\ Reserved /\ Claimed /\ ListedIsFree
  BY DEF Core
<1>2. Born'
  BY <1>1, Fields, LifeAssumption DEF ReleaseData, Goto, Born
<1>3. Recycled'
  BY <1>1, Fields, LifeAssumption DEF ReleaseData, Goto, Recycled, Born
<1>4. Occupied'
  <2>1. ASSUME NEW j \in Threads, Living(j)', j # k
        PROVE  Living(j) /\ slot[j] # slot[k]
    <3>1. Living(j) /\ Living(k)
      BY <1>1, <2>1, Fields DEF ReleaseData, Goto, Living
    <3>. QED
      BY <1>1, <2>1, <3>1, OneUser
  <2>2. slot[k] \in Slots
    BY <1>1, BornThread DEF ReleaseData, Goto
  <2>. QED
    BY <1>1, <2>1, <2>2, Fields DEF ReleaseData, Goto, Occupied, Living, Completed
<1>5. Reserved'
  BY <1>1, Fields, LifeAssumption DEF ReleaseData, Goto, Reserved, Occupied, Born, Living, Claimed, Claims, Completed
<1>6. Claimed'
  BY <1>1, Fields, LifeAssumption DEF ReleaseData, Goto, Claimed, Claims, Born, Occupied, Living, Reserved
<1>7. ListedIsFree'
  BY <1>1, Fields, LifeAssumption DEF ReleaseData, Goto, ListedIsFree, Occupied, Living, Born, Reserved, Claimed, Claims
<1>. QED
  BY <1>2, <1>3, <1>4, <1>5, <1>6, <1>7

\* freePrologThread() decides whether the slot is freed.
LEMMA CoreTestDetached ==
  ASSUME Core, halt.pc = "no" => Before, NEW k \in Threads, TestDetached(k)
  PROVE  Born' /\ Recycled' /\ Occupied' /\ Reserved' /\ Claimed' /\ ListedIsFree'
<1>. USE DEF slots, threads, posix, ld, clients
<1>1. Typed /\ Born /\ Recycled /\ Occupied /\ Reserved /\ Claimed /\ ListedIsFree
  BY DEF Core
<1>2. Born'
  BY <1>1, Fields, LifeAssumption DEF TestDetached, Goto, Born
<1>3. Recycled'
  BY <1>1, Fields, LifeAssumption DEF TestDetached, Goto, Recycled, Born
<1>4. Occupied'
  BY <1>1, Fields, LifeAssumption DEF TestDetached, Goto, Occupied, Living, Born, Claimed, Claims, Reserved
<1>5. Reserved'
  BY <1>1, Fields, LifeAssumption DEF TestDetached, Goto, Reserved, Occupied, Born, Living, Claimed, Claims, Completed
<1>6. Claimed'
  BY <1>1, Fields, LifeAssumption DEF TestDetached, Goto, Claimed, Claims, Born, Occupied, Living, Reserved
<1>7. ListedIsFree'
  BY <1>1, Fields, LifeAssumption DEF TestDetached, Goto, ListedIsFree, Occupied, Living, Born, Reserved, Claimed, Claims
<1>. QED
  BY <1>2, <1>3, <1>4, <1>5, <1>6, <1>7

\* free_thread_info() by the thread marks its own slot.
LEMMA CoreMarkSelf ==
  ASSUME Core, halt.pc = "no" => Before, NEW k \in Threads, MarkSelf(k)
  PROVE  Born' /\ Recycled' /\ Occupied' /\ Reserved' /\ Claimed' /\ ListedIsFree'
<1>. USE DEF slots, threads, posix, ld, clients
<1>1. Typed /\ Born /\ Recycled /\ Occupied /\ Reserved /\ Claimed /\ ListedIsFree
  BY DEF Core
<1>2. Born'
  BY <1>1, Fields, LifeAssumption DEF MarkSelf, Mark, Goto, Born
<1>3. Recycled'
  BY <1>1, Fields, LifeAssumption DEF MarkSelf, Mark, Goto, Recycled, Born
<1>4. Occupied'
  <2>1. ASSUME NEW j \in Threads, Living(j)', j # k
        PROVE  Living(j) /\ slot[j] # slot[k]
    <3>1. Living(j) /\ Living(k)
      BY <1>1, <2>1, Fields DEF MarkSelf, Mark, Goto, Living
    <3>. QED
      BY <1>1, <2>1, <3>1, OneUser
  <2>2. slot[k] \in Slots
    BY <1>1, BornThread DEF MarkSelf, Mark, Goto
  <2>. QED
    BY <1>1, <2>1, <2>2, Fields DEF MarkSelf, Mark, Goto, Occupied, Living
<1>5. Reserved'
  BY <1>1, Fields, LifeAssumption DEF MarkSelf, Mark, Goto, Reserved, Occupied, Born, Living, Claimed, Claims, Completed
<1>6. Claimed'
  <2>. SUFFICES ASSUME NEW d \in Clients, cpc'[d] # "idle" PROVE Claims(d)'
    BY DEF Claimed
  <2>1. cpc[d] # "idle" => Claims(d)
    BY <1>1 DEF Claimed
  <2>2. of'[d] \in 1..created' /\ slot'[of'[d]] = at'[d]
    BY <2>1, <1>1, Fields, LifeAssumption DEF MarkSelf, Mark, Goto, Claims, Born
  <2>3. owner'[at'[d]] = of'[d]
    BY <2>1, <1>1, Fields, LifeAssumption DEF MarkSelf, Mark, Goto, Claims, Born
  <2>4. cpc'[d] \in {"status", "gcwait", "free", "unlink"} => pc'[of'[d]] = "dead"
    BY <2>1, <1>1, Fields, LifeAssumption DEF MarkSelf, Mark, Goto, Claims, Born
  <2>5. cpc'[d] = "unlink" => status'[at'[d]] = "UNUSED" /\ ~thread_data'[at'[d]]
    BY <2>1, <1>1, Fields, LifeAssumption DEF MarkSelf, Mark, Goto, Claims, Born, Occupied, Living, Reserved
  <2>. QED
    BY <2>2, <2>3, <2>4, <2>5 DEF Claims
<1>7. ListedIsFree'
  BY <1>1, Fields, LifeAssumption DEF MarkSelf, Mark, Goto, ListedIsFree, Occupied, Living, Born, Reserved, Claimed, Claims
<1>. QED
  BY <1>2, <1>3, <1>4, <1>5, <1>6, <1>7

\* free_thread_info() by the thread lists its own slot, which it no longer uses.
LEMMA CoreUnlinkSelf ==
  ASSUME Core, halt.pc = "no" => Before, NEW k \in Threads, UnlinkSelf(k)
  PROVE  Born' /\ Recycled' /\ Occupied' /\ Reserved' /\ Claimed' /\ ListedIsFree'
<1>. USE DEF slots, threads, posix, ld, clients
<1>1. Typed /\ Born /\ Recycled /\ Occupied /\ Reserved /\ Claimed /\ ListedIsFree
  BY DEF Core
<1>2. Born'
  BY <1>1, Fields, LifeAssumption DEF UnlinkSelf, Unlink, Goto, Born
<1>3. Recycled'
  BY <1>1, Fields, LifeAssumption DEF UnlinkSelf, Unlink, Goto, Recycled, Born
<1>4. Occupied'
  <2>1. ASSUME NEW j \in Threads, Living(j)', j # k
        PROVE  Living(j) /\ slot[j] # slot[k]
    <3>1. Living(j) /\ Living(k)
      BY <1>1, <2>1, Fields DEF UnlinkSelf, Unlink, Goto, Living
    <3>. QED
      BY <1>1, <2>1, <3>1, OneUser
  <2>2. slot[k] \in Slots
    BY <1>1, BornThread DEF UnlinkSelf, Unlink, Goto
  <2>. QED
    BY <1>1, <2>1, <2>2, Fields DEF UnlinkSelf, Unlink, Goto, Occupied, Living
<1>5. Reserved'
  BY <1>1, Fields, LifeAssumption DEF UnlinkSelf, Unlink, Goto, Reserved, Occupied, Born, Living, Claimed, Claims, Completed
<1>6. Claimed'
  <2>. SUFFICES ASSUME NEW d \in Clients, cpc'[d] # "idle" PROVE Claims(d)'
    BY DEF Claimed
  <2>1. cpc[d] # "idle" => Claims(d)
    BY <1>1 DEF Claimed
  <2>2. of'[d] \in 1..created' /\ slot'[of'[d]] = at'[d]
    BY <2>1, <1>1, Fields, LifeAssumption DEF UnlinkSelf, Unlink, Goto, Claims, Born
  <2>3. owner'[at'[d]] = of'[d]
    BY <2>1, <1>1, Fields, LifeAssumption DEF UnlinkSelf, Unlink, Goto, Claims, Born
  <2>4. cpc'[d] \in {"status", "gcwait", "free", "unlink"} => pc'[of'[d]] = "dead"
    BY <2>1, <1>1, Fields, LifeAssumption DEF UnlinkSelf, Unlink, Goto, Claims, Born
  <2>5. cpc'[d] = "unlink" => status'[at'[d]] = "UNUSED" /\ ~thread_data'[at'[d]]
    BY <2>1, <1>1, Fields, LifeAssumption DEF UnlinkSelf, Unlink, Goto, Claims, Born, Occupied, Living, Reserved
  <2>. QED
    BY <2>2, <2>3, <2>4, <2>5 DEF Claims
<1>7. ListedIsFree'
  <2>1. ASSUME NEW j \in Threads, Living(j)', slot[j] = slot[k] PROVE FALSE
    <3>1. j # k /\ Living(j) /\ Living(k)
      BY <2>1, <1>1, Fields DEF UnlinkSelf, Goto, Living
    <3>. QED
      BY <1>1, <2>1, <3>1, OneUser
  <2>2. \A j \in Threads : slot[j] = slot[k] => pc[j] # "none"
    BY <1>1, Fields, BornThread DEF UnlinkSelf
  <2>3. status[slot[k]] = "UNUSED" /\ ~thread_data[slot[k]] /\ slot[k] \in Slots
    BY <1>1, BornThread DEF UnlinkSelf, Occupied, Living
  <2>4. ASSUME NEW s \in Slots, listed'[s], s # slot[k]
        PROVE  /\ status'[s] = "UNUSED" /\ ~thread_data'[s]
               /\ \A j \in Threads : slot'[j] = s => pc'[j] \in {"post", "end", "dead"}
    BY <1>1, <2>4, Fields DEF UnlinkSelf, Unlink, Goto, ListedIsFree
  <2>5. \A j \in Threads : slot[j] = slot[k] => pc'[j] \in {"post", "end", "dead"}
    BY <1>1, <2>1, <2>2, Fields DEF UnlinkSelf, Goto, Living
  <2>. QED
    BY <2>3, <2>4, <2>5 DEF UnlinkSelf, Unlink, ListedIsFree
<1>. QED
  BY <1>2, <1>3, <1>4, <1>5, <1>6, <1>7

\* A thread that was asked to exit detaches itself.
LEMMA CorePost ==
  ASSUME Core, halt.pc = "no" => Before, NEW k \in Threads, Post(k)
  PROVE  Born' /\ Recycled' /\ Occupied' /\ Reserved' /\ Claimed' /\ ListedIsFree'
<1>. USE DEF slots, threads, posix, ld, clients
<1>1. Typed /\ Born /\ Recycled /\ Occupied /\ Reserved /\ Claimed /\ ListedIsFree
  BY DEF Core
<1>2. Born'
  BY <1>1, Fields, LifeAssumption DEF Post, PthreadDetach, Goto, Born
<1>3. Recycled'
  BY <1>1, Fields, LifeAssumption DEF Post, PthreadDetach, Goto, Recycled, Born
<1>4. Occupied'
  BY <1>1, Fields, LifeAssumption DEF Post, PthreadDetach, Goto, Occupied, Living, Born, Claimed, Claims, Reserved
<1>5. Reserved'
  <2>1. halt'.pc = halt.pc /\ UNCHANGED <<status, owner, listed>>
    BY <1>1 DEF Post, Typed
  <2>. QED
    BY <1>1, <2>1 DEF Reserved
<1>6. Claimed'
  <2>. SUFFICES ASSUME NEW d \in Clients, cpc'[d] # "idle" PROVE Claims(d)'
    BY DEF Claimed
  <2>1. cpc[d] # "idle" => Claims(d)
    BY <1>1 DEF Claimed
  <2>e. \A j \in Threads :
          /\ joinid'[j] = joinid[j] \/ (joinid[j] = Nil /\ joinid'[j] = Detached)
          /\ os'[j] = os[j] \/ (os[j] = "ended" /\ os'[j] = "gone")
    BY <1>1, DetachEffect DEF Post
  <2>f. cpc[d] # "idle" => of[d] \in Threads
    BY <1>1, <2>1, ClaimedThread
  <2>2. of'[d] \in 1..created' /\ slot'[of'[d]] = at'[d]
    BY <2>1, <2>e, <2>f, <1>1, Fields, LifeAssumption DEF Post, Goto, Claims, Born
  <2>3. owner'[at'[d]] = of'[d]
    BY <2>1, <2>e, <2>f, <1>1, Fields, LifeAssumption DEF Post, Goto, Claims, Born
  <2>4. cpc'[d] \in {"status", "gcwait", "free", "unlink"} => pc'[of'[d]] = "dead"
    BY <2>1, <2>e, <2>f, <1>1, Fields, LifeAssumption DEF Post, Goto, Claims, Born
  <2>5. cpc'[d] = "unlink" => status'[at'[d]] = "UNUSED" /\ ~thread_data'[at'[d]]
    BY <2>1, <2>e, <2>f, <1>1, Fields, LifeAssumption DEF Post, Goto, Claims, Born, Occupied, Living, Reserved
  <2>. QED
    BY <2>2, <2>3, <2>4, <2>5 DEF Claims
<1>7. ListedIsFree'
  BY <1>1, Fields, LifeAssumption DEF Post, PthreadDetach, Goto, ListedIsFree, Occupied, Living, Born, Reserved, Claimed, Claims
<1>. QED
  BY <1>2, <1>3, <1>4, <1>5, <1>6, <1>7

\* The thread ends, and no longer uses a slot.
LEMMA CoreEnd ==
  ASSUME Core, halt.pc = "no" => Before, NEW k \in Threads, End(k)
  PROVE  Born' /\ Recycled' /\ Occupied' /\ Reserved' /\ Claimed' /\ ListedIsFree'
<1>. USE DEF slots, threads, posix, ld, clients
<1>1. Typed /\ Born /\ Recycled /\ Occupied /\ Reserved /\ Claimed /\ ListedIsFree
  BY DEF Core
<1>2. Born'
  BY <1>1, Fields, LifeAssumption DEF End, Ends, Goto, Born
<1>3. Recycled'
  <2>1. os[k] = "running"
    BY <1>1, BornThread DEF End, Ends, Goto
  <2>. QED
    BY <1>1, <2>1, Fields DEF End, Ends, Goto, Recycled
<1>4. Occupied'
  BY <1>1, Fields, LifeAssumption DEF End, Ends, Goto, Occupied, Living, Born, Claimed, Claims, Reserved
<1>5. Reserved'
  BY <1>1, Fields, LifeAssumption DEF End, Ends, Goto, Reserved, Occupied, Born, Living, Claimed, Claims, Completed
<1>6. Claimed'
  BY <1>1, Fields, LifeAssumption DEF End, Ends, Goto, Claimed, Claims, Born, Occupied, Living, Reserved
<1>7. ListedIsFree'
  BY <1>1, Fields, LifeAssumption DEF End, Ends, Goto, ListedIsFree, Occupied, Living, Born, Reserved, Claimed, Claims
<1>. QED
  BY <1>2, <1>3, <1>4, <1>5, <1>6, <1>7

\* thread_join/2 finds a thread that owns its slot.
LEMMA CoreJoinFind ==
  ASSUME Core, halt.pc = "no" => Before, Apart, OneJoiner, NEW c \in Joiners, JoinFind(c)
  PROVE  Born' /\ Recycled' /\ Occupied' /\ Reserved' /\ Claimed' /\ ListedIsFree'
<1>. USE DEF slots, threads, posix, ld, clients
<1>1. Typed /\ Born /\ Recycled /\ Occupied /\ Reserved /\ Claimed /\ ListedIsFree
  BY DEF Core
<1>2. Born'
  BY <1>1, Fields, LifeAssumption DEF JoinFind, Client, Born
<1>3. Recycled'
  BY <1>1, Fields, LifeAssumption DEF JoinFind, Client, Recycled, Born
<1>4. Occupied'
  BY <1>1, Fields, LifeAssumption DEF JoinFind, Client, Occupied, Living, Born, Claimed, Claims, Reserved
<1>5. Reserved'
  BY <1>1, Fields, LifeAssumption DEF JoinFind, Client, Reserved, Occupied, Born, Living, Claimed, Claims, Completed
<1>6. Claimed'
  <2>. SUFFICES ASSUME NEW d \in Clients, cpc'[d] # "idle" PROVE Claims(d)'
    BY DEF Claimed
  <2>1. cpc[d] # "idle" => Claims(d)
    BY <1>1 DEF Claimed
  <2>a. Before
    BY DEF JoinFind
  <2>k. PICK k \in Threads :
          /\ k <= created /\ slot[k] \in Slots
          /\ owner[slot[k]] = k /\ os[k] # "gone"
          /\ of' = [of EXCEPT ![c] = k] /\ at' = [at EXCEPT ![c] = slot[k]]
    BY <2>a, JoinFinds
  <2>m. /\ UNCHANGED <<created, slot, owner, joinid, pc, status, thread_data, pthread>>
        /\ cpc' = [cpc EXCEPT ![c] = "join"] /\ k \in 1..created
    BY <1>1, <2>k, Fields DEF JoinFind, Client, Threads
  <2>n. \A j \in Threads : pthread[j] = pthread[k] => j <= k
    <3>1. ASSUME NEW j \in Threads, pthread[j] = pthread[k], j > k PROVE FALSE
      <4>1. k \in Nat /\ j \in Nat /\ created \in Nat
        BY <1>1, Fields DEF Threads
      <4>2. CASE j <= created
        BY <1>1, <2>k, <3>1, <4>2 DEF Recycled
      <4>3. CASE j > created
        BY <1>1, <2>k, <3>1, <4>3 DEF Born
      <4>. QED
        BY <4>1, <4>2, <4>3
    <3>. QED
      BY <3>1 DEF Threads
  <2>o. CASE d # c
    BY <1>1, <2>1, <2>m, <2>k, <2>o, Fields DEF Claims, Clients
  <2>q. CASE d = c
    BY <1>1, <2>m, <2>k, <2>n, <2>q, Fields DEF Claims, Clients
  <2>. QED
    BY <2>o, <2>q
<1>7. ListedIsFree'
  BY <1>1, Fields, LifeAssumption DEF JoinFind, Client, ListedIsFree, Occupied, Living, Born, Reserved, Claimed, Claims
<1>. QED
  BY <1>2, <1>3, <1>4, <1>5, <1>6, <1>7

\* pthread_timedjoin_np() registers the joiner with the thread it means.
LEMMA CoreJoinTry ==
  ASSUME Core, halt.pc = "no" => Before, NEW c \in Joiners, JoinTry(c)
  PROVE  Born' /\ Recycled' /\ Occupied' /\ Reserved' /\ Claimed' /\ ListedIsFree'
<1>. USE DEF slots, threads, posix, ld, clients
<1>1. Typed /\ Born /\ Recycled /\ Occupied /\ Reserved /\ Claimed /\ ListedIsFree
  BY DEF Core
<1>2. Born'
  BY <1>1, Fields, Names DEF JoinTry, Client, Leave, Born
<1>3. Recycled'
  BY <1>1, Fields, LifeAssumption DEF JoinTry, Client, Leave, Recycled, Born
<1>4. Occupied'
  BY <1>1, Fields, LifeAssumption DEF JoinTry, Client, Leave, Occupied, Living, Born, Claimed, Claims, Reserved
<1>5. Reserved'
  BY <1>1, Fields, LifeAssumption DEF JoinTry, Client, Leave, Reserved, Occupied, Born, Living, Claimed, Claims, Completed
<1>6. Claimed'
  <2>. SUFFICES ASSUME NEW d \in Clients, cpc'[d] # "idle" PROVE Claims(d)'
    BY DEF Claimed
  <2>1. cpc[d] # "idle" => Claims(d)
    BY <1>1 DEF Claimed
  <2>f. cpc[d] # "idle" => of[d] \in Threads
    BY <1>1, <2>1, ClaimedThread
  <2>g. Claims(c)
    BY <1>1 DEF Claimed, JoinTry, Clients
  <2>i. /\ of' = of \/ (d # c => of'[d] = of[d])
        /\ d = c /\ cpc'[c] # "idle" => of'[c] = of[c] /\ at'[c] = at[c]
        /\ d # c => cpc'[d] = cpc[d] /\ of'[d] = of[d] /\ at'[d] = at[d]
        /\ d = c => cpc[d] # "idle" /\ cpc'[d] \in {"joining", "idle"}
    BY <1>1, Fields DEF JoinTry, Client, Leave, Clients
  <2>2. of'[d] \in 1..created' /\ slot'[of'[d]] = at'[d]
    BY <2>1, <2>f, <2>g, <2>i, <1>1, Fields, LifeAssumption DEF JoinTry, Client, Leave, Claims, Born
  <2>3. owner'[at'[d]] = of'[d]
    BY <2>1, <2>f, <2>g, <2>i, <1>1, Fields, LifeAssumption DEF JoinTry, Client, Leave, Claims, Born
  <2>4. cpc'[d] \in {"status", "gcwait", "free", "unlink"} => pc'[of'[d]] = "dead"
    BY <2>1, <2>f, <2>g, <2>i, <1>1, Fields, LifeAssumption DEF JoinTry, Client, Leave, Claims, Born
  <2>5. cpc'[d] = "unlink" => status'[at'[d]] = "UNUSED" /\ ~thread_data'[at'[d]]
    BY <2>1, <2>f, <2>g, <2>i, <1>1, Fields, LifeAssumption DEF JoinTry, Client, Leave, Claims, Born, Occupied, Living, Reserved
  <2>. QED
    BY <2>2, <2>3, <2>4, <2>5 DEF Claims
<1>7. ListedIsFree'
  BY <1>1, Fields, LifeAssumption DEF JoinTry, Client, Leave, ListedIsFree, Occupied, Living, Born, Reserved, Claimed, Claims
<1>. QED
  BY <1>2, <1>3, <1>4, <1>5, <1>6, <1>7

\* pthread_timedjoin_np() ends for lack of time.
LEMMA CoreJoinTimeout ==
  ASSUME Core, halt.pc = "no" => Before, NEW c \in Joiners, JoinTimeout(c)
  PROVE  Born' /\ Recycled' /\ Occupied' /\ Reserved' /\ Claimed' /\ ListedIsFree'
<1>. USE DEF slots, threads, posix, ld, clients
<1>1. Typed /\ Born /\ Recycled /\ Occupied /\ Reserved /\ Claimed /\ ListedIsFree
  BY DEF Core
<1>2. Born'
  BY <1>1, Fields, LifeAssumption DEF JoinTimeout, Client, Leave, Born
<1>3. Recycled'
  BY <1>1, Fields, LifeAssumption DEF JoinTimeout, Client, Leave, Recycled, Born
<1>4. Occupied'
  BY <1>1, Fields, LifeAssumption DEF JoinTimeout, Client, Leave, Occupied, Living, Born, Claimed, Claims, Reserved
<1>5. Reserved'
  BY <1>1, Fields, LifeAssumption DEF JoinTimeout, Client, Leave, Reserved, Occupied, Born, Living, Claimed, Claims, Completed
<1>6. Claimed'
  <2>. SUFFICES ASSUME NEW d \in Clients, cpc'[d] # "idle" PROVE Claims(d)'
    BY DEF Claimed
  <2>1. cpc[d] # "idle" => Claims(d)
    BY <1>1 DEF Claimed
  <2>f. cpc[d] # "idle" => of[d] \in Threads
    BY <1>1, <2>1, ClaimedThread
  <2>g. Claims(c)
    BY <1>1 DEF Claimed, JoinTimeout, Clients
  <2>2. of'[d] \in 1..created' /\ slot'[of'[d]] = at'[d]
    BY <2>1, <2>f, <1>1, Fields, LifeAssumption DEF JoinTimeout, Client, Leave, Claims, Born
  <2>3. owner'[at'[d]] = of'[d]
    BY <2>1, <2>f, <1>1, Fields, LifeAssumption DEF JoinTimeout, Client, Leave, Claims, Born
  <2>4. cpc'[d] \in {"status", "gcwait", "free", "unlink"} => pc'[of'[d]] = "dead"
    BY <2>1, <2>f, <1>1, Fields, LifeAssumption DEF JoinTimeout, Client, Leave, Claims, Born
  <2>5. cpc'[d] = "unlink" => status'[at'[d]] = "UNUSED" /\ ~thread_data'[at'[d]]
    BY <2>1, <2>f, <1>1, Fields, LifeAssumption DEF JoinTimeout, Client, Leave, Claims, Born, Occupied, Living, Reserved
  <2>. QED
    BY <2>2, <2>3, <2>4, <2>5 DEF Claims
<1>7. ListedIsFree'
  BY <1>1, Fields, LifeAssumption DEF JoinTimeout, Client, Leave, ListedIsFree, Occupied, Living, Born, Reserved, Claimed, Claims
<1>. QED
  BY <1>2, <1>3, <1>4, <1>5, <1>6, <1>7

\* pthread_timedjoin_np() ends: the thread is dead.
LEMMA CoreJoinEnded ==
  ASSUME Core, halt.pc = "no" => Before, NEW c \in Joiners, JoinEnded(c)
  PROVE  Born' /\ Recycled' /\ Occupied' /\ Reserved' /\ Claimed' /\ ListedIsFree'
<1>. USE DEF slots, threads, posix, ld, clients
<1>1. Typed /\ Born /\ Recycled /\ Occupied /\ Reserved /\ Claimed /\ ListedIsFree
  BY DEF Core
<1>2. Born'
  BY <1>1, Fields, LifeAssumption DEF JoinEnded, Client, Born
<1>3. Recycled'
  BY <1>1, Fields, LifeAssumption DEF JoinEnded, Client, Recycled, Born
<1>4. Occupied'
  BY <1>1, Fields, LifeAssumption DEF JoinEnded, Client, Occupied, Living, Born, Claimed, Claims, Reserved
<1>5. Reserved'
  BY <1>1, Fields, LifeAssumption DEF JoinEnded, Client, Reserved, Occupied, Born, Living, Claimed, Claims, Completed
<1>6. Claimed'
  <2>. SUFFICES ASSUME NEW d \in Clients, cpc'[d] # "idle" PROVE Claims(d)'
    BY DEF Claimed
  <2>1. cpc[d] # "idle" => Claims(d)
    BY <1>1 DEF Claimed
  <2>e. /\ of[c] \in Threads /\ of[c] <= created
        /\ Target(c) = of[c] \/ os[of[c]] = "gone"
    BY <1>1, TargetMeant DEF JoinEnded, Clients
  <2>f. cpc[d] # "idle" => of[d] \in Threads
    BY <1>1, <2>1, ClaimedThread
  <2>g. Claims(c)
    BY <1>1 DEF Claimed, JoinEnded, Clients
  <2>h. pc[of[c]] = "dead"
    <3>1. os[of[c]] \in {"ended", "gone"}
      BY <2>e DEF JoinEnded
    <3>. QED
      BY <1>1, <2>g, <3>1, ClaimedThread, BornThread DEF Clients
  <2>2. of'[d] \in 1..created' /\ slot'[of'[d]] = at'[d]
    BY <2>1, <2>e, <2>f, <2>g, <2>h, <1>1, Fields, LifeAssumption DEF JoinEnded, Client, Claims, Born
  <2>3. owner'[at'[d]] = of'[d]
    BY <2>1, <2>e, <2>f, <2>g, <2>h, <1>1, Fields, LifeAssumption DEF JoinEnded, Client, Claims, Born
  <2>4. cpc'[d] \in {"status", "gcwait", "free", "unlink"} => pc'[of'[d]] = "dead"
    BY <2>1, <2>e, <2>f, <2>g, <2>h, <1>1, Fields, LifeAssumption DEF JoinEnded, Client, Claims, Born
  <2>5. cpc'[d] = "unlink" => status'[at'[d]] = "UNUSED" /\ ~thread_data'[at'[d]]
    BY <2>1, <2>e, <2>f, <2>g, <2>h, <1>1, Fields, LifeAssumption DEF JoinEnded, Client, Claims, Born, Occupied, Living, Reserved
  <2>. QED
    BY <2>2, <2>3, <2>4, <2>5 DEF Claims
<1>7. ListedIsFree'
  BY <1>1, Fields, LifeAssumption DEF JoinEnded, Client, ListedIsFree, Occupied, Living, Born, Reserved, Claimed, Claims
<1>. QED
  BY <1>2, <1>3, <1>4, <1>5, <1>6, <1>7

\* thread_join/2 marks the slot of a thread that is dead.
LEMMA CoreJoinStatus ==
  ASSUME Core, halt.pc = "no" => Before, NEW c \in Joiners, JoinStatus(c)
  PROVE  Born' /\ Recycled' /\ Occupied' /\ Reserved' /\ Claimed' /\ ListedIsFree'
<1>. USE DEF slots, threads, posix, ld, clients
<1>1. Typed /\ Born /\ Recycled /\ Occupied /\ Reserved /\ Claimed /\ ListedIsFree
  BY DEF Core
<1>2. Born'
  BY <1>1, Fields, LifeAssumption DEF JoinStatus, Client, Leave, Born
<1>3. Recycled'
  BY <1>1, Fields, LifeAssumption DEF JoinStatus, Client, Leave, Recycled, Born
<1>4. Occupied'
  <2>u. /\ of[c] \in Threads /\ at[c] \in Slots /\ owner[at[c]] = of[c]
        /\ status[at[c]] # "RESERVED" /\ \A k \in Threads : Living(k) => slot[k] # at[c]
    BY <1>1, NoUser DEF JoinStatus, Clients
  <2>v. /\ \A s \in Slots : s # at[c] => status'[s] = status[s]
        /\ UNCHANGED <<pc, slot, owner, listed, thread_data>>
    BY <1>1, Fields DEF JoinStatus
  <2>w. \A j \in Threads : Living(j) => slot[j] \in Slots
    BY <1>1, BornThread DEF Living
  <2>. QED
    BY <1>1, <2>u, <2>v, <2>w, Fields DEF Occupied, Living
<1>5. Reserved'
  BY <1>1, Fields, LifeAssumption DEF JoinStatus, Client, Leave, Reserved, Occupied, Born, Living, Claimed, Claims, Completed
<1>6. Claimed'
  <2>. SUFFICES ASSUME NEW d \in Clients, cpc'[d] # "idle" PROVE Claims(d)'
    BY DEF Claimed
  <2>1. cpc[d] # "idle" => Claims(d)
    BY <1>1 DEF Claimed
  <2>v. \A s \in Slots : status[s] = "UNUSED" => status'[s] = "UNUSED"
    BY <1>1, Fields DEF JoinStatus, Invalid
  <2>2. of'[d] \in 1..created' /\ slot'[of'[d]] = at'[d]
    BY <2>1, <2>v, <1>1, Fields, LifeAssumption DEF JoinStatus, Client, Leave, Claims, Born
  <2>3. owner'[at'[d]] = of'[d]
    BY <2>1, <2>v, <1>1, Fields, LifeAssumption DEF JoinStatus, Client, Leave, Claims, Born
  <2>4. cpc'[d] \in {"status", "gcwait", "free", "unlink"} => pc'[of'[d]] = "dead"
    BY <2>1, <2>v, <1>1, Fields, LifeAssumption DEF JoinStatus, Client, Leave, Claims, Born
  <2>5. cpc'[d] = "unlink" => status'[at'[d]] = "UNUSED" /\ ~thread_data'[at'[d]]
    <3>1. cpc'[d] = "unlink" => cpc[d] = "unlink" /\ at'[d] = at[d]
      BY <1>1, Fields DEF JoinStatus, Client, Leave, Clients
    <3>2. cpc[d] = "unlink" => at[d] \in Slots
      BY <1>1, NoUser
    <3>. QED
      BY <2>1, <2>v, <3>1, <3>2 DEF Claims, JoinStatus
  <2>. QED
    BY <2>2, <2>3, <2>4, <2>5 DEF Claims
<1>7. ListedIsFree'
  <2>u. /\ of[c] \in Threads /\ at[c] \in Slots /\ owner[at[c]] = of[c]
        /\ status[at[c]] # "RESERVED" /\ \A k \in Threads : Living(k) => slot[k] # at[c]
    BY <1>1, NoUser DEF JoinStatus, Clients
  <2>. QED
    BY <1>1, <2>u, Fields DEF JoinStatus, Client, Leave, ListedIsFree, Living, Invalid
<1>. QED
  BY <1>2, <1>3, <1>4, <1>5, <1>6, <1>7

\* free_thread_info() by a client marks the slot of a thread that is dead.
LEMMA CoreMarkOther ==
  ASSUME Core, halt.pc = "no" => Before, NEW c \in Clients, MarkOther(c)
  PROVE  Born' /\ Recycled' /\ Occupied' /\ Reserved' /\ Claimed' /\ ListedIsFree'
<1>. USE DEF slots, threads, posix, ld, clients
<1>1. Typed /\ Born /\ Recycled /\ Occupied /\ Reserved /\ Claimed /\ ListedIsFree
  BY DEF Core
<1>2. Born'
  BY <1>1, Fields, LifeAssumption DEF MarkOther, Mark, Client, Born
<1>3. Recycled'
  BY <1>1, Fields, LifeAssumption DEF MarkOther, Mark, Client, Recycled, Born
<1>4. Occupied'
  <2>u. /\ of[c] \in Threads /\ at[c] \in Slots /\ owner[at[c]] = of[c]
        /\ status[at[c]] # "RESERVED" /\ \A k \in Threads : Living(k) => slot[k] # at[c]
    BY <1>1, NoUser DEF MarkOther, Clients
  <2>. QED
    BY <1>1, <2>u, Fields DEF MarkOther, Mark, Client, Occupied, Living
<1>5. Reserved'
  BY <1>1, Fields, LifeAssumption DEF MarkOther, Mark, Client, Reserved, Occupied, Born, Living, Claimed, Claims, Completed
<1>6. Claimed'
  <2>. SUFFICES ASSUME NEW d \in Clients, cpc'[d] # "idle" PROVE Claims(d)'
    BY DEF Claimed
  <2>1. cpc[d] # "idle" => Claims(d)
    BY <1>1 DEF Claimed
  <2>u. /\ of[c] \in Threads /\ at[c] \in Slots /\ owner[at[c]] = of[c]
        /\ status[at[c]] # "RESERVED" /\ \A k \in Threads : Living(k) => slot[k] # at[c]
    BY <1>1, NoUser DEF MarkOther, Clients
  <2>2. of'[d] \in 1..created' /\ slot'[of'[d]] = at'[d]
    BY <2>1, <2>u, <1>1, Fields, LifeAssumption DEF MarkOther, Mark, Client, Claims, Born
  <2>3. owner'[at'[d]] = of'[d]
    BY <2>1, <2>u, <1>1, Fields, LifeAssumption DEF MarkOther, Mark, Client, Claims, Born
  <2>4. cpc'[d] \in {"status", "gcwait", "free", "unlink"} => pc'[of'[d]] = "dead"
    BY <2>1, <2>u, <1>1, Fields, LifeAssumption DEF MarkOther, Mark, Client, Claims, Born
  <2>5. cpc'[d] = "unlink" => status'[at'[d]] = "UNUSED" /\ ~thread_data'[at'[d]]
    BY <2>1, <2>u, <1>1, Fields, LifeAssumption DEF MarkOther, Mark, Client, Claims
  <2>. QED
    BY <2>2, <2>3, <2>4, <2>5 DEF Claims
<1>7. ListedIsFree'
  <2>u. /\ of[c] \in Threads /\ at[c] \in Slots /\ owner[at[c]] = of[c]
        /\ status[at[c]] # "RESERVED" /\ \A k \in Threads : Living(k) => slot[k] # at[c]
    BY <1>1, NoUser DEF MarkOther, Clients
  <2>. QED
    BY <1>1, <2>u, Fields DEF MarkOther, Mark, Client, ListedIsFree, Living, Invalid
<1>. QED
  BY <1>2, <1>3, <1>4, <1>5, <1>6, <1>7

\* free_thread_info() by a client lists the slot of a thread that is dead.
LEMMA CoreUnlinkOther ==
  ASSUME Core, halt.pc = "no" => Before, NEW c \in Clients, UnlinkOther(c)
  PROVE  Born' /\ Recycled' /\ Occupied' /\ Reserved' /\ Claimed' /\ ListedIsFree'
<1>. USE DEF slots, threads, posix, ld, clients
<1>1. Typed /\ Born /\ Recycled /\ Occupied /\ Reserved /\ Claimed /\ ListedIsFree
  BY DEF Core
<1>2. Born'
  BY <1>1, Fields, LifeAssumption DEF UnlinkOther, Unlink, Client, Leave, Born
<1>3. Recycled'
  BY <1>1, Fields, LifeAssumption DEF UnlinkOther, Unlink, Client, Leave, Recycled, Born
<1>4. Occupied'
  <2>u. /\ of[c] \in Threads /\ at[c] \in Slots /\ owner[at[c]] = of[c]
        /\ status[at[c]] # "RESERVED" /\ \A k \in Threads : Living(k) => slot[k] # at[c]
    BY <1>1, NoUser DEF UnlinkOther, Clients
  <2>. QED
    BY <1>1, <2>u, Fields DEF UnlinkOther, Unlink, Client, Leave, Occupied, Living
<1>5. Reserved'
  BY <1>1, Fields, LifeAssumption DEF UnlinkOther, Unlink, Client, Leave, Reserved, Occupied, Born, Living, Claimed, Claims, Completed
<1>6. Claimed'
  <2>. SUFFICES ASSUME NEW d \in Clients, cpc'[d] # "idle" PROVE Claims(d)'
    BY DEF Claimed
  <2>1. cpc[d] # "idle" => Claims(d)
    BY <1>1 DEF Claimed
  <2>2. of'[d] \in 1..created' /\ slot'[of'[d]] = at'[d]
    BY <2>1, <1>1, Fields, LifeAssumption DEF UnlinkOther, Unlink, Client, Leave, Claims, Born
  <2>3. owner'[at'[d]] = of'[d]
    BY <2>1, <1>1, Fields, LifeAssumption DEF UnlinkOther, Unlink, Client, Leave, Claims, Born
  <2>4. cpc'[d] \in {"status", "gcwait", "free", "unlink"} => pc'[of'[d]] = "dead"
    BY <2>1, <1>1, Fields, LifeAssumption DEF UnlinkOther, Unlink, Client, Leave, Claims, Born
  <2>5. cpc'[d] = "unlink" => status'[at'[d]] = "UNUSED" /\ ~thread_data'[at'[d]]
    BY <2>1, <1>1, Fields, LifeAssumption DEF UnlinkOther, Unlink, Client, Leave, Claims, Born, Occupied, Living, Reserved
  <2>. QED
    BY <2>2, <2>3, <2>4, <2>5 DEF Claims
<1>7. ListedIsFree'
  <2>u. /\ of[c] \in Threads /\ at[c] \in Slots /\ owner[at[c]] = of[c]
        /\ status[at[c]] # "RESERVED" /\ \A k \in Threads : Living(k) => slot[k] # at[c]
    BY <1>1, NoUser DEF UnlinkOther, Clients
  <2>v. \A j \in Threads : slot[j] = at[c] => pc[j] # "none"
    BY <1>1, <2>u, Fields, BornThread
  <2>w. status[at[c]] = "UNUSED" /\ ~thread_data[at[c]]
    BY <1>1 DEF Claimed, Claims, UnlinkOther
  <2>. QED
    BY <1>1, <2>u, <2>v, <2>w, Fields DEF UnlinkOther, Unlink, Client, Leave, ListedIsFree, Living, Invalid
<1>. QED
  BY <1>2, <1>3, <1>4, <1>5, <1>6, <1>7

\* thread_detach/1 has nothing to free.
LEMMA CoreDetach ==
  ASSUME Core, halt.pc = "no" => Before, Apart, OneJoiner, NEW c \in Detachers, Detach(c)
  PROVE  Born' /\ Recycled' /\ Occupied' /\ Reserved' /\ Claimed' /\ ListedIsFree'
<1>. USE DEF slots, threads, posix, ld, clients
<1>1. Typed /\ Born /\ Recycled /\ Occupied /\ Reserved /\ Claimed /\ ListedIsFree
  BY DEF Core
<1>2. Born'
  BY <1>1, Fields, LifeAssumption DEF Detach, Client, PthreadDetach, Born
<1>3. Recycled'
  BY <1>1, Fields, LifeAssumption DEF Detach, Client, PthreadDetach, Recycled, Born
<1>4. Occupied'
  BY <1>1, Fields, LifeAssumption DEF Detach, Client, PthreadDetach, Occupied, Living, Born, Claimed, Claims, Reserved
<1>5. Reserved'
  BY <1>1, Fields, LifeAssumption DEF Detach, Client, PthreadDetach, Reserved, Occupied, Born, Living, Claimed, Claims, Completed
<1>6. Claimed'
  <2>1. Before
    BY DEF Detach
  <2>2. PICK k \in Threads : PthreadDetach(k) /\ UNCHANGED clients
    BY <2>1, DetachFinds
  <2>3. UNCHANGED <<created, slot, owner, pc, status, thread_data, pthread, cpc, of, at>>
    BY <2>2 DEF Detach
  <2>4. \A j \in Threads : joinid'[j] = joinid[j] \/ (joinid[j] = Nil /\ joinid'[j] = Detached)
    BY <1>1, <2>2, DetachEffect
  <2>. SUFFICES ASSUME NEW d \in Clients, cpc[d] # "idle" PROVE Claims(d)'
    BY <2>3 DEF Claimed
  <2>5. Claims(d) /\ of[d] \in Threads
    BY <1>1, ClaimedThread DEF Claimed
  <2>. QED
    BY <2>3, <2>4, <2>5, LifeAssumption DEF Claims
<1>7. ListedIsFree'
  BY <1>1, Fields, LifeAssumption DEF Detach, Client, PthreadDetach, ListedIsFree, Occupied, Living, Born, Reserved, Claimed, Claims
<1>. QED
  BY <1>2, <1>3, <1>4, <1>5, <1>6, <1>7

\* Atom garbage collection touches the handle alone.
LEMMA CoreCollectHandle ==
  ASSUME Core, halt.pc = "no" => Before, NEW k \in Threads, CollectHandle(k)
  PROVE  Born' /\ Recycled' /\ Occupied' /\ Reserved' /\ Claimed' /\ ListedIsFree'
<1>. USE DEF slots, threads, posix, ld, clients
<1>1. Typed /\ Born /\ Recycled /\ Occupied /\ Reserved /\ Claimed /\ ListedIsFree
  BY DEF Core
<1>2. Born'
  BY <1>1, Fields, LifeAssumption DEF CollectHandle, Born
<1>3. Recycled'
  BY <1>1, Fields, LifeAssumption DEF CollectHandle, Recycled, Born
<1>4. Occupied'
  BY <1>1, Fields, LifeAssumption DEF CollectHandle, Occupied, Living, Born, Claimed, Claims, Reserved
<1>5. Reserved'
  BY <1>1, Fields, LifeAssumption DEF CollectHandle, Reserved, Occupied, Born, Living, Claimed, Claims, Completed
<1>6. Claimed'
  BY <1>1, Fields, LifeAssumption DEF CollectHandle, Claimed, Claims, Born, Occupied, Living, Reserved
<1>7. ListedIsFree'
  BY <1>1, Fields, LifeAssumption DEF CollectHandle, ListedIsFree, Occupied, Living, Born, Reserved, Claimed, Claims
<1>. QED
  BY <1>2, <1>3, <1>4, <1>5, <1>6, <1>7

\* discard_thread() detaches the thread or sets out to join it.
LEMMA CoreDiscard ==
  ASSUME Core, halt.pc = "no" => Before, NEW k \in Threads, Discard(k)
  PROVE  Born' /\ Recycled' /\ Occupied' /\ Reserved' /\ Claimed' /\ ListedIsFree'
<1>. USE DEF slots, threads, posix, ld, clients
<1>1. Typed /\ Born /\ Recycled /\ Occupied /\ Reserved /\ Claimed /\ ListedIsFree
  BY DEF Core
<1>2. Born'
  BY <1>1, Fields, LifeAssumption DEF Discard, PthreadDetach, Client, Born
<1>3. Recycled'
  BY <1>1, Fields, LifeAssumption DEF Discard, PthreadDetach, Client, Recycled, Born
<1>4. Occupied'
  BY <1>1, Fields, LifeAssumption DEF Discard, PthreadDetach, Client, Occupied, Living, Born, Claimed, Claims, Reserved
<1>5. Reserved'
  BY <1>1, Fields, LifeAssumption DEF Discard, PthreadDetach, Client, Reserved, Occupied, Born, Living, Claimed, Claims, Completed
<1>6. Claimed'
  <2>1. UNCHANGED <<created, slot, owner, pc, status, thread_data, pthread>>
    BY DEF Discard
  <2>2. ASSUME NEW d \in Clients, cpc[d] # "idle", UNCHANGED clients PROVE Claims(d)'
    <3>1. Claims(d) /\ of[d] \in Threads
      BY <1>1, <2>2, ClaimedThread DEF Claimed
    <3>. QED
      BY <2>1, <2>2, <3>1 DEF Claims
  <2>3. CASE DetachesGarbage(info[k])
    <3>1. UNCHANGED clients
      BY <2>3 DEF Discard
    <3>. QED
      BY <2>2, <3>1 DEF Claimed
  <2>4. CASE ~DetachesGarbage(info[k])
    <3>1. /\ cpc' = [cpc EXCEPT ![TheGC] = "gctest"] /\ of' = [of EXCEPT ![TheGC] = k]
          /\ at' = [at EXCEPT ![TheGC] = info[k]]
      BY <2>4 DEF Discard, Client
    <3>2. GarbageHandle(k) /\ handle[k] = "garbage"
      BY DEF Discard, Before
    <3>3. info[k] = slot[k] /\ owner[slot[k]] = k
      BY <3>2 DEF GarbageHandle, Forgotten
    <3>4. k \in 1..created
      <4>1. k \in Nat /\ created \in Nat /\ k >= 1
        BY <1>1, Fields DEF Threads
      <4>2. ~(k > created)
        BY <1>1, <3>2 DEF Born
      <4>. QED
        BY <4>1, <4>2
    <3>5. Claims(TheGC)'
      BY <1>1, <2>1, <3>1, <3>3, <3>4, Fields DEF Claims, Clients
    <3>6. ASSUME NEW d \in Clients, d # TheGC, cpc[d] # "idle" PROVE Claims(d)'
      <4>1. Claims(d)
        BY <1>1, <3>6 DEF Claimed
      <4>2. cpc'[d] = cpc[d] /\ of'[d] = of[d] /\ at'[d] = at[d]
        BY <1>1, <3>1, <3>6, Fields
      <4>. QED
        BY <2>1, <3>1, <4>1, <4>2 DEF Claims
    <3>7. ASSUME NEW d \in Clients, d # TheGC, cpc'[d] # "idle" PROVE cpc[d] # "idle"
      BY <1>1, <3>1, <3>7, Fields
    <3>. QED
      BY <3>5, <3>6, <3>7 DEF Claimed
  <2>. QED
    BY <2>3, <2>4
<1>7. ListedIsFree'
  BY <1>1, Fields, LifeAssumption DEF Discard, PthreadDetach, Client, ListedIsFree, Occupied, Living, Born, Reserved, Claimed, Claims
<1>. QED
  BY <1>2, <1>3, <1>4, <1>5, <1>6, <1>7

\* While thread gc deals with a thread, the threads are not told to exit, and
\* the thread is the one that its slot shows.
LEMMA CollectorAlone ==
  ASSUME Core, halt.pc = "no" => Before, cpc[TheGC] # "idle"
  PROVE  /\ Before /\ CollectorSound /\ Claims(TheGC)
         /\ of[TheGC] \in Threads /\ of[TheGC] <= created /\ at[TheGC] \in Slots
         /\ at[TheGC] = slot[of[TheGC]] /\ owner[at[TheGC]] = of[TheGC]
<1>1. Before
  BY DEF Core, Undisturbed
<1>2. Claims(TheGC)
  BY Names DEF Core, Claimed
<1>. QED
  BY <1>1, <1>2, Names, ClaimedThread DEF Core, Before, Claims

\* Thread gc finds that the thread is not detached ...
LEMMA CollectorTests ==
  ASSUME Core, halt.pc = "no" => Before, DiscardTest
  PROVE  cpc' = [cpc EXCEPT ![TheGC] = "gcjoin"]
BY CollectorAlone DEF DiscardTest, CollectorSound, Forgotten, Client

\* ... and so that it can be joined; then ...
LEMMA CollectorJoins ==
  ASSUME Core, halt.pc = "no" => Before, DiscardJoin
  PROVE  /\ cpc' = [cpc EXCEPT ![TheGC] = "gcjoining"]
         /\ joinid' = [joinid EXCEPT ![of[TheGC]] = TheGC]
<1>1. cpc[TheGC] = "gcjoin"
  BY DEF DiscardJoin
<1>2. /\ CollectorSound /\ owner[at[TheGC]] = of[TheGC]
      /\ joinid[of[TheGC]] = Nil /\ os[of[TheGC]] # "gone"
  BY <1>1, CollectorAlone DEF CollectorSound
<1>3. Target(TheGC) = of[TheGC]
  BY <1>1, <1>2, Names, TargetMeant DEF Core
<1>4. Latest(pthread[owner[at[TheGC]]]) = of[TheGC]
  BY <1>2, <1>3 DEF Target
<1>. QED
  BY <1>2, <1>4 DEF DiscardJoin, Client

\* ... it is this thread that thread gc has joined.
LEMMA CollectorJoined ==
  ASSUME Core, halt.pc = "no" => Before, DiscardJoined
  PROVE  /\ cpc' = [cpc EXCEPT ![TheGC] = "gcwait"]
         /\ os' = [os EXCEPT ![of[TheGC]] = "gone"]
         /\ os[of[TheGC]] = "ended" /\ pc[of[TheGC]] = "dead"
<1>1. PICK k \in Threads : joinid[k] = TheGC /\ os[k] = "ended" /\ os' = [os EXCEPT ![k] = "gone"]
  BY DEF DiscardJoined
<1>2. k = of[TheGC]
  BY <1>1 DEF Core, Awaited
<1>3. k <= created /\ pc[k] # "none" /\ slot[k] \in Slots
  BY <1>2, CollectorAlone, ClaimedThread, Names DEF DiscardJoined, Core
<1>4. pc[k] = "dead"
  BY <1>1, <1>3, BornThread DEF Core
<1>. QED
  BY <1>1, <1>2, <1>4 DEF DiscardJoined, Client

\* Thread gc tests whether the thread is detached.
LEMMA CoreDiscardTest ==
  ASSUME Core, halt.pc = "no" => Before, DiscardTest
  PROVE  Born' /\ Recycled' /\ Occupied' /\ Reserved' /\ Claimed' /\ ListedIsFree'
<1>. USE DEF slots, threads, posix, ld, clients
<1>1. Typed /\ Born /\ Recycled /\ Occupied /\ Reserved /\ Claimed /\ ListedIsFree
  BY DEF Core
<1>0. cpc' = [cpc EXCEPT ![TheGC] = "gcjoin"]
  BY CollectorTests
<1>2. Born'
  BY <1>1, <1>0, Fields, Names DEF DiscardTest, Born
<1>3. Recycled'
  BY <1>1, <1>0, Fields DEF DiscardTest, Recycled
<1>4. Occupied'
  BY <1>1 DEF DiscardTest, Occupied, Living
<1>5. Reserved'
  BY <1>1 DEF DiscardTest, Reserved
<1>6. Claimed'
  BY <1>1, <1>0, Fields, Names DEF DiscardTest, Claimed, Claims
<1>7. ListedIsFree'
  BY <1>1 DEF DiscardTest, ListedIsFree
<1>. QED
  BY <1>2, <1>3, <1>4, <1>5, <1>6, <1>7

\* Thread gc calls pthread_join().
LEMMA CoreDiscardJoin ==
  ASSUME Core, halt.pc = "no" => Before, DiscardJoin
  PROVE  Born' /\ Recycled' /\ Occupied' /\ Reserved' /\ Claimed' /\ ListedIsFree'
<1>. USE DEF slots, threads, posix, ld, clients
<1>1. Typed /\ Born /\ Recycled /\ Occupied /\ Reserved /\ Claimed /\ ListedIsFree
  BY DEF Core
<1>0. /\ cpc' = [cpc EXCEPT ![TheGC] = "gcjoining"]
      /\ joinid' = [joinid EXCEPT ![of[TheGC]] = TheGC]
  BY CollectorJoins
<1>2. Born'
  BY <1>1, <1>0, Fields, Names DEF DiscardJoin, Born
<1>3. Recycled'
  BY <1>1, <1>0, Fields DEF DiscardJoin, Recycled
<1>4. Occupied'
  BY <1>1 DEF DiscardJoin, Occupied, Living
<1>5. Reserved'
  BY <1>1 DEF DiscardJoin, Reserved
<1>6. Claimed'
  BY <1>1, <1>0, Fields, Names DEF DiscardJoin, Claimed, Claims
<1>7. ListedIsFree'
  BY <1>1 DEF DiscardJoin, ListedIsFree
<1>. QED
  BY <1>2, <1>3, <1>4, <1>5, <1>6, <1>7

\* pthread_join() by thread gc ends: the thread is dead.
LEMMA CoreDiscardJoined ==
  ASSUME Core, halt.pc = "no" => Before, DiscardJoined
  PROVE  Born' /\ Recycled' /\ Occupied' /\ Reserved' /\ Claimed' /\ ListedIsFree'
<1>. USE DEF slots, threads, posix, ld, clients
<1>1. Typed /\ Born /\ Recycled /\ Occupied /\ Reserved /\ Claimed /\ ListedIsFree
  BY DEF Core
<1>0. /\ cpc' = [cpc EXCEPT ![TheGC] = "gcwait"]
      /\ os' = [os EXCEPT ![of[TheGC]] = "gone"]
      /\ os[of[TheGC]] = "ended" /\ pc[of[TheGC]] = "dead"
  BY CollectorJoined
<1>2. Born'
  BY <1>1, <1>0, Fields, Names DEF DiscardJoined, Born
<1>3. Recycled'
  BY <1>1, <1>0, Fields DEF DiscardJoined, Recycled
<1>4. Occupied'
  BY <1>1 DEF DiscardJoined, Occupied, Living
<1>5. Reserved'
  BY <1>1 DEF DiscardJoined, Reserved
<1>6. Claimed'
  BY <1>1, <1>0, Fields, Names DEF DiscardJoined, Claimed, Claims
<1>7. ListedIsFree'
  BY <1>1 DEF DiscardJoined, ListedIsFree
<1>. QED
  BY <1>2, <1>3, <1>4, <1>5, <1>6, <1>7

\* Thread gc has seen the local data go.
LEMMA CoreDiscardWait ==
  ASSUME Core, halt.pc = "no" => Before, DiscardWait
  PROVE  Born' /\ Recycled' /\ Occupied' /\ Reserved' /\ Claimed' /\ ListedIsFree'
<1>. USE DEF slots, threads, posix, ld, clients
<1>1. Typed /\ Born /\ Recycled /\ Occupied /\ Reserved /\ Claimed /\ ListedIsFree
  BY DEF Core
<1>2. Born'
  BY <1>1, Fields, LifeAssumption DEF DiscardWait, Client, Born
<1>3. Recycled'
  BY <1>1, Fields, LifeAssumption DEF DiscardWait, Client, Recycled, Born
<1>4. Occupied'
  BY <1>1, Fields, LifeAssumption DEF DiscardWait, Client, Occupied, Living, Born, Claimed, Claims, Reserved
<1>5. Reserved'
  BY <1>1, Fields, LifeAssumption DEF DiscardWait, Client, Reserved, Occupied, Born, Living, Claimed, Claims, Completed
<1>6. Claimed'
  BY <1>1, Fields, LifeAssumption DEF DiscardWait, Client, Claimed, Claims, Born, Occupied, Living, Reserved
<1>7. ListedIsFree'
  BY <1>1, Fields, LifeAssumption DEF DiscardWait, Client, ListedIsFree, Occupied, Living, Born, Reserved, Claimed, Claims
<1>. QED
  BY <1>2, <1>3, <1>4, <1>5, <1>6, <1>7

\* Halting begins.
LEMMA CoreHaltBegin ==
  ASSUME Core, halt.pc = "no" => Before, HaltBegin
  PROVE  Born' /\ Recycled' /\ Occupied' /\ Reserved' /\ Claimed' /\ ListedIsFree'
<1>. USE DEF slots, threads, posix, ld, clients
<1>1. Typed /\ Born /\ Recycled /\ Occupied /\ Reserved /\ Claimed /\ ListedIsFree
  BY DEF Core
<1>2. Born'
  BY <1>1, Fields, LifeAssumption DEF HaltBegin, Born
<1>3. Recycled'
  BY <1>1, Fields, LifeAssumption DEF HaltBegin, Recycled, Born
<1>4. Occupied'
  BY <1>1, Fields, LifeAssumption DEF HaltBegin, Occupied, Living, Born, Claimed, Claims, Reserved
<1>5. Reserved'
  BY <1>1, Fields, LifeAssumption DEF HaltBegin, Reserved, Occupied, Born, Living, Claimed, Claims, Completed
<1>6. Claimed'
  BY <1>1, Fields, LifeAssumption DEF HaltBegin, Claimed, Claims, Born, Occupied, Living, Reserved
<1>7. ListedIsFree'
  BY <1>1, Fields, LifeAssumption DEF HaltBegin, ListedIsFree, Occupied, Living, Born, Reserved, Claimed, Claims
<1>. QED
  BY <1>2, <1>3, <1>4, <1>5, <1>6, <1>7

\* exitPrologThreads() looks at a slot.
LEMMA CoreHaltLook ==
  ASSUME Core, halt.pc = "no" => Before, NEW s \in Slots, HaltLook(s)
  PROVE  Born' /\ Recycled' /\ Occupied' /\ Reserved' /\ Claimed' /\ ListedIsFree'
<1>. USE DEF slots, threads, posix, ld, clients
<1>1. Typed /\ Born /\ Recycled /\ Occupied /\ Reserved /\ Claimed /\ ListedIsFree
  BY DEF Core
<1>2. Born'
  BY <1>1, Fields, LifeAssumption DEF HaltLook, Born
<1>3. Recycled'
  BY <1>1, Fields, LifeAssumption DEF HaltLook, Recycled, Born
<1>4. Occupied'
  BY <1>1, Fields, LifeAssumption DEF HaltLook, Occupied, Living, Born, Claimed, Claims, Reserved
<1>5. Reserved'
  BY <1>1, Fields, LifeAssumption DEF HaltLook, Reserved, Occupied, Born, Living, Claimed, Claims, Completed
<1>6. Claimed'
  BY <1>1, Fields, LifeAssumption DEF HaltLook, Claimed, Claims, Born, Occupied, Living, Reserved
<1>7. ListedIsFree'
  BY <1>1, Fields, LifeAssumption DEF HaltLook, ListedIsFree, Occupied, Living, Born, Reserved, Claimed, Claims
<1>. QED
  BY <1>2, <1>3, <1>4, <1>5, <1>6, <1>7

\* exitPrologThreads() calls pthread_join().
LEMMA CoreHaltJoin ==
  ASSUME Core, halt.pc = "no" => Before, HaltJoin
  PROVE  Born' /\ Recycled' /\ Occupied' /\ Reserved' /\ Claimed' /\ ListedIsFree'
<1>. USE DEF slots, threads, posix, ld, clients
<1>1. Typed /\ Born /\ Recycled /\ Occupied /\ Reserved /\ Claimed /\ ListedIsFree
  BY DEF Core
<1>2. Born'
  BY <1>1, Fields, Names DEF HaltJoin, Born
<1>3. Recycled'
  BY <1>1, Fields, LifeAssumption DEF HaltJoin, Recycled, Born
<1>4. Occupied'
  BY <1>1, Fields, LifeAssumption DEF HaltJoin, Occupied, Living, Born, Claimed, Claims, Reserved
<1>5. Reserved'
  BY <1>1, Fields, LifeAssumption DEF HaltJoin, Reserved, Occupied, Born, Living, Claimed, Claims, Completed
<1>6. Claimed'
  BY <1>1, Fields, LifeAssumption DEF HaltJoin, Claimed, Claims, Born, Occupied, Living, Reserved
<1>7. ListedIsFree'
  BY <1>1, Fields, LifeAssumption DEF HaltJoin, ListedIsFree, Occupied, Living, Born, Reserved, Claimed, Claims
<1>. QED
  BY <1>2, <1>3, <1>4, <1>5, <1>6, <1>7

\* The thread that exitPrologThreads() joins has ended.
LEMMA CoreHaltJoined ==
  ASSUME Core, halt.pc = "no" => Before, HaltJoined
  PROVE  Born' /\ Recycled' /\ Occupied' /\ Reserved' /\ Claimed' /\ ListedIsFree'
<1>. USE DEF slots, threads, posix, ld, clients
<1>1. Typed /\ Born /\ Recycled /\ Occupied /\ Reserved /\ Claimed /\ ListedIsFree
  BY DEF Core
<1>2. Born'
  BY <1>1, Fields, Names DEF HaltJoined, Born
<1>3. Recycled'
  BY <1>1, Fields, LifeAssumption DEF HaltJoined, Recycled, Born
<1>4. Occupied'
  BY <1>1, Fields, LifeAssumption DEF HaltJoined, Occupied, Living, Born, Claimed, Claims, Reserved
<1>5. Reserved'
  BY <1>1, Fields, LifeAssumption DEF HaltJoined, Reserved, Occupied, Born, Living, Claimed, Claims, Completed
<1>6. Claimed'
  BY <1>1, Fields, LifeAssumption DEF HaltJoined, Claimed, Claims, Born, Occupied, Living, Reserved
<1>7. ListedIsFree'
  BY <1>1, Fields, LifeAssumption DEF HaltJoined, ListedIsFree, Occupied, Living, Born, Reserved, Claimed, Claims
<1>. QED
  BY <1>2, <1>3, <1>4, <1>5, <1>6, <1>7

\* exitPrologThreads() asks a thread to exit.
LEMMA CoreHaltRequest ==
  ASSUME Core, halt.pc = "no" => Before, HaltRequest
  PROVE  Born' /\ Recycled' /\ Occupied' /\ Reserved' /\ Claimed' /\ ListedIsFree'
<1>. USE DEF slots, threads, posix, ld, clients
<1>1. Typed /\ Born /\ Recycled /\ Occupied /\ Reserved /\ Claimed /\ ListedIsFree
  BY DEF Core
<1>2. Born'
  BY <1>1, Fields, LifeAssumption DEF HaltRequest, Born
<1>3. Recycled'
  BY <1>1, Fields, LifeAssumption DEF HaltRequest, Recycled, Born
<1>4. Occupied'
  BY <1>1, Fields, LifeAssumption DEF HaltRequest, Occupied, Living, Born, Claimed, Claims, Reserved
<1>5. Reserved'
  BY <1>1, Fields, LifeAssumption DEF HaltRequest, Reserved, Occupied, Born, Living, Claimed, Claims, Completed
<1>6. Claimed'
  BY <1>1, Fields, LifeAssumption DEF HaltRequest, Claimed, Claims, Born, Occupied, Living, Reserved
<1>7. ListedIsFree'
  BY <1>1, Fields, LifeAssumption DEF HaltRequest, ListedIsFree, Occupied, Living, Born, Reserved, Claimed, Claims
<1>. QED
  BY <1>2, <1>3, <1>4, <1>5, <1>6, <1>7

\* exitPrologThreads() sends a signal.
LEMMA CoreHaltRaise ==
  ASSUME Core, halt.pc = "no" => Before, HaltRaise
  PROVE  Born' /\ Recycled' /\ Occupied' /\ Reserved' /\ Claimed' /\ ListedIsFree'
<1>. USE DEF slots, threads, posix, ld, clients
<1>1. Typed /\ Born /\ Recycled /\ Occupied /\ Reserved /\ Claimed /\ ListedIsFree
  BY DEF Core
<1>2. Born'
  BY <1>1, Fields, LifeAssumption DEF HaltRaise, Born
<1>3. Recycled'
  BY <1>1, Fields, LifeAssumption DEF HaltRaise, Recycled, Born
<1>4. Occupied'
  BY <1>1, Fields, LifeAssumption DEF HaltRaise, Occupied, Living, Born, Claimed, Claims, Reserved
<1>5. Reserved'
  BY <1>1, Fields, LifeAssumption DEF HaltRaise, Reserved, Occupied, Born, Living, Claimed, Claims, Completed
<1>6. Claimed'
  BY <1>1, Fields, LifeAssumption DEF HaltRaise, Claimed, Claims, Born, Occupied, Living, Reserved
<1>7. ListedIsFree'
  BY <1>1, Fields, LifeAssumption DEF HaltRaise, ListedIsFree, Occupied, Living, Born, Reserved, Claimed, Claims
<1>. QED
  BY <1>2, <1>3, <1>4, <1>5, <1>6, <1>7

\* exitPrologThreads() waits.
LEMMA CoreHaltWait ==
  ASSUME Core, halt.pc = "no" => Before, HaltWait
  PROVE  Born' /\ Recycled' /\ Occupied' /\ Reserved' /\ Claimed' /\ ListedIsFree'
<1>. USE DEF slots, threads, posix, ld, clients
<1>1. Typed /\ Born /\ Recycled /\ Occupied /\ Reserved /\ Claimed /\ ListedIsFree
  BY DEF Core
<1>2. Born'
  BY <1>1, Fields, LifeAssumption DEF HaltWait, WaitsOn, Tick, Born
<1>3. Recycled'
  BY <1>1, Fields, LifeAssumption DEF HaltWait, WaitsOn, Tick, Recycled, Born
<1>4. Occupied'
  BY <1>1, Fields, LifeAssumption DEF HaltWait, WaitsOn, Tick, Occupied, Living, Born, Claimed, Claims, Reserved
<1>5. Reserved'
  BY <1>1, Fields, LifeAssumption DEF HaltWait, WaitsOn, Tick, Reserved, Occupied, Born, Living, Claimed, Claims, Completed
<1>6. Claimed'
  BY <1>1, Fields, LifeAssumption DEF HaltWait, WaitsOn, Tick, Claimed, Claims, Born, Occupied, Living, Reserved
<1>7. ListedIsFree'
  BY <1>1, Fields, LifeAssumption DEF HaltWait, WaitsOn, Tick, ListedIsFree, Occupied, Living, Born, Reserved, Claimed, Claims
<1>. QED
  BY <1>2, <1>3, <1>4, <1>5, <1>6, <1>7

-----------------------------------------------------------------------------
(* Before is kept until the threads are told to exit.                       *)

\* Nothing changes for thread x, and for its slot if it owns that.
SameThread(x) ==
  /\ handle'[x] = handle[x] /\ info'[x] = info[x] /\ slot'[x] = slot[x]
  /\ os'[x] = os[x] /\ joinid'[x] = joinid[x] /\ pc'[x] = pc[x]
  /\ exit_requested'[x] = exit_requested[x] /\ acknowledge'[x] = acknowledge[x]
  /\ slot[x] \in Slots =>
       /\ owner'[slot[x]] = x <=> owner[slot[x]] = x
       /\ owner[slot[x]] = x => /\ status'[slot[x]] = status[slot[x]]
                                /\ listed'[slot[x]] = listed[slot[x]]
                                /\ detached'[slot[x]] = detached[slot[x]]

\* Nothing changes for client c.
SameClient(c) == cpc'[c] = cpc[c] /\ of'[c] = of[c] /\ at'[c] = at[c]

\* A thread whose handle shows a slot has been created.
LEMMA HandleHas ==
  ASSUME Core, Before, NEW x \in Threads, handle[x] # "none", info[x] # Nil \/ handle[x] = "garbage"
  PROVE  /\ x <= created /\ pc[x] # "none" /\ slot[x] \in Slots /\ info[x] = slot[x]
         /\ handle[x] = "live" => owner[slot[x]] = x /\ ~listed[slot[x]]
<1>1. Typed /\ Born /\ LiveHandle(x) /\ GarbageHandle(x)
  BY DEF Core, Before
<1>2. x <= created \/ x > created
  BY <1>1, Fields DEF Threads
<1>3. x <= created /\ pc[x] # "none" /\ slot[x] \in Slots
  BY <1>1, <1>2 DEF Born
<1>4. handle[x] \in {"live", "garbage", "none"} /\ info[x] \in {slot[x], Nil}
  BY <1>1, <1>3, Fields DEF Born
<1>. QED
  BY <1>1, <1>3, <1>4 DEF LiveHandle, GarbageHandle

\* A thread for which nothing changes has not been asked to exit ...
LEMMA UnaskedKept ==
  ASSUME Core, Before, NEW x \in Threads, SameThread(x)
  PROVE  Unasked(x)'
<1>1. Unasked(x) /\ Occupied
  BY DEF Core, Before
<1>2. pc[x] \in {"free", "unlink"} => owner[slot[x]] = x /\ slot[x] \in Slots
  BY <1>1, BornThread DEF Core, Occupied, Living
<1>. QED
  BY <1>1, <1>2 DEF Unasked, SameThread

\* ... its handle, when it is live and nothing changes for its joiner either, is
\* as sound as before ...
LEMMA LiveKept ==
  ASSUME Core, Before, NEW x \in Threads, SameThread(x),
         \A c \in Joiners : of[c] = x /\ cpc[c] # "idle" => SameClient(c)
  PROVE  LiveHandle(x)'
<1>. SUFFICES ASSUME handle'[x] = "live", info'[x] # Nil PROVE LiveHandle(x)'
  BY DEF LiveHandle
<1>1. handle[x] = "live" /\ info[x] # Nil /\ LiveHandle(x)
  BY DEF SameThread, Before
<1>2. slot[x] \in Slots /\ info[x] = slot[x] /\ owner[slot[x]] = x /\ ~listed[slot[x]]
  BY <1>1, HandleHas
<1>. QED
  BY <1>1, <1>2 DEF LiveHandle, SameThread, SameClient, Joined

\* ... and so is its handle when it is garbage.
LEMMA GarbageKept ==
  ASSUME Core, Before, UNCHANGED doing, NEW x \in Threads, SameThread(x)
  PROVE  GarbageHandle(x)'
<1>. SUFFICES ASSUME handle'[x] = "garbage" PROVE GarbageHandle(x)'
  BY DEF GarbageHandle
<1>1. handle[x] = "garbage" /\ GarbageHandle(x) /\ slot[x] \in Slots
  BY HandleHas DEF SameThread, Before
<1>. QED
  BY <1>1 DEF GarbageHandle, SameThread, Forgotten

\* A joiner for whom and for whose thread nothing changes is as sound as before ...
LEMMA JoinerKept ==
  ASSUME Core, Before, UNCHANGED doing, NEW c \in Joiners, SameClient(c),
         cpc[c] # "idle" => SameThread(of[c])
  PROVE  JoinerSound(c)'
<1>. SUFFICES ASSUME cpc'[c] # "idle" PROVE JoinerSound(c)'
  BY DEF JoinerSound
<1>1. cpc[c] # "idle" /\ SameThread(of[c]) /\ JoinerSound(c) /\ Claims(c)
  BY DEF SameClient, Before, Core, Claimed, Clients
<1>2. at[c] = slot[of[c]] /\ owner[at[c]] = of[c]
  BY <1>1 DEF Claims, JoinerSound
<1>3. slot[of[c]] \in Slots
  BY <1>1, ClaimedThread DEF Core, Clients
<1>. QED
  BY <1>1, <1>2, <1>3 DEF JoinerSound, SameClient, SameThread

\* ... and so is thread gc.
LEMMA CollectorKept ==
  ASSUME Core, Before, UNCHANGED doing, SameClient(TheGC),
         cpc[TheGC] # "idle" => SameThread(of[TheGC])
  PROVE  CollectorSound'
<1>. SUFFICES ASSUME cpc'[TheGC] # "idle" PROVE CollectorSound'
  BY DEF CollectorSound
<1>1. cpc[TheGC] # "idle" /\ SameThread(of[TheGC]) /\ CollectorSound /\ Claims(TheGC)
  BY DEF SameClient, Before, Core, Claimed, Clients
<1>2. at[TheGC] = slot[of[TheGC]]
  BY <1>1 DEF Claims
<1>3. slot[of[TheGC]] \in Slots
  BY <1>1, ClaimedThread DEF Core, Clients
<1>. QED
  BY <1>1, <1>2, <1>3 DEF CollectorSound, SameClient, SameThread, Forgotten

\* It is enough to look at the threads and the clients that a step is about.
LEMMA BeforeKept ==
  ASSUME Core, Before, UNCHANGED doing, NEW J, NEW D,
         \A x \in Threads \ J : SameThread(x),
         \A c \in Clients \ D : SameClient(c),
         \A c \in Joiners \cap D : cpc[c] = "idle" \/ of[c] \in J,
         \A x \in Threads \cap J : Unasked(x)' /\ LiveHandle(x)' /\ GarbageHandle(x)',
         \A c \in Joiners : c \in D \/ (cpc[c] # "idle" /\ of[c] \in J) => JoinerSound(c)',
         TheGC \in D \/ (cpc[TheGC] # "idle" /\ of[TheGC] \in J) => CollectorSound',
         \A c \in Detachers \cap D : cpc'[c] = "idle"
  PROVE  Before'
<1>1. \A c \in Clients : cpc[c] # "idle" => of[c] \in Threads
  BY ClaimedThread DEF Core, Claimed
<1>2. ASSUME NEW x \in Threads PROVE Unasked(x)' /\ LiveHandle(x)' /\ GarbageHandle(x)'
  <2>1. CASE x \in J
    BY <2>1
  <2>2. CASE x \notin J
    <3>1. \A c \in Joiners : of[c] = x /\ cpc[c] # "idle" => SameClient(c)
      BY <2>2 DEF Clients
    <3>. QED
      BY <2>2, <3>1, UnaskedKept, LiveKept, GarbageKept
  <2>. QED
    BY <2>1, <2>2
<1>3. ASSUME NEW c \in Joiners PROVE JoinerSound(c)'
  BY <1>1, JoinerKept DEF Clients
<1>4. CollectorSound'
  BY <1>1, CollectorKept DEF Clients
<1>5. \A c \in Detachers : cpc'[c] = "idle"
  BY DEF Before, Clients, SameClient
<1>. QED
  BY <1>2, <1>3, <1>4, <1>5 DEF Before
\* The same for a step of one thread.
LEMMA ThreadKept ==
  ASSUME Core, Before, UNCHANGED doing, NEW k \in Threads, UNCHANGED clients,
         \A x \in Threads : x # k => SameThread(x),
         Unasked(k)' /\ LiveHandle(k)' /\ GarbageHandle(k)',
         \A c \in Joiners : cpc[c] # "idle" /\ of[c] = k => JoinerSound(c)',
         cpc[TheGC] # "idle" /\ of[TheGC] = k => CollectorSound'
  PROVE  Before'
<1>1. \A x \in Threads \ {k} : SameThread(x)
  OBVIOUS
<1>2. \A c \in Clients \ {} : SameClient(c)
  BY DEF SameClient, clients
<1>3. \A x \in Threads \cap {k} : Unasked(x)' /\ LiveHandle(x)' /\ GarbageHandle(x)'
  OBVIOUS
<1>4. \A c \in Joiners : c \in {} \/ (cpc[c] # "idle" /\ of[c] \in {k}) => JoinerSound(c)'
  OBVIOUS
<1>5. TheGC \in {} \/ (cpc[TheGC] # "idle" /\ of[TheGC] \in {k}) => CollectorSound'
  OBVIOUS
<1>6. (\A c \in Joiners \cap {} : cpc[c] = "idle" \/ of[c] \in {k})
      /\ (\A c \in Detachers \cap {} : cpc'[c] = "idle")
  OBVIOUS
<1>. QED
  BY <1>1, <1>2, <1>3, <1>4, <1>5, <1>6, BeforeKept

\* set_system_thread_id() changes nothing that others look at.
LEMMA BeforeSetTid ==
  ASSUME Core, Before, Apart, OneJoiner, halt.pc = "no", UNCHANGED doing, NEW k \in Threads, SetTid(k)
  PROVE  Before'
<1>. USE DEF slots, threads, posix, ld, clients
<1>1. Typed /\ Born /\ Occupied /\ Reserved /\ Claimed /\ ListedIsFree
  BY DEF Core
<1>2. Unasked(k) /\ LiveHandle(k) /\ GarbageHandle(k)
  BY DEF Before
<1>3. pc[k] # "none"
  BY DEF SetTid
<1>4. /\ slot[k] \in Slots /\ info[k] \in {slot[k], Nil}
      /\ os[k] = "running" <=> pc[k] # "dead"
  BY <1>1, <1>3, BornThread
<1>5. owner[slot[k]] = k /\ ~listed[slot[k]] /\ Living(k)
  BY <1>1 DEF Occupied, Living, SetTid
<1>s. ASSUME NEW x \in Threads, x # k PROVE SameThread(x)
  BY <1>s, <1>1, <1>2, <1>4, <1>5, Fields, LifeAssumption DEF SameThread, SetTid, Goto
<1>c. UNCHANGED clients
  BY DEF SetTid, Goto
<1>u. Unasked(k)'
  BY <1>1, <1>2, <1>4, <1>5, Fields, LifeAssumption DEF Unasked, Occupied, SetTid, Goto
<1>l. LiveHandle(k)'
  BY <1>1, <1>2, <1>4, <1>5, <1>c, Fields, LifeAssumption DEF LiveHandle, Occupied, Joined, SetTid, Goto
<1>g. GarbageHandle(k)'
  BY <1>1, <1>2, <1>4, <1>5, Fields, LifeAssumption DEF GarbageHandle, Forgotten, Unasked, Occupied, Invalid, Completed, SetTid, Goto
<1>j. ASSUME NEW c \in Joiners, cpc[c] # "idle", of[c] = k PROVE JoinerSound(c)'
  <2>1. JoinerSound(c) /\ Claims(c)
    BY <1>1, <1>j DEF Before, Claimed, Clients
  <2>. QED
    BY <1>1, <1>2, <1>4, <1>5, <1>c, <1>j, <2>1, Fields, LifeAssumption DEF JoinerSound, Claims, Unasked, Living, Invalid, Occupied, SetTid, Goto
<1>t. ASSUME cpc[TheGC] # "idle", of[TheGC] = k PROVE CollectorSound'
  <2>1. CollectorSound /\ Claims(TheGC)
    BY <1>1, <1>t DEF Before, Claimed, Clients
  <2>. QED
    BY <1>1, <1>2, <1>4, <1>5, <1>c, <1>t, <2>1, Fields, LifeAssumption DEF CollectorSound, Claims, Forgotten, Unasked, Living, Invalid, Completed, Occupied, SetTid, Goto
<1>. QED
  BY <1>s, <1>c, <1>u, <1>l, <1>g, <1>j, <1>t, ThreadKept

\* A thread without memory ends with the status that joiners find.
LEMMA BeforeNoMem ==
  ASSUME Core, Before, Apart, OneJoiner, halt.pc = "no", UNCHANGED doing, NEW k \in Threads, NoMem(k)
  PROVE  Before'
<1>. USE DEF slots, threads, posix, ld, clients
<1>1. Typed /\ Born /\ Occupied /\ Reserved /\ Claimed /\ ListedIsFree
  BY DEF Core
<1>2. Unasked(k) /\ LiveHandle(k) /\ GarbageHandle(k)
  BY DEF Before
<1>3. pc[k] # "none"
  BY DEF NoMem
<1>4. /\ slot[k] \in Slots /\ info[k] \in {slot[k], Nil}
      /\ os[k] = "running" <=> pc[k] # "dead"
  BY <1>1, <1>3, BornThread
<1>5. owner[slot[k]] = k /\ ~listed[slot[k]] /\ Living(k)
  BY <1>1 DEF Occupied, Living, NoMem
<1>s. ASSUME NEW x \in Threads, x # k PROVE SameThread(x)
  BY <1>s, <1>1, <1>2, <1>4, <1>5, Fields, LifeAssumption DEF SameThread, NoMem, Ends, Goto
<1>c. UNCHANGED clients
  BY DEF NoMem, Ends, Goto
<1>u. Unasked(k)'
  BY <1>1, <1>2, <1>4, <1>5, Fields, LifeAssumption DEF Unasked, Occupied, NoMem, Ends, Goto
<1>l. LiveHandle(k)'
  <2>. SUFFICES ASSUME handle'[k] = "live", info'[k] # Nil PROVE LiveHandle(k)'
    BY DEF LiveHandle
  <2>1. /\ handle[k] = "live" /\ info[k] = slot[k] /\ info'[k] = slot[k]
        /\ owner[slot[k]] = k /\ ~listed[slot[k]]
    BY HandleHas DEF NoMem, Ends, Goto
  <2>2. owner'[slot[k]] = k /\ ~listed'[slot[k]]
    BY <1>1, <1>2, <1>4, <1>5, <2>1, <1>c, Fields, LifeAssumption DEF NoMem, Ends, Goto
  <2>3. status'[slot[k]] = "UNUSED" => status[slot[k]] = "UNUSED" /\ pc[k] # "unlink"
    BY <1>1, <1>2, <1>4, <1>5, <2>1, <1>c, Fields, LifeAssumption DEF Occupied, Completed, Living, NoMem, Ends, Goto
  <2>4. status'[slot[k]] = "JOINED" => status[slot[k]] = "JOINED"
    BY <1>1, <1>2, <1>4, <1>5, <2>1, <1>c, Fields, LifeAssumption DEF Occupied, Completed, Living, NoMem, Ends, Goto
  <2>5. os'[k] = "gone" => os[k] = "gone" \/ detached[slot[k]]
    BY <1>1, <1>2, <1>4, <1>5, <2>1, <1>c, Fields, LifeAssumption DEF Unasked, NoMem, Ends, Goto
  <2>6. joinid' = joinid /\ detached' = detached
    BY DEF NoMem, Ends, Goto
  <2>. QED
    BY <1>2, <1>c, <2>1, <2>2, <2>3, <2>4, <2>5, <2>6 DEF LiveHandle, Joined
<1>g. GarbageHandle(k)'
  BY <1>1, <1>2, <1>4, <1>5, Fields, LifeAssumption DEF GarbageHandle, Forgotten, Unasked, Occupied, Invalid, Completed, NoMem, Ends, Goto
<1>j. ASSUME NEW c \in Joiners, cpc[c] # "idle", of[c] = k PROVE JoinerSound(c)'
  <2>1. JoinerSound(c) /\ Claims(c)
    BY <1>1, <1>j DEF Before, Claimed, Clients
  <2>. QED
    BY <1>1, <1>2, <1>4, <1>5, <1>c, <1>j, <2>1, Fields, LifeAssumption DEF JoinerSound, Claims, Unasked, Living, Invalid, Occupied, NoMem, Ends, Goto
<1>t. ASSUME cpc[TheGC] # "idle", of[TheGC] = k PROVE CollectorSound'
  <2>1. CollectorSound /\ Claims(TheGC)
    BY <1>1, <1>t DEF Before, Claimed, Clients
  <2>. QED
    BY <1>1, <1>2, <1>4, <1>5, <1>c, <1>t, <2>1, Fields, LifeAssumption DEF CollectorSound, Claims, Forgotten, Unasked, Living, Invalid, Completed, Occupied, NoMem, Ends, Goto
<1>. QED
  BY <1>s, <1>c, <1>u, <1>l, <1>g, <1>j, <1>t, ThreadKept

\* A thread that begins has not been dealt with.
LEMMA BeforeBegin ==
  ASSUME Core, Before, Apart, OneJoiner, halt.pc = "no", UNCHANGED doing, NEW k \in Threads, Begin(k)
  PROVE  Before'
<1>. USE DEF slots, threads, posix, ld, clients
<1>1. Typed /\ Born /\ Occupied /\ Reserved /\ Claimed /\ ListedIsFree
  BY DEF Core
<1>2. Unasked(k) /\ LiveHandle(k) /\ GarbageHandle(k)
  BY DEF Before
<1>3. pc[k] # "none"
  BY DEF Begin
<1>4. /\ slot[k] \in Slots /\ info[k] \in {slot[k], Nil}
      /\ os[k] = "running" <=> pc[k] # "dead"
  BY <1>1, <1>3, BornThread
<1>5. owner[slot[k]] = k /\ ~listed[slot[k]] /\ Living(k)
  BY <1>1 DEF Occupied, Living, Begin
<1>s. ASSUME NEW x \in Threads, x # k PROVE SameThread(x)
  BY <1>s, <1>1, <1>2, <1>4, <1>5, Fields, LifeAssumption DEF SameThread, Begin, Goto
<1>c. UNCHANGED clients
  BY DEF Begin, Goto
<1>u. Unasked(k)'
  BY <1>1, <1>2, <1>4, <1>5, Fields, LifeAssumption DEF Unasked, Occupied, Begin, Goto
<1>l. LiveHandle(k)'
  BY <1>1, <1>2, <1>4, <1>5, <1>c, Fields, LifeAssumption DEF LiveHandle, Occupied, Joined, Begin, Goto
<1>g. GarbageHandle(k)'
  BY <1>1, <1>2, <1>4, <1>5, Fields, LifeAssumption DEF GarbageHandle, Forgotten, Unasked, Occupied, Invalid, Completed, Begin, Goto
<1>j. ASSUME NEW c \in Joiners, cpc[c] # "idle", of[c] = k PROVE JoinerSound(c)'
  <2>1. JoinerSound(c) /\ Claims(c)
    BY <1>1, <1>j DEF Before, Claimed, Clients
  <2>. QED
    BY <1>1, <1>2, <1>4, <1>5, <1>c, <1>j, <2>1, Fields, LifeAssumption DEF JoinerSound, Claims, Unasked, Living, Invalid, Occupied, Begin, Goto
<1>t. ASSUME cpc[TheGC] # "idle", of[TheGC] = k PROVE CollectorSound'
  <2>1. CollectorSound /\ Claims(TheGC)
    BY <1>1, <1>t DEF Before, Claimed, Clients
  <2>. QED
    BY <1>1, <1>2, <1>4, <1>5, <1>c, <1>t, <2>1, Fields, LifeAssumption DEF CollectorSound, Claims, Forgotten, Unasked, Living, Invalid, Completed, Occupied, Begin, Goto
<1>. QED
  BY <1>s, <1>c, <1>u, <1>l, <1>g, <1>j, <1>t, ThreadKept

\* thread_detach/1 of the thread itself: nobody joins it.
LEMMA BeforeDetachSelf ==
  ASSUME Core, Before, Apart, DiscardAlone, halt.pc = "no", UNCHANGED doing, NEW k \in Threads, DetachSelf(k)
  PROVE  Before'
<1>. USE DEF slots, threads, posix, ld, clients
<1>1. Typed /\ Born /\ Occupied /\ Reserved /\ Claimed /\ ListedIsFree
  BY DEF Core
<1>2. Unasked(k) /\ LiveHandle(k) /\ GarbageHandle(k)
  BY DEF Before
<1>3. pc[k] # "none"
  BY DEF DetachSelf
<1>4. /\ slot[k] \in Slots /\ info[k] \in {slot[k], Nil}
      /\ os[k] = "running" <=> pc[k] # "dead"
  BY <1>1, <1>3, BornThread
<1>5. owner[slot[k]] = k /\ ~listed[slot[k]] /\ Living(k)
  BY <1>1 DEF Occupied, Living, DetachSelf
<1>p1. "join" \notin doing /\ "discard" \notin doing
  BY <1>1 DEF Apart, DiscardAlone, DetachSelf, Typed
<1>p2. os[k] = "running"
  BY <1>4 DEF DetachSelf
<1>p3. os' = os /\ \A x \in Threads : x # k => joinid'[x] = joinid[x]
  BY <1>1, <1>p2, Fields DEF DetachSelf, PthreadDetach
<1>s. ASSUME NEW x \in Threads, x # k PROVE SameThread(x)
  <2>1. detached' = [detached EXCEPT ![slot[k]] = TRUE]
    BY DEF DetachSelf
  <2>2. owner[slot[x]] = x => slot[x] # slot[k]
    BY <1>s, <1>5
  <2>3. owner[slot[x]] = x => detached'[slot[x]] = detached[slot[x]]
    BY <1>1, <2>1, <2>2, Fields
  <2>. QED
    BY <1>s, <1>p3, <2>3 DEF SameThread, DetachSelf
<1>c. UNCHANGED clients
  BY DEF DetachSelf, PthreadDetach
<1>u. Unasked(k)'
  BY <1>1, <1>2, <1>4, <1>5, <1>p1, <1>p2, <1>p3, Fields, LifeAssumption DEF Unasked, Occupied, DetachSelf, PthreadDetach
<1>l. LiveHandle(k)'
  BY <1>1, <1>2, <1>4, <1>5, <1>p1, <1>p2, <1>p3, <1>c, Fields, LifeAssumption DEF LiveHandle, Occupied, Joined, DetachSelf, PthreadDetach
<1>g. GarbageHandle(k)'
  BY <1>2, <1>p1 DEF GarbageHandle, DetachSelf
<1>j. ASSUME NEW c \in Joiners, cpc[c] # "idle", of[c] = k PROVE JoinerSound(c)'
  BY <1>j, <1>p1 DEF Before, JoinerSound
<1>t. ASSUME cpc[TheGC] # "idle", of[TheGC] = k PROVE CollectorSound'
  BY <1>p1, <1>t DEF Before, CollectorSound
<1>. QED
  BY <1>s, <1>c, <1>u, <1>l, <1>g, <1>j, <1>t, ThreadKept

\* The status of a thread that completes is valid for a joiner.
LEMMA BeforeComplete ==
  ASSUME Core, Before, Apart, OneJoiner, halt.pc = "no", UNCHANGED doing, NEW k \in Threads, Complete(k)
  PROVE  Before'
<1>. USE DEF slots, threads, posix, ld, clients
<1>1. Typed /\ Born /\ Occupied /\ Reserved /\ Claimed /\ ListedIsFree
  BY DEF Core
<1>2. Unasked(k) /\ LiveHandle(k) /\ GarbageHandle(k)
  BY DEF Before
<1>3. pc[k] # "none"
  BY DEF Complete
<1>4. /\ slot[k] \in Slots /\ info[k] \in {slot[k], Nil}
      /\ os[k] = "running" <=> pc[k] # "dead"
  BY <1>1, <1>3, BornThread
<1>5. owner[slot[k]] = k /\ ~listed[slot[k]] /\ Living(k)
  BY <1>1 DEF Occupied, Living, Complete
<1>s. ASSUME NEW x \in Threads, x # k PROVE SameThread(x)
  BY <1>s, <1>1, <1>2, <1>4, <1>5, Fields, LifeAssumption DEF SameThread, Complete, Goto
<1>c. UNCHANGED clients
  BY DEF Complete, Goto
<1>u. Unasked(k)'
  BY <1>1, <1>2, <1>4, <1>5, Fields, LifeAssumption DEF Unasked, Occupied, Complete, Goto
<1>l. LiveHandle(k)'
  <2>. SUFFICES ASSUME handle'[k] = "live", info'[k] # Nil PROVE LiveHandle(k)'
    BY DEF LiveHandle
  <2>1. /\ handle[k] = "live" /\ info[k] = slot[k] /\ info'[k] = slot[k]
        /\ owner[slot[k]] = k /\ ~listed[slot[k]]
    BY HandleHas DEF Complete, Goto
  <2>2. owner'[slot[k]] = k /\ ~listed'[slot[k]]
    BY <1>1, <1>2, <1>4, <1>5, <2>1, <1>c, Fields, LifeAssumption DEF Complete, Goto
  <2>3. status'[slot[k]] = "UNUSED" => status[slot[k]] = "UNUSED" /\ pc[k] # "unlink"
    BY <1>1, <1>2, <1>4, <1>5, <2>1, <1>c, Fields, LifeAssumption DEF Occupied, Completed, Living, Complete, Goto
  <2>4. status'[slot[k]] = "JOINED" => status[slot[k]] = "JOINED"
    BY <1>1, <1>2, <1>4, <1>5, <2>1, <1>c, Fields, LifeAssumption DEF Occupied, Completed, Living, Complete, Goto
  <2>5. os'[k] = "gone" => os[k] = "gone" \/ detached[slot[k]]
    BY <1>1, <1>2, <1>4, <1>5, <2>1, <1>c, Fields, LifeAssumption DEF Unasked, Complete, Goto
  <2>6. joinid' = joinid /\ detached' = detached
    BY DEF Complete, Goto
  <2>. QED
    BY <1>2, <1>c, <2>1, <2>2, <2>3, <2>4, <2>5, <2>6 DEF LiveHandle, Joined
<1>g. GarbageHandle(k)'
  BY <1>1, <1>2, <1>4, <1>5, Fields, LifeAssumption DEF GarbageHandle, Forgotten, Unasked, Occupied, Invalid, Completed, Complete, Goto
<1>j. ASSUME NEW c \in Joiners, cpc[c] # "idle", of[c] = k PROVE JoinerSound(c)'
  <2>1. JoinerSound(c) /\ Claims(c)
    BY <1>1, <1>j DEF Before, Claimed, Clients
  <2>. QED
    BY <1>1, <1>2, <1>4, <1>5, <1>c, <1>j, <2>1, Fields, LifeAssumption DEF JoinerSound, Claims, Unasked, Living, Invalid, Occupied, Complete, Goto
<1>t. ASSUME cpc[TheGC] # "idle", of[TheGC] = k PROVE CollectorSound'
  <2>1. CollectorSound /\ Claims(TheGC)
    BY <1>1, <1>t DEF Before, Claimed, Clients
  <2>. QED
    BY <1>1, <1>2, <1>4, <1>5, <1>c, <1>t, <2>1, Fields, LifeAssumption DEF CollectorSound, Claims, Forgotten, Unasked, Living, Invalid, Completed, Occupied, Complete, Goto
<1>. QED
  BY <1>s, <1>c, <1>u, <1>l, <1>g, <1>j, <1>t, ThreadKept

\* Nobody was asked to exit.
LEMMA BeforeAcknowledge ==
  ASSUME Core, Before, Apart, OneJoiner, halt.pc = "no", UNCHANGED doing, NEW k \in Threads, Acknowledge(k)
  PROVE  Before'
<1>. USE DEF slots, threads, posix, ld, clients
<1>1. Typed /\ Born /\ Occupied /\ Reserved /\ Claimed /\ ListedIsFree
  BY DEF Core
<1>2. Unasked(k) /\ LiveHandle(k) /\ GarbageHandle(k)
  BY DEF Before
<1>3. pc[k] # "none"
  BY DEF Acknowledge
<1>4. /\ slot[k] \in Slots /\ info[k] \in {slot[k], Nil}
      /\ os[k] = "running" <=> pc[k] # "dead"
  BY <1>1, <1>3, BornThread
<1>5. owner[slot[k]] = k /\ ~listed[slot[k]] /\ Living(k)
  BY <1>1 DEF Occupied, Living, Acknowledge
<1>s. ASSUME NEW x \in Threads, x # k PROVE SameThread(x)
  BY <1>s, <1>1, <1>2, <1>4, <1>5, Fields, LifeAssumption DEF SameThread, Acknowledge, Goto
<1>c. UNCHANGED clients
  BY DEF Acknowledge, Goto
<1>u. Unasked(k)'
  BY <1>1, <1>2, <1>4, <1>5, Fields, LifeAssumption DEF Unasked, Occupied, Acknowledge, Goto
<1>l. LiveHandle(k)'
  BY <1>1, <1>2, <1>4, <1>5, <1>c, Fields, LifeAssumption DEF LiveHandle, Occupied, Joined, Acknowledge, Goto
<1>g. GarbageHandle(k)'
  BY <1>1, <1>2, <1>4, <1>5, Fields, LifeAssumption DEF GarbageHandle, Forgotten, Unasked, Occupied, Invalid, Completed, Acknowledge, Goto
<1>j. ASSUME NEW c \in Joiners, cpc[c] # "idle", of[c] = k PROVE JoinerSound(c)'
  <2>1. JoinerSound(c) /\ Claims(c)
    BY <1>1, <1>j DEF Before, Claimed, Clients
  <2>. QED
    BY <1>1, <1>2, <1>4, <1>5, <1>c, <1>j, <2>1, Fields, LifeAssumption DEF JoinerSound, Claims, Unasked, Living, Invalid, Occupied, Acknowledge, Goto
<1>t. ASSUME cpc[TheGC] # "idle", of[TheGC] = k PROVE CollectorSound'
  <2>1. CollectorSound /\ Claims(TheGC)
    BY <1>1, <1>t DEF Before, Claimed, Clients
  <2>. QED
    BY <1>1, <1>2, <1>4, <1>5, <1>c, <1>t, <2>1, Fields, LifeAssumption DEF CollectorSound, Claims, Forgotten, Unasked, Living, Invalid, Completed, Occupied, Acknowledge, Goto
<1>. QED
  BY <1>s, <1>c, <1>u, <1>l, <1>g, <1>j, <1>t, ThreadKept

\* Shutting off signals changes nothing that others look at.
LEMMA BeforeKill ==
  ASSUME Core, Before, Apart, OneJoiner, halt.pc = "no", UNCHANGED doing, NEW k \in Threads, Kill(k)
  PROVE  Before'
<1>. USE DEF slots, threads, posix, ld, clients
<1>1. Typed /\ Born /\ Occupied /\ Reserved /\ Claimed /\ ListedIsFree
  BY DEF Core
<1>2. Unasked(k) /\ LiveHandle(k) /\ GarbageHandle(k)
  BY DEF Before
<1>3. pc[k] # "none"
  BY DEF Kill
<1>4. /\ slot[k] \in Slots /\ info[k] \in {slot[k], Nil}
      /\ os[k] = "running" <=> pc[k] # "dead"
  BY <1>1, <1>3, BornThread
<1>5. owner[slot[k]] = k /\ ~listed[slot[k]] /\ Living(k)
  BY <1>1 DEF Occupied, Living, Kill
<1>s. ASSUME NEW x \in Threads, x # k PROVE SameThread(x)
  BY <1>s, <1>1, <1>2, <1>4, <1>5, Fields, LifeAssumption DEF SameThread, Kill, Goto
<1>c. UNCHANGED clients
  BY DEF Kill, Goto
<1>u. Unasked(k)'
  BY <1>1, <1>2, <1>4, <1>5, Fields, LifeAssumption DEF Unasked, Occupied, Kill, Goto
<1>l. LiveHandle(k)'
  BY <1>1, <1>2, <1>4, <1>5, <1>c, Fields, LifeAssumption DEF LiveHandle, Occupied, Joined, Kill, Goto
<1>g. GarbageHandle(k)'
  BY <1>1, <1>2, <1>4, <1>5, Fields, LifeAssumption DEF GarbageHandle, Forgotten, Unasked, Occupied, Invalid, Completed, Kill, Goto
<1>j. ASSUME NEW c \in Joiners, cpc[c] # "idle", of[c] = k PROVE JoinerSound(c)'
  <2>1. JoinerSound(c) /\ Claims(c)
    BY <1>1, <1>j DEF Before, Claimed, Clients
  <2>. QED
    BY <1>1, <1>2, <1>4, <1>5, <1>c, <1>j, <2>1, Fields, LifeAssumption DEF JoinerSound, Claims, Unasked, Living, Invalid, Occupied, Kill, Goto
<1>t. ASSUME cpc[TheGC] # "idle", of[TheGC] = k PROVE CollectorSound'
  <2>1. CollectorSound /\ Claims(TheGC)
    BY <1>1, <1>t DEF Before, Claimed, Clients
  <2>. QED
    BY <1>1, <1>2, <1>4, <1>5, <1>c, <1>t, <2>1, Fields, LifeAssumption DEF CollectorSound, Claims, Forgotten, Unasked, Living, Invalid, Completed, Occupied, Kill, Goto
<1>. QED
  BY <1>s, <1>c, <1>u, <1>l, <1>g, <1>j, <1>t, ThreadKept

\* Releasing the local data changes nothing that others look at.
LEMMA BeforeReleaseData ==
  ASSUME Core, Before, Apart, OneJoiner, halt.pc = "no", UNCHANGED doing, NEW k \in Threads, ReleaseData(k)
  PROVE  Before'
<1>. USE DEF slots, threads, posix, ld, clients
<1>1. Typed /\ Born /\ Occupied /\ Reserved /\ Claimed /\ ListedIsFree
  BY DEF Core
<1>2. Unasked(k) /\ LiveHandle(k) /\ GarbageHandle(k)
  BY DEF Before
<1>3. pc[k] # "none"
  BY DEF ReleaseData
<1>4. /\ slot[k] \in Slots /\ info[k] \in {slot[k], Nil}
      /\ os[k] = "running" <=> pc[k] # "dead"
  BY <1>1, <1>3, BornThread
<1>5. owner[slot[k]] = k /\ ~listed[slot[k]] /\ Living(k)
  BY <1>1 DEF Occupied, Living, ReleaseData
<1>s. ASSUME NEW x \in Threads, x # k PROVE SameThread(x)
  BY <1>s, <1>1, <1>2, <1>4, <1>5, Fields, LifeAssumption DEF SameThread, ReleaseData, Goto
<1>c. UNCHANGED clients
  BY DEF ReleaseData, Goto
<1>u. Unasked(k)'
  BY <1>1, <1>2, <1>4, <1>5, Fields, LifeAssumption DEF Unasked, Occupied, ReleaseData, Goto
<1>l. LiveHandle(k)'
  BY <1>1, <1>2, <1>4, <1>5, <1>c, Fields, LifeAssumption DEF LiveHandle, Occupied, Joined, ReleaseData, Goto
<1>g. GarbageHandle(k)'
  BY <1>1, <1>2, <1>4, <1>5, Fields, LifeAssumption DEF GarbageHandle, Forgotten, Unasked, Occupied, Invalid, Completed, ReleaseData, Goto
<1>j. ASSUME NEW c \in Joiners, cpc[c] # "idle", of[c] = k PROVE JoinerSound(c)'
  <2>1. JoinerSound(c) /\ Claims(c)
    BY <1>1, <1>j DEF Before, Claimed, Clients
  <2>. QED
    BY <1>1, <1>2, <1>4, <1>5, <1>c, <1>j, <2>1, Fields, LifeAssumption DEF JoinerSound, Claims, Unasked, Living, Invalid, Occupied, ReleaseData, Goto
<1>t. ASSUME cpc[TheGC] # "idle", of[TheGC] = k PROVE CollectorSound'
  <2>1. CollectorSound /\ Claims(TheGC)
    BY <1>1, <1>t DEF Before, Claimed, Clients
  <2>. QED
    BY <1>1, <1>2, <1>4, <1>5, <1>c, <1>t, <2>1, Fields, LifeAssumption DEF CollectorSound, Claims, Forgotten, Unasked, Living, Invalid, Completed, Occupied, ReleaseData, Goto
<1>. QED
  BY <1>s, <1>c, <1>u, <1>l, <1>g, <1>j, <1>t, ThreadKept

\* A thread frees its slot only if it is detached.
LEMMA BeforeTestDetached ==
  ASSUME Core, Before, Apart, OneJoiner, halt.pc = "no", UNCHANGED doing, NEW k \in Threads, TestDetached(k)
  PROVE  Before'
<1>. USE DEF slots, threads, posix, ld, clients
<1>1. Typed /\ Born /\ Occupied /\ Reserved /\ Claimed /\ ListedIsFree
  BY DEF Core
<1>2. Unasked(k) /\ LiveHandle(k) /\ GarbageHandle(k)
  BY DEF Before
<1>3. pc[k] # "none"
  BY DEF TestDetached
<1>4. /\ slot[k] \in Slots /\ info[k] \in {slot[k], Nil}
      /\ os[k] = "running" <=> pc[k] # "dead"
  BY <1>1, <1>3, BornThread
<1>5. owner[slot[k]] = k /\ ~listed[slot[k]] /\ Living(k)
  BY <1>1 DEF Occupied, Living, TestDetached
<1>s. ASSUME NEW x \in Threads, x # k PROVE SameThread(x)
  BY <1>s, <1>1, <1>2, <1>4, <1>5, Fields, LifeAssumption DEF SameThread, TestDetached, Goto
<1>c. UNCHANGED clients
  BY DEF TestDetached, Goto
<1>u. Unasked(k)'
  BY <1>1, <1>2, <1>4, <1>5, Fields DEF Unasked, TestDetached, FreesItself, Goto
<1>l. LiveHandle(k)'
  BY <1>1, <1>2, <1>4, <1>5, <1>c, Fields, LifeAssumption DEF LiveHandle, Occupied, Joined, TestDetached, Goto
<1>g. GarbageHandle(k)'
  BY <1>1, <1>2, <1>4, <1>5, Fields, LifeAssumption DEF GarbageHandle, Forgotten, Unasked, Occupied, Invalid, Completed, TestDetached, Goto
<1>j. ASSUME NEW c \in Joiners, cpc[c] # "idle", of[c] = k PROVE JoinerSound(c)'
  <2>1. JoinerSound(c) /\ Claims(c)
    BY <1>1, <1>j DEF Before, Claimed, Clients
  <2>. QED
    BY <1>1, <1>2, <1>4, <1>5, <1>c, <1>j, <2>1, Fields, LifeAssumption DEF JoinerSound, Claims, Unasked, Living, Invalid, Occupied, TestDetached, Goto
<1>t. ASSUME cpc[TheGC] # "idle", of[TheGC] = k PROVE CollectorSound'
  <2>1. CollectorSound /\ Claims(TheGC)
    BY <1>1, <1>t DEF Before, Claimed, Clients
  <2>. QED
    BY <1>1, <1>2, <1>4, <1>5, <1>c, <1>t, <2>1, Fields, LifeAssumption DEF CollectorSound, Claims, Forgotten, Unasked, Living, Invalid, Completed, Occupied, TestDetached, Goto
<1>. QED
  BY <1>s, <1>c, <1>u, <1>l, <1>g, <1>j, <1>t, ThreadKept

\* A thread that frees its slot is detached, so nobody else does.
LEMMA BeforeMarkSelf ==
  ASSUME Core, Before, Apart, OneJoiner, halt.pc = "no", UNCHANGED doing, NEW k \in Threads, MarkSelf(k)
  PROVE  Before'
<1>. USE DEF slots, threads, posix, ld, clients
<1>1. Typed /\ Born /\ Occupied /\ Reserved /\ Claimed /\ ListedIsFree
  BY DEF Core
<1>2. Unasked(k) /\ LiveHandle(k) /\ GarbageHandle(k)
  BY DEF Before
<1>3. pc[k] # "none"
  BY DEF MarkSelf
<1>4. /\ slot[k] \in Slots /\ info[k] \in {slot[k], Nil}
      /\ os[k] = "running" <=> pc[k] # "dead"
  BY <1>1, <1>3, BornThread
<1>5. owner[slot[k]] = k /\ ~listed[slot[k]] /\ Living(k)
  BY <1>1 DEF Occupied, Living, MarkSelf
<1>s. ASSUME NEW x \in Threads, x # k PROVE SameThread(x)
  BY <1>s, <1>1, <1>2, <1>4, <1>5, Fields, LifeAssumption DEF SameThread, MarkSelf, Mark, Goto
<1>c. UNCHANGED clients
  BY DEF MarkSelf, Mark, Goto
<1>u. Unasked(k)'
  BY <1>1, <1>2, <1>4, <1>5, Fields, LifeAssumption DEF Unasked, Occupied, MarkSelf, Mark, Goto
<1>l. LiveHandle(k)'
  BY <1>1, <1>2, <1>4, <1>5, <1>c, Fields, LifeAssumption DEF LiveHandle, Occupied, Joined, MarkSelf, Mark, Goto
<1>g. GarbageHandle(k)'
  BY <1>1, <1>2, <1>4, <1>5, Fields, LifeAssumption DEF GarbageHandle, Forgotten, Unasked, Occupied, Invalid, Completed, MarkSelf, Mark, Goto
<1>j. ASSUME NEW c \in Joiners, cpc[c] # "idle", of[c] = k PROVE JoinerSound(c)'
  <2>1. JoinerSound(c) /\ Claims(c)
    BY <1>1, <1>j DEF Before, Claimed, Clients
  <2>. QED
    BY <1>1, <1>2, <1>4, <1>5, <1>c, <1>j, <2>1, Fields, LifeAssumption DEF JoinerSound, Claims, Unasked, Living, Invalid, Occupied, MarkSelf, Mark, Goto
<1>t. ASSUME cpc[TheGC] # "idle", of[TheGC] = k PROVE CollectorSound'
  <2>1. CollectorSound /\ Claims(TheGC)
    BY <1>1, <1>t DEF Before, Claimed, Clients
  <2>. QED
    BY <1>1, <1>2, <1>4, <1>5, <1>c, <1>t, <2>1, Fields, LifeAssumption DEF CollectorSound, Claims, Forgotten, Unasked, Living, Invalid, Completed, Occupied, MarkSelf, Mark, Goto
<1>. QED
  BY <1>s, <1>c, <1>u, <1>l, <1>g, <1>j, <1>t, ThreadKept

\* A thread that frees its slot leaves a handle that shows nothing.
LEMMA BeforeUnlinkSelf ==
  ASSUME Core, Before, Apart, OneJoiner, halt.pc = "no", UNCHANGED doing, NEW k \in Threads, UnlinkSelf(k)
  PROVE  Before'
<1>. USE DEF slots, threads, posix, ld, clients
<1>1. Typed /\ Born /\ Occupied /\ Reserved /\ Claimed /\ ListedIsFree
  BY DEF Core
<1>2. Unasked(k) /\ LiveHandle(k) /\ GarbageHandle(k)
  BY DEF Before
<1>3. pc[k] # "none"
  BY DEF UnlinkSelf
<1>4. /\ slot[k] \in Slots /\ info[k] \in {slot[k], Nil}
      /\ os[k] = "running" <=> pc[k] # "dead"
  BY <1>1, <1>3, BornThread
<1>5. owner[slot[k]] = k /\ ~listed[slot[k]] /\ Living(k)
  BY <1>1 DEF Occupied, Living, UnlinkSelf
<1>s. ASSUME NEW x \in Threads, x # k PROVE SameThread(x)
  <2>1. info'[x] = info[x]
    BY <1>s, <1>5, <1>1, Fields DEF UnlinkSelf, Unlink
  <2>2. listed' = [listed EXCEPT ![slot[k]] = TRUE]
    BY DEF UnlinkSelf, Unlink
  <2>3. owner[slot[x]] = x => slot[x] # slot[k]
    BY <1>s, <1>5
  <2>4. owner[slot[x]] = x => listed'[slot[x]] = listed[slot[x]]
    BY <1>1, <2>2, <2>3, Fields
  <2>5. pc'[x] = pc[x]
    BY <1>s, <1>1, Fields DEF UnlinkSelf, Goto
  <2>. QED
    BY <2>1, <2>4, <2>5 DEF SameThread, UnlinkSelf
<1>c. UNCHANGED clients
  BY DEF UnlinkSelf, Unlink, Goto
<1>u. Unasked(k)'
  BY <1>1, <1>2, <1>4, <1>5, Fields, LifeAssumption DEF Unasked, Occupied, UnlinkSelf, Unlink, Goto
<1>l. LiveHandle(k)'
  BY <1>1, <1>2, <1>4, <1>5, <1>c, Fields, LifeAssumption DEF LiveHandle, Occupied, Joined, UnlinkSelf, Unlink, Goto
<1>g. GarbageHandle(k)'
  BY <1>1, <1>2, <1>4, <1>5, Fields, LifeAssumption DEF GarbageHandle, Forgotten, Unasked, Occupied, Invalid, Completed, UnlinkSelf, Unlink, Goto
<1>j. ASSUME NEW c \in Joiners, cpc[c] # "idle", of[c] = k PROVE JoinerSound(c)'
  <2>1. JoinerSound(c) /\ Claims(c)
    BY <1>1, <1>j DEF Before, Claimed, Clients
  <2>. QED
    BY <1>2, <1>j, <2>1 DEF JoinerSound, Claims, Unasked, UnlinkSelf
<1>t. ASSUME cpc[TheGC] # "idle", of[TheGC] = k PROVE CollectorSound'
  <2>1. CollectorSound /\ Claims(TheGC)
    BY <1>1, <1>t DEF Before, Claimed, Clients
  <2>. QED
    BY <1>1, <1>2, <1>4, <1>5, <1>c, <1>t, <2>1, Fields, LifeAssumption DEF CollectorSound, Claims, Forgotten, Unasked, Living, Invalid, Completed, Occupied, UnlinkSelf, Unlink, Goto
<1>. QED
  BY <1>s, <1>c, <1>u, <1>l, <1>g, <1>j, <1>t, ThreadKept

\* Nobody was asked to exit, so nobody says that he is dead.
LEMMA BeforePost ==
  ASSUME Core, Before, Apart, OneJoiner, halt.pc = "no", UNCHANGED doing, NEW k \in Threads, Post(k)
  PROVE  Before'
<1>. USE DEF slots, threads, posix, ld, clients
<1>1. Typed /\ Born /\ Occupied /\ Reserved /\ Claimed /\ ListedIsFree
  BY DEF Core
<1>2. Unasked(k) /\ LiveHandle(k) /\ GarbageHandle(k)
  BY DEF Before
<1>3. pc[k] # "none"
  BY DEF Post
<1>4. /\ slot[k] \in Slots /\ info[k] \in {slot[k], Nil}
      /\ os[k] = "running" <=> pc[k] # "dead"
  BY <1>1, <1>3, BornThread
<1>p1. UNCHANGED <<posix, halt>>
  BY <1>2 DEF Post, Unasked
<1>s. ASSUME NEW x \in Threads, x # k PROVE SameThread(x)
  BY <1>s, <1>1, <1>2, <1>4, <1>p1, Fields, LifeAssumption DEF SameThread, Post, Goto
<1>c. UNCHANGED clients
  BY DEF Post, PthreadDetach, Goto
<1>u. Unasked(k)'
  BY <1>1, <1>2, <1>4, <1>p1, Fields, LifeAssumption DEF Unasked, Occupied, Post, Goto
<1>l. LiveHandle(k)'
  BY <1>1, <1>2, <1>4, <1>p1, <1>c, Fields, LifeAssumption DEF LiveHandle, Occupied, Joined, Post, Goto
<1>g. GarbageHandle(k)'
  BY <1>1, <1>2, <1>4, <1>p1, Fields, LifeAssumption DEF GarbageHandle, Forgotten, Unasked, Occupied, Invalid, Completed, Post, Goto
<1>j. ASSUME NEW c \in Joiners, cpc[c] # "idle", of[c] = k PROVE JoinerSound(c)'
  <2>1. JoinerSound(c) /\ Claims(c)
    BY <1>1, <1>j DEF Before, Claimed, Clients
  <2>. QED
    BY <1>1, <1>2, <1>4, <1>p1, <1>c, <1>j, <2>1, Fields, LifeAssumption DEF JoinerSound, Claims, Unasked, Living, Invalid, Occupied, Post, Goto
<1>t. ASSUME cpc[TheGC] # "idle", of[TheGC] = k PROVE CollectorSound'
  <2>1. CollectorSound /\ Claims(TheGC)
    BY <1>1, <1>t DEF Before, Claimed, Clients
  <2>. QED
    BY <1>1, <1>2, <1>4, <1>p1, <1>c, <1>t, <2>1, Fields, LifeAssumption DEF CollectorSound, Claims, Forgotten, Unasked, Living, Invalid, Completed, Occupied, Post, Goto
<1>. QED
  BY <1>s, <1>c, <1>u, <1>l, <1>g, <1>j, <1>t, ThreadKept

\* A thread that ends is gone only if it is detached.
LEMMA BeforeEnd ==
  ASSUME Core, Before, Apart, OneJoiner, halt.pc = "no", UNCHANGED doing, NEW k \in Threads, End(k)
  PROVE  Before'
<1>. USE DEF slots, threads, posix, ld, clients
<1>1. Typed /\ Born /\ Occupied /\ Reserved /\ Claimed /\ ListedIsFree
  BY DEF Core
<1>2. Unasked(k) /\ LiveHandle(k) /\ GarbageHandle(k)
  BY DEF Before
<1>3. pc[k] # "none"
  BY DEF End
<1>4. /\ slot[k] \in Slots /\ info[k] \in {slot[k], Nil}
      /\ os[k] = "running" <=> pc[k] # "dead"
  BY <1>1, <1>3, BornThread
<1>s. ASSUME NEW x \in Threads, x # k PROVE SameThread(x)
  BY <1>s, <1>1, <1>2, <1>4, Fields, LifeAssumption DEF SameThread, End, Ends, Goto
<1>c. UNCHANGED clients
  BY DEF End, Ends, Goto
<1>u. Unasked(k)'
  BY <1>1, <1>2, <1>4, Fields, LifeAssumption DEF Unasked, Occupied, End, Ends, Goto
<1>l. LiveHandle(k)'
  <2>. SUFFICES ASSUME handle'[k] = "live", info'[k] # Nil PROVE LiveHandle(k)'
    BY DEF LiveHandle
  <2>1. /\ handle[k] = "live" /\ info[k] = slot[k] /\ info'[k] = slot[k]
        /\ owner[slot[k]] = k /\ ~listed[slot[k]]
    BY HandleHas DEF End, Ends, Goto
  <2>2. owner'[slot[k]] = k /\ ~listed'[slot[k]]
    BY <1>1, <1>2, <1>4, <2>1, <1>c, Fields, LifeAssumption DEF End, Ends, Goto
  <2>3. status'[slot[k]] = "UNUSED" => status[slot[k]] = "UNUSED" /\ pc[k] # "unlink"
    BY <1>1, <1>2, <1>4, <2>1, <1>c, Fields, LifeAssumption DEF Occupied, Completed, Living, End, Ends, Goto
  <2>4. status'[slot[k]] = "JOINED" => status[slot[k]] = "JOINED"
    BY <1>1, <1>2, <1>4, <2>1, <1>c, Fields, LifeAssumption DEF Occupied, Completed, Living, End, Ends, Goto
  <2>5. os'[k] = "gone" => os[k] = "gone" \/ detached[slot[k]]
    BY <1>1, <1>2, <1>4, <2>1, <1>c, Fields, LifeAssumption DEF Unasked, End, Ends, Goto
  <2>6. joinid' = joinid /\ detached' = detached
    BY DEF End, Ends, Goto
  <2>. QED
    BY <1>2, <1>c, <2>1, <2>2, <2>3, <2>4, <2>5, <2>6 DEF LiveHandle, Joined
<1>g. GarbageHandle(k)'
  BY <1>1, <1>2, <1>4, Fields, LifeAssumption DEF GarbageHandle, Forgotten, Unasked, Occupied, Invalid, Completed, End, Ends, Goto
<1>j. ASSUME NEW c \in Joiners, cpc[c] # "idle", of[c] = k PROVE JoinerSound(c)'
  <2>1. JoinerSound(c) /\ Claims(c)
    BY <1>1, <1>j DEF Before, Claimed, Clients
  <2>. QED
    BY <1>1, <1>2, <1>4, <1>c, <1>j, <2>1, Fields, LifeAssumption DEF JoinerSound, Claims, Unasked, Living, Invalid, Occupied, End, Ends, Goto
<1>t. ASSUME cpc[TheGC] # "idle", of[TheGC] = k PROVE CollectorSound'
  <2>1. CollectorSound /\ Claims(TheGC)
    BY <1>1, <1>t DEF Before, Claimed, Clients
  <2>. QED
    BY <1>1, <1>2, <1>4, <1>c, <1>t, <2>1, Fields, LifeAssumption DEF CollectorSound, Claims, Forgotten, Unasked, Living, Invalid, Completed, Occupied, End, Ends, Goto
<1>. QED
  BY <1>s, <1>c, <1>u, <1>l, <1>g, <1>j, <1>t, ThreadKept

\* The same for a step of a joiner or of thread gc.
LEMMA ClientKept ==
  ASSUME Core, Before, UNCHANGED doing, NEW c \in Joiners \cup {TheGC}, NEW k \in Threads,
         cpc[c] = "idle" \/ of[c] = k,
         \A x \in Threads : x # k => SameThread(x),
         \A d \in Clients : d # c => SameClient(d),
         Unasked(k)' /\ LiveHandle(k)' /\ GarbageHandle(k)',
         \A d \in Joiners : d = c \/ (cpc[d] # "idle" /\ of[d] = k) => JoinerSound(d)',
         TheGC = c \/ (cpc[TheGC] # "idle" /\ of[TheGC] = k) => CollectorSound'
  PROVE  Before'
<1>1. \A x \in Threads \ {k} : SameThread(x)
  OBVIOUS
<1>2. \A d \in Clients \ {c} : SameClient(d)
  OBVIOUS
<1>3. \A x \in Threads \cap {k} : Unasked(x)' /\ LiveHandle(x)' /\ GarbageHandle(x)'
  OBVIOUS
<1>4. \A d \in Joiners : d \in {c} \/ (cpc[d] # "idle" /\ of[d] \in {k}) => JoinerSound(d)'
  OBVIOUS
<1>5. TheGC \in {c} \/ (cpc[TheGC] # "idle" /\ of[TheGC] \in {k}) => CollectorSound'
  OBVIOUS
<1>6. \A d \in Joiners \cap {c} : cpc[d] = "idle" \/ of[d] \in {k}
  OBVIOUS
<1>7. \A d \in Detachers \cap {c} : cpc'[d] = "idle"
  BY LifeAssumption
<1>. QED
  BY <1>1, <1>2, <1>3, <1>4, <1>5, <1>6, <1>7, BeforeKept

\* What a joiner that is busy has.
LEMMA JoinerHas ==
  ASSUME Core, Before, OneJoiner, NEW c \in Joiners, cpc[c] # "idle"
  PROVE  /\ of[c] \in Threads /\ of[c] <= created /\ slot[of[c]] = at[c] /\ at[c] \in Slots
         /\ handle[of[c]] = "live" /\ info[of[c]] = at[c] /\ owner[at[c]] = of[c]
         /\ ~listed[at[c]] /\ ~detached[at[c]]
         /\ joinid[of[c]] # Detached /\ pc[of[c]] \notin {"free", "unlink"}
         /\ c \in Clients /\ c # TheGC /\ c \notin Detachers /\ \A d \in Joiners : d = c
         /\ cpc[TheGC] # "idle" => of[TheGC] # of[c]
         /\ JoinerSound(c) /\ LiveHandle(of[c]) /\ Unasked(of[c]) /\ Claims(c)
<1>1. JoinerSound(c) /\ Claims(c) /\ c \in Clients
  BY DEF Before, Core, Claimed, Clients
<1>2. /\ of[c] \in Threads /\ of[c] <= created /\ slot[of[c]] = at[c] /\ at[c] \in Slots
  BY <1>1, ClaimedThread DEF Core
<1>3. /\ handle[of[c]] = "live" /\ info[of[c]] = at[c]
      /\ ~listed[at[c]] /\ ~detached[at[c]]
  BY <1>1 DEF JoinerSound
<1>4. owner[at[c]] = of[c]
  BY <1>1, <1>3 DEF Claims
<1>5. Unasked(of[c]) /\ LiveHandle(of[c])
  BY <1>2 DEF Before
<1>6. joinid[of[c]] # Detached /\ pc[of[c]] \notin {"free", "unlink"}
  BY <1>2, <1>3, <1>4, <1>5 DEF Unasked
<1>7. cpc[TheGC] # "idle" => of[TheGC] # of[c]
  BY <1>3 DEF Before, CollectorSound
<1>. QED
  BY <1>1, <1>2, <1>3, <1>4, <1>5, <1>6, <1>7, LifeAssumption DEF OneJoiner

\* Nobody else is about the thread that a joiner has ...
LEMMA JoinerStep ==
  ASSUME Core, Before, OneJoiner, UNCHANGED doing, NEW c \in Joiners, cpc[c] # "idle",
         NEW k, k = of[c],
         \A x \in Threads : x # k => SameThread(x),
         \A d \in Clients : d # c => SameClient(d),
         handle'[k] = "live", Unasked(k)', LiveHandle(k)', JoinerSound(c)'
  PROVE  Before'
<1>1. /\ k \in Threads /\ c # TheGC /\ \A d \in Joiners : d = c
      /\ cpc[TheGC] # "idle" => of[TheGC] # k
  BY JoinerHas
<1>2. GarbageHandle(k)'
  BY DEF GarbageHandle
<1>. QED
  BY <1>1, <1>2, ClientKept

\* ... and the one that thread gc has.
LEMMA CollectorStep ==
  ASSUME Core, Before, UNCHANGED doing, cpc[TheGC] # "idle", NEW k, k = of[TheGC],
         \A x \in Threads : x # k => SameThread(x),
         \A d \in Clients : d # TheGC => SameClient(d),
         handle'[k] = "none", Unasked(k)', CollectorSound'
  PROVE  Before'
<1>1. CollectorSound /\ k \in Threads
  BY ClaimedThread DEF Before, Core, Claimed, Clients
<1>2. \A d \in Joiners : cpc[d] # "idle" => of[d] # k
  BY <1>1 DEF Before, CollectorSound, JoinerSound
<1>3. \A d \in Joiners : d # TheGC
  BY LifeAssumption
<1>4. GarbageHandle(k)' /\ LiveHandle(k)'
  BY DEF GarbageHandle, LiveHandle
<1>. QED
  BY <1>1, <1>2, <1>3, <1>4, ClientKept

\* thread_join/2 finds a thread that nobody else deals with.
LEMMA BeforeJoinFind ==
  ASSUME Core, Before, Apart, OneJoiner, halt.pc = "no", UNCHANGED doing, NEW c \in Joiners, JoinFind(c)
  PROVE  Before'
<1>. USE DEF slots, threads, posix, ld
<1>1. PICK k \in Threads :
           /\ k <= created /\ handle[k] = "live" /\ info[k] = slot[k] /\ slot[k] \in Slots
           /\ owner[slot[k]] = k /\ ~listed[slot[k]] /\ ~detached[slot[k]]
           /\ ~Invalid(status[slot[k]]) /\ joinid[k] = Nil /\ os[k] # "gone"
           /\ of' = [of EXCEPT ![c] = k] /\ at' = [at EXCEPT ![c] = slot[k]]
  BY JoinFinds
<1>2. cpc[c] = "idle" /\ cpc' = [cpc EXCEPT ![c] = "join"] /\ "join" \in doing
  BY DEF JoinFind, Client
<1>3. /\ cpc \in [Clients -> ClientPlaces] /\ at \in [Clients -> Slots \cup {Nil}]
      /\ of \in [Clients -> 0..MaxThreads] /\ c \in Clients
  BY Fields DEF Core, Clients
<1>4. \A x \in Threads : SameThread(x)
  BY DEF SameThread, JoinFind
<1>5. \A d \in Clients : d # c => SameClient(d)
  BY <1>1, <1>2, <1>3 DEF SameClient
<1>6. Unasked(k)' /\ GarbageHandle(k)'
  BY <1>4, UnaskedKept, GarbageKept
<1>7. LiveHandle(k)'
  BY <1>1 DEF LiveHandle, JoinFind, Invalid
<1>8. JoinerSound(c)'
  BY <1>1, <1>2, <1>3 DEF JoinerSound, JoinFind
<1>9. CollectorSound'
  <2>1. TheGC # c /\ TheGC \in Clients
    BY LifeAssumption DEF Clients
  <2>2. SameClient(TheGC) /\ (cpc[TheGC] # "idle" => of[TheGC] \in Threads)
    BY <1>5, <2>1, ClaimedThread DEF Core, Claimed
  <2>. QED
    BY <1>4, <2>2, CollectorKept
<1>10. \A d \in Joiners : d = c
  BY DEF OneJoiner
<1>. QED
  BY <1>2, <1>4, <1>5, <1>6, <1>7, <1>8, <1>9, <1>10, ClientKept

\* pthread_timedjoin_np() registers the joiner.
LEMMA BeforeJoinTry ==
  ASSUME Core, Before, Apart, OneJoiner, halt.pc = "no", UNCHANGED doing, NEW c \in Joiners, JoinTry(c)
  PROVE  Before'
<1>. USE DEF slots, threads, ld
<1>1. cpc[c] = "join"
  BY DEF JoinTry
<1>2. PICK k \in Threads :
        /\ k = of[c] /\ slot[k] = at[c] /\ at[c] \in Slots /\ at[c] # Nil
        /\ handle[k] = "live" /\ info[k] = at[c] /\ owner[at[c]] = k
        /\ ~listed[at[c]] /\ ~detached[at[c]]
        /\ c \in Clients /\ \A d \in Joiners : d = c
        /\ JoinerSound(c) /\ LiveHandle(k) /\ Unasked(k)
  BY <1>1, JoinerHas, LifeAssumption
<1>4. joinid[k] = Nil /\ os[k] # "gone"
  BY <1>1, <1>2 DEF JoinerSound
<1>3. Target(c) = k
  BY <1>1, <1>2, <1>4, TargetMeant DEF Core
<1>5. joinid' = [joinid EXCEPT ![k] = c] /\ cpc' = [cpc EXCEPT ![c] = "joining"]
      /\ UNCHANGED <<of, at, os>>
  BY <1>3, <1>4 DEF JoinTry, Client
<1>6. /\ cpc \in [Clients -> ClientPlaces] /\ joinid \in [Threads -> Joiners \cup {TheGC, Nil, Detached, Main}]
      /\ c # Detached
  BY <1>2, Fields, Names DEF Core
<1>7. \A x \in Threads : x # k => SameThread(x)
  BY <1>5, <1>6 DEF SameThread, JoinTry
<1>8. \A d \in Clients : d # c => SameClient(d)
  BY <1>5, <1>6 DEF SameClient
<1>9. Unasked(k)'
  BY <1>2, <1>5, <1>6 DEF Unasked, JoinTry
<1>10. LiveHandle(k)'
  <2>1. cpc'[c] = "joining"
    BY <1>2, <1>5, <1>6
  <2>2. status[at[c]] = "UNUSED" => pc[k] = "unlink"
    BY <1>1, <1>2 DEF LiveHandle
  <2>3. status[at[c]] # "JOINED"
    BY <1>1, <1>2 DEF LiveHandle
  <2>. QED
    BY <1>2, <1>4, <1>5, <2>1, <2>2, <2>3 DEF LiveHandle, JoinTry
<1>11. JoinerSound(c)'
  BY <1>1, <1>2, <1>4, <1>5, <1>6 DEF JoinerSound, JoinTry
<1>12. handle'[k] = "live"
  BY <1>2 DEF JoinTry
<1>. QED
  BY <1>1, <1>2, <1>7, <1>8, <1>9, <1>10, <1>11, <1>12, JoinerStep

\* pthread_timedjoin_np() ends for lack of time, and the joiner gives up or not.
LEMMA BeforeJoinTimeout ==
  ASSUME Core, Before, Apart, OneJoiner, halt.pc = "no", UNCHANGED doing, NEW c \in Joiners, JoinTimeout(c)
  PROVE  Before'
<1>. USE DEF slots, threads, ld
<1>1. cpc[c] = "joining"
  BY DEF JoinTimeout
<1>2. PICK k \in Threads :
        /\ k = of[c] /\ slot[k] = at[c] /\ at[c] \in Slots /\ at[c] # Nil
        /\ handle[k] = "live" /\ info[k] = at[c] /\ owner[at[c]] = k
        /\ ~listed[at[c]] /\ ~detached[at[c]]
        /\ c \in Clients /\ \A d \in Joiners : d = c
        /\ JoinerSound(c) /\ LiveHandle(k) /\ Unasked(k)
  BY <1>1, JoinerHas, LifeAssumption
<1>3. Target(c) = k
  BY <1>1, <1>2, TargetMeant DEF Core, JoinerSound
<1>4. /\ os[k] = "running" /\ joinid' = [joinid EXCEPT ![k] = Nil] /\ UNCHANGED os
      /\ \/ cpc' = [cpc EXCEPT ![c] = "join"] /\ UNCHANGED <<of, at>>
         \/ /\ cpc' = [cpc EXCEPT ![c] = "idle"] /\ of' = [of EXCEPT ![c] = 0]
            /\ at' = [at EXCEPT ![c] = Nil]
  BY <1>3 DEF JoinTimeout, Client, Leave
<1>5. /\ cpc \in [Clients -> ClientPlaces] /\ joinid \in [Threads -> Joiners \cup {TheGC, Nil, Detached, Main}]
      /\ of \in [Clients -> 0..MaxThreads] /\ at \in [Clients -> Slots \cup {Nil}]
      /\ Detached # Nil
  BY Fields, LifeAssumption DEF Core
<1>6. \A x \in Threads : x # k => SameThread(x)
  BY <1>4, <1>5 DEF SameThread, JoinTimeout
<1>7. \A d \in Clients : d # c => SameClient(d)
  BY <1>4, <1>5 DEF SameClient
<1>8. Unasked(k)'
  BY <1>2, <1>4, <1>5 DEF Unasked, JoinTimeout
<1>9. LiveHandle(k)'
  <2>1. status[at[c]] = "UNUSED" => pc[k] = "unlink"
    BY <1>1, <1>2 DEF LiveHandle
  <2>2. status[at[c]] # "JOINED"
    BY <1>1, <1>2 DEF LiveHandle
  <2>. QED
    BY <1>2, <1>4, <1>5, <2>1, <2>2 DEF LiveHandle, JoinTimeout
<1>10. JoinerSound(c)'
  BY <1>1, <1>2, <1>4, <1>5 DEF JoinerSound, JoinTimeout
<1>11. handle'[k] = "live"
  BY <1>2 DEF JoinTimeout
<1>. QED
  BY <1>1, <1>2, <1>6, <1>7, <1>8, <1>9, <1>10, <1>11, JoinerStep

\* pthread_timedjoin_np() ends: nobody else joins the thread.
LEMMA BeforeJoinEnded ==
  ASSUME Core, Before, Apart, OneJoiner, halt.pc = "no", UNCHANGED doing, NEW c \in Joiners, JoinEnded(c)
  PROVE  Before'
<1>. USE DEF slots, threads, ld
<1>1. cpc[c] = "joining"
  BY DEF JoinEnded
<1>2. PICK k \in Threads :
        /\ k = of[c] /\ k <= created /\ slot[k] = at[c] /\ at[c] \in Slots /\ at[c] # Nil
        /\ handle[k] = "live" /\ info[k] = at[c] /\ owner[at[c]] = k
        /\ ~listed[at[c]] /\ ~detached[at[c]]
        /\ c \in Clients /\ \A d \in Joiners : d = c
        /\ JoinerSound(c) /\ LiveHandle(k) /\ Unasked(k)
  BY <1>1, JoinerHas, LifeAssumption
<1>3. Target(c) = k
  BY <1>1, <1>2, TargetMeant DEF Core, JoinerSound
<1>4. /\ os[k] = "ended" /\ os' = [os EXCEPT ![k] = "gone"] /\ cpc' = [cpc EXCEPT ![c] = "status"]
      /\ UNCHANGED <<of, at, joinid>>
  BY <1>3 DEF JoinEnded, Client
<1>5. /\ cpc \in [Clients -> ClientPlaces]
      /\ os \in [Threads -> {"none", "running", "ended", "gone"}]
  BY Fields DEF Core
<1>6. pc[k] = "dead" /\ ~Invalid(status[at[c]])
  <2>1. pc[k] = "dead"
    BY <1>2, <1>4 DEF Core, Born
  <2>2. status[at[c]] # "RESERVED"
    BY <1>2, LifeAssumption DEF Core, Reserved, Threads
  <2>3. status[at[c]] # "UNUSED" /\ status[at[c]] # "JOINED"
    BY <1>1, <1>2, <2>1 DEF LiveHandle
  <2>. QED
    BY <2>1, <2>2, <2>3 DEF Invalid
<1>7. \A x \in Threads : x # k => SameThread(x)
  BY <1>4, <1>5 DEF SameThread, JoinEnded
<1>8. \A d \in Clients : d # c => SameClient(d)
  BY <1>4, <1>5 DEF SameClient
<1>9. Unasked(k)'
  BY <1>2, <1>4 DEF Unasked, JoinEnded
<1>10. LiveHandle(k)'
  <2>1. Joined(c, k)'
    BY <1>2, <1>4, <1>5 DEF Joined
  <2>. QED
    BY <1>2, <1>6, <2>1 DEF LiveHandle, JoinEnded, Invalid
<1>11. JoinerSound(c)'
  BY <1>1, <1>2, <1>4, <1>5, <1>6 DEF JoinerSound, JoinEnded, Invalid
<1>12. handle'[k] = "live"
  BY <1>2 DEF JoinEnded
<1>. QED
  BY <1>1, <1>2, <1>7, <1>8, <1>9, <1>10, <1>11, <1>12, JoinerStep

\* thread_join/2 finds the status as the thread left it.
LEMMA BeforeJoinStatus ==
  ASSUME Core, Before, Apart, OneJoiner, halt.pc = "no", UNCHANGED doing, NEW c \in Joiners, JoinStatus(c)
  PROVE  Before'
<1>. USE DEF slots, threads, posix, ld
<1>1. cpc[c] = "status"
  BY DEF JoinStatus
<1>2. PICK k \in Threads :
        /\ k = of[c] /\ slot[k] = at[c] /\ at[c] \in Slots /\ at[c] # Nil
        /\ handle[k] = "live" /\ info[k] = at[c] /\ owner[at[c]] = k
        /\ ~listed[at[c]] /\ ~detached[at[c]]
        /\ c \in Clients /\ \A d \in Joiners : d = c
        /\ JoinerSound(c) /\ LiveHandle(k) /\ Unasked(k)
  BY <1>1, JoinerHas, LifeAssumption
<1>3. ~Invalid(status[at[c]])
  BY <1>1, <1>2 DEF JoinerSound
<1>4. /\ status' = [status EXCEPT ![at[c]] = "JOINED"] /\ cpc' = [cpc EXCEPT ![c] = "free"]
      /\ UNCHANGED <<of, at>>
  BY <1>3 DEF JoinStatus, Client
<1>5. cpc \in [Clients -> ClientPlaces] /\ status \in [Slots -> Statuses]
  BY Fields DEF Core
<1>6. \A x \in Threads : x # k => SameThread(x)
  <2>. SUFFICES ASSUME NEW x \in Threads, x # k PROVE SameThread(x)
    OBVIOUS
  <2>1. owner[slot[x]] = x => slot[x] # at[c]
    BY <1>2
  <2>2. slot[x] \in Slots /\ owner[slot[x]] = x => status'[slot[x]] = status[slot[x]]
    BY <1>4, <1>5, <2>1
  <2>. QED
    BY <2>2 DEF SameThread, JoinStatus
<1>7. \A d \in Clients : d # c => SameClient(d)
  BY <1>4, <1>5 DEF SameClient
<1>8. Unasked(k)'
  BY <1>2 DEF Unasked, JoinStatus
<1>9. cpc'[c] = "free" /\ status'[at[c]] = "JOINED"
  BY <1>2, <1>4, <1>5
<1>10. LiveHandle(k)'
  <2>1. Joined(c, k)'
    BY <1>2, <1>4, <1>9 DEF Joined
  <2>. QED
    BY <1>2, <1>4, <1>9, <2>1 DEF LiveHandle, JoinStatus
<1>11. JoinerSound(c)'
  BY <1>1, <1>2, <1>4, <1>9 DEF JoinerSound, JoinStatus
<1>12. handle'[k] = "live"
  BY <1>2 DEF JoinStatus
<1>. QED
  BY <1>1, <1>2, <1>6, <1>7, <1>8, <1>10, <1>11, <1>12, JoinerStep

\* What thread gc has while it is busy.
LEMMA CollectorHas ==
  ASSUME Core, Before, cpc[TheGC] # "idle"
  PROVE  /\ of[TheGC] \in Threads /\ slot[of[TheGC]] = at[TheGC] /\ at[TheGC] \in Slots
         /\ handle[of[TheGC]] = "none" /\ of[TheGC] <= created
         /\ TheGC \in Clients /\ TheGC \notin Joiners /\ TheGC \notin Detachers
         /\ owner[at[TheGC]] = of[TheGC] /\ Forgotten(of[TheGC])
         /\ cpc[TheGC] # "unlink" => ~Invalid(status[at[TheGC]])
         /\ Unasked(of[TheGC]) /\ CollectorSound
<1>1. CollectorSound /\ Claims(TheGC) /\ TheGC \in Clients
  BY DEF Before, Core, Claimed, Clients
<1>2. /\ of[TheGC] \in Threads /\ of[TheGC] <= created
      /\ slot[of[TheGC]] = at[TheGC] /\ at[TheGC] \in Slots
  BY <1>1, ClaimedThread DEF Core
<1>3. Unasked(of[TheGC])
  BY <1>2 DEF Before
<1>. QED
  BY <1>1, <1>2, <1>3, LifeAssumption DEF CollectorSound, Forgotten

\* Thread gc finds that the thread is not detached.
LEMMA BeforeDiscardTest ==
  ASSUME Core, Before, Apart, OneJoiner, halt.pc = "no", UNCHANGED doing, DiscardTest
  PROVE  Before'
<1>. USE DEF slots, threads, posix, ld
<1>1. cpc[TheGC] = "gctest"
  BY DEF DiscardTest
<1>2. PICK k \in Threads :
        /\ k = of[TheGC] /\ k <= created /\ slot[k] = at[TheGC] /\ at[TheGC] \in Slots
        /\ handle[k] = "none" /\ TheGC \in Clients /\ Unasked(k) /\ Forgotten(k)
        /\ ~Invalid(status[at[TheGC]]) /\ CollectorSound
  BY <1>1, CollectorHas
<1>3. cpc' = [cpc EXCEPT ![TheGC] = "gcjoin"]
  BY CollectorTests DEF DiscardTest
<1>4. cpc \in [Clients -> ClientPlaces]
  BY Fields DEF Core
<1>5. joinid[k] = Nil /\ os[k] # "gone"
  BY <1>1, <1>2, <1>3 DEF CollectorSound
<1>6. \A x \in Threads : x # k => SameThread(x)
  BY <1>2, <1>3, <1>4 DEF SameThread, DiscardTest
<1>7. \A d \in Clients : d # TheGC => SameClient(d)
  BY <1>3, <1>4 DEF SameClient, DiscardTest
<1>8. Unasked(k)'
  BY <1>2, <1>3, <1>4, <1>5, Names DEF Unasked, DiscardTest
<1>9. handle'[k] = "none"
  BY <1>2 DEF DiscardTest
<1>10. CollectorSound'
  <2>1. Forgotten(k)' /\ ~Invalid(status'[at[TheGC]])
    BY <1>2 DEF Forgotten, DiscardTest
  <2>2. cpc'[TheGC] = "gcjoin" /\ of'[TheGC] = k /\ at'[TheGC] = at[TheGC]
    BY <1>2, <1>3, <1>4 DEF DiscardTest
  <2>3. joinid'[k] = Nil /\ os'[k] # "gone"
    BY <1>2, <1>3, <1>4, <1>5 DEF DiscardTest
  <2>. QED
    BY <1>1, <1>2, <1>9, <2>1, <2>2, <2>3 DEF CollectorSound
<1>. QED
  BY <1>1, <1>2, <1>6, <1>7, <1>8, <1>9, <1>10, CollectorStep

\* pthread_join() by thread gc waits.
LEMMA BeforeDiscardJoin ==
  ASSUME Core, Before, Apart, OneJoiner, halt.pc = "no", UNCHANGED doing, DiscardJoin
  PROVE  Before'
<1>. USE DEF slots, threads, posix, ld
<1>1. cpc[TheGC] = "gcjoin"
  BY DEF DiscardJoin
<1>2. PICK k \in Threads :
        /\ k = of[TheGC] /\ k <= created /\ slot[k] = at[TheGC] /\ at[TheGC] \in Slots
        /\ handle[k] = "none" /\ TheGC \in Clients /\ Unasked(k) /\ Forgotten(k)
        /\ ~Invalid(status[at[TheGC]]) /\ CollectorSound
  BY <1>1, CollectorHas
<1>3. cpc' = [cpc EXCEPT ![TheGC] = "gcjoining"] /\ joinid' = [joinid EXCEPT ![k] = TheGC]
  BY <1>2, CollectorJoins DEF DiscardJoin
<1>4. cpc \in [Clients -> ClientPlaces] /\ joinid \in [Threads -> Joiners \cup {TheGC, Nil, Detached, Main}]
  BY Fields DEF Core
<1>5. joinid[k] = Nil /\ os[k] # "gone"
  BY <1>1, <1>2, <1>3 DEF CollectorSound
<1>6. \A x \in Threads : x # k => SameThread(x)
  BY <1>2, <1>3, <1>4 DEF SameThread, DiscardJoin
<1>7. \A d \in Clients : d # TheGC => SameClient(d)
  BY <1>3, <1>4 DEF SameClient, DiscardJoin
<1>8. Unasked(k)'
  BY <1>2, <1>3, <1>4, <1>5, Names DEF Unasked, DiscardJoin
<1>9. handle'[k] = "none"
  BY <1>2 DEF DiscardJoin
<1>10. CollectorSound'
  <2>1. Forgotten(k)' /\ ~Invalid(status'[at[TheGC]])
    BY <1>2 DEF Forgotten, DiscardJoin
  <2>2. cpc'[TheGC] = "gcjoining" /\ of'[TheGC] = k /\ at'[TheGC] = at[TheGC]
    BY <1>2, <1>3, <1>4 DEF DiscardJoin
  <2>3. joinid'[k] = TheGC /\ os'[k] # "gone"
    BY <1>2, <1>3, <1>4, <1>5 DEF DiscardJoin
  <2>. QED
    BY <1>1, <1>2, <1>9, <2>1, <2>2, <2>3 DEF CollectorSound
<1>. QED
  BY <1>1, <1>2, <1>6, <1>7, <1>8, <1>9, <1>10, CollectorStep

\* pthread_join() by thread gc ends.
LEMMA BeforeDiscardJoined ==
  ASSUME Core, Before, Apart, OneJoiner, halt.pc = "no", UNCHANGED doing, DiscardJoined
  PROVE  Before'
<1>. USE DEF slots, threads, posix, ld
<1>1. cpc[TheGC] = "gcjoining"
  BY DEF DiscardJoined
<1>2. PICK k \in Threads :
        /\ k = of[TheGC] /\ k <= created /\ slot[k] = at[TheGC] /\ at[TheGC] \in Slots
        /\ handle[k] = "none" /\ TheGC \in Clients /\ Unasked(k) /\ Forgotten(k)
        /\ ~Invalid(status[at[TheGC]]) /\ CollectorSound
  BY <1>1, CollectorHas
<1>3. cpc' = [cpc EXCEPT ![TheGC] = "gcwait"] /\ os' = [os EXCEPT ![k] = "gone"]
  BY <1>2, CollectorJoined DEF DiscardJoined
<1>4. cpc \in [Clients -> ClientPlaces] /\ os \in [Threads -> {"none", "running", "ended", "gone"}]
  BY Fields DEF Core
<1>5. joinid[k] = TheGC
  BY <1>1, <1>2, <1>3 DEF CollectorSound
<1>6. \A x \in Threads : x # k => SameThread(x)
  BY <1>2, <1>3, <1>4 DEF SameThread, DiscardJoined
<1>7. \A d \in Clients : d # TheGC => SameClient(d)
  BY <1>3, <1>4 DEF SameClient, DiscardJoined
<1>8. Unasked(k)'
  BY <1>2, <1>3, <1>4, <1>5, Names DEF Unasked, DiscardJoined
<1>9. handle'[k] = "none"
  BY <1>2 DEF DiscardJoined
<1>10. CollectorSound'
  <2>1. Forgotten(k)' /\ ~Invalid(status'[at[TheGC]])
    BY <1>2 DEF Forgotten, DiscardJoined
  <2>2. cpc'[TheGC] = "gcwait" /\ of'[TheGC] = k /\ at'[TheGC] = at[TheGC]
    BY <1>2, <1>3, <1>4 DEF DiscardJoined
  <2>3. os'[k] = "gone"
    BY <1>2, <1>3, <1>4, <1>5 DEF DiscardJoined
  <2>. QED
    BY <1>1, <1>2, <1>9, <2>1, <2>2, <2>3 DEF CollectorSound
<1>. QED
  BY <1>1, <1>2, <1>6, <1>7, <1>8, <1>9, <1>10, CollectorStep

\* Thread gc has seen the local data go.
LEMMA BeforeDiscardWait ==
  ASSUME Core, Before, Apart, OneJoiner, halt.pc = "no", UNCHANGED doing, DiscardWait
  PROVE  Before'
<1>. USE DEF slots, threads, posix, ld
<1>1. cpc[TheGC] = "gcwait"
  BY DEF DiscardWait
<1>2. PICK k \in Threads :
        /\ k = of[TheGC] /\ slot[k] = at[TheGC] /\ at[TheGC] \in Slots
        /\ handle[k] = "none" /\ TheGC \in Clients /\ Unasked(k)
        /\ Forgotten(k) /\ ~Invalid(status[at[TheGC]]) /\ os[k] = "gone"
        /\ CollectorSound
  BY <1>1, CollectorHas DEF CollectorSound
<1>3. cpc' = [cpc EXCEPT ![TheGC] = "free"] /\ UNCHANGED <<of, at>>
  BY DEF DiscardWait, Client
<1>4. cpc \in [Clients -> ClientPlaces]
  BY Fields DEF Core
<1>6. \A x \in Threads : x # k => SameThread(x)
  BY DEF SameThread, DiscardWait
<1>7. \A d \in Clients : d # TheGC => SameClient(d)
  BY <1>3, <1>4 DEF SameClient
<1>8. Unasked(k)'
  BY <1>2 DEF Unasked, DiscardWait
<1>9. handle'[k] = "none"
  BY <1>2 DEF DiscardWait
<1>10. CollectorSound'
  <2>1. Forgotten(k)' /\ ~Invalid(status'[at[TheGC]]) /\ os'[k] = "gone"
    BY <1>2 DEF Forgotten, DiscardWait
  <2>2. cpc'[TheGC] = "free"
    BY <1>2, <1>3, <1>4
  <2>. QED
    BY <1>1, <1>2, <1>3, <1>9, <2>1, <2>2 DEF CollectorSound
<1>. QED
  BY <1>1, <1>2, <1>6, <1>7, <1>8, <1>9, <1>10, CollectorStep

\* free_thread_info() by a client marks the slot: it has the thread to itself.
LEMMA BeforeMarkOther ==
  ASSUME Core, Before, Apart, OneJoiner, halt.pc = "no", UNCHANGED doing, NEW c \in Clients, MarkOther(c)
  PROVE  Before'
<1>. USE DEF slots, threads, posix, ld
<1>1. cpc[c] = "free"
  BY DEF MarkOther
<1>2. /\ status' = [status EXCEPT ![at[c]] = "UNUSED"] /\ cpc' = [cpc EXCEPT ![c] = "unlink"]
      /\ detached' = [detached EXCEPT ![at[c]] = detached[at[c]] /\ ~thread_data[at[c]]]
      /\ UNCHANGED <<of, at>>
  BY DEF MarkOther, Mark, Client
<1>3. cpc \in [Clients -> ClientPlaces] /\ status \in [Slots -> Statuses]
      /\ detached \in [Slots -> BOOLEAN]
  BY Fields DEF Core
<1>4. \A d \in Clients : d # c => SameClient(d)
  BY <1>2, <1>3 DEF SameClient
<1>5. cpc'[c] = "unlink"
  BY <1>2, <1>3
<1>6. ASSUME NEW x \in Threads, owner[at[c]] # x PROVE SameThread(x)
  <2>1. owner[slot[x]] = x => slot[x] # at[c]
    BY <1>6
  <2>2. slot[x] \in Slots /\ owner[slot[x]] = x =>
          status'[slot[x]] = status[slot[x]] /\ detached'[slot[x]] = detached[slot[x]]
    BY <1>2, <1>3, <2>1
  <2>. QED
    BY <2>2 DEF SameThread, MarkOther
<1>7. CASE c \in Joiners
  <2>1. PICK k \in Threads :
        /\ k = of[c] /\ slot[k] = at[c] /\ at[c] \in Slots /\ at[c] # Nil
        /\ handle[k] = "live" /\ info[k] = at[c] /\ owner[at[c]] = k
        /\ ~listed[at[c]] /\ ~detached[at[c]] /\ joinid[k] # Detached
        /\ pc[k] \notin {"free", "unlink"}
        /\ JoinerSound(c) /\ LiveHandle(k) /\ Unasked(k)
    BY <1>1, <1>7, JoinerHas, LifeAssumption
  <2>2. status'[at[c]] = "UNUSED" /\ ~detached'[at[c]]
    BY <1>2, <1>3, <2>1
  <2>3. Unasked(k)'
    BY <2>1 DEF Unasked, MarkOther
  <2>4. LiveHandle(k)'
    <3>1. Joined(c, k)' /\ of'[c] = k
      BY <1>2, <1>5, <2>1 DEF Joined
    <3>. QED
      BY <1>5, <1>7, <2>1, <2>2, <3>1 DEF LiveHandle, MarkOther
  <2>5. JoinerSound(c)'
    BY <1>1, <1>2, <1>5, <2>1, <2>2 DEF JoinerSound, MarkOther
  <2>6. handle'[k] = "live"
    BY <2>1 DEF MarkOther
  <2>. QED
    BY <1>1, <1>4, <1>6, <1>7, <2>1, <2>3, <2>4, <2>5, <2>6, JoinerStep
<1>8. CASE c = TheGC
  <2>1. PICK k \in Threads :
        /\ k = of[TheGC] /\ slot[k] = at[TheGC] /\ at[TheGC] \in Slots /\ owner[at[TheGC]] = k
        /\ handle[k] = "none" /\ Unasked(k) /\ Forgotten(k) /\ os[k] = "gone" /\ k <= created
        /\ CollectorSound
    BY <1>1, <1>8, CollectorHas DEF CollectorSound
  <2>2. ~detached'[at[TheGC]]
    BY <1>2, <1>3, <1>8, <2>1 DEF Forgotten
  <2>3. Unasked(k)'
    <3>1. pc[k] = "dead"
      BY <2>1 DEF Core, Born
    <3>. QED
      BY <2>1, <3>1, LifeAssumption DEF Unasked, MarkOther, Forgotten
  <2>4. handle'[k] = "none"
    BY <2>1 DEF MarkOther
  <2>5. CollectorSound'
    <3>1. Forgotten(k)' /\ os'[k] = "gone"
      BY <2>1, <2>2 DEF Forgotten, MarkOther
    <3>. QED
      BY <1>1, <1>2, <1>5, <1>8, <2>1, <2>4, <3>1 DEF CollectorSound
  <2>. QED
    BY <1>1, <1>4, <1>6, <1>8, <2>1, <2>3, <2>4, <2>5, CollectorStep
<1>. QED
  BY <1>1, <1>7, <1>8 DEF Before, Clients

\* free_thread_info() by a client lists the slot.
LEMMA BeforeUnlinkOther ==
  ASSUME Core, Before, Apart, OneJoiner, halt.pc = "no", UNCHANGED doing, NEW c \in Clients, UnlinkOther(c)
  PROVE  Before'
<1>. USE DEF slots, threads, posix, ld
<1>1. cpc[c] = "unlink"
  BY DEF UnlinkOther
<1>2. /\ cpc' = [cpc EXCEPT ![c] = "idle"]
      /\ of' = [of EXCEPT ![c] = 0] /\ at' = [at EXCEPT ![c] = Nil]
      /\ listed' = [listed EXCEPT ![at[c]] = TRUE]
      /\ info' = [x \in Threads |-> IF x = owner[at[c]] /\ handle[x] = "live" THEN Nil
                                                                              ELSE info[x]]
  BY DEF UnlinkOther, Unlink, Client, Leave
<1>3. /\ cpc \in [Clients -> ClientPlaces] /\ listed \in [Slots -> BOOLEAN]
      /\ of \in [Clients -> 0..MaxThreads] /\ at \in [Clients -> Slots \cup {Nil}]
  BY Fields DEF Core
<1>4. \A d \in Clients : d # c => SameClient(d)
  BY <1>2, <1>3 DEF SameClient
<1>5. cpc'[c] = "idle"
  BY <1>2, <1>3
<1>6. ASSUME NEW x \in Threads, owner[at[c]] # x PROVE SameThread(x)
  <2>1. owner[slot[x]] = x => slot[x] # at[c]
    BY <1>6
  <2>2. slot[x] \in Slots /\ owner[slot[x]] = x => listed'[slot[x]] = listed[slot[x]]
    BY <1>2, <1>3, <2>1
  <2>3. info'[x] = info[x]
    BY <1>2, <1>6
  <2>. QED
    BY <2>2, <2>3 DEF SameThread, UnlinkOther
<1>7. CASE c \in Joiners
  <2>1. PICK k \in Threads :
        /\ k = of[c] /\ handle[k] = "live" /\ owner[at[c]] = k /\ Unasked(k)
    BY <1>1, <1>7, JoinerHas, LifeAssumption
  <2>2. Unasked(k)'
    BY <2>1 DEF Unasked, UnlinkOther
  <2>3. LiveHandle(k)'
    BY <1>2, <2>1 DEF LiveHandle
  <2>4. JoinerSound(c)'
    BY <1>5 DEF JoinerSound
  <2>5. handle'[k] = "live"
    BY <2>1 DEF UnlinkOther
  <2>. QED
    BY <1>1, <1>4, <1>6, <1>7, <2>1, <2>2, <2>3, <2>4, <2>5, JoinerStep
<1>8. CASE c = TheGC
  <2>1. PICK k \in Threads :
        /\ k = of[TheGC] /\ owner[at[TheGC]] = k /\ handle[k] = "none" /\ Unasked(k)
    BY <1>1, <1>8, CollectorHas
  <2>2. Unasked(k)'
    BY <2>1 DEF Unasked, UnlinkOther
  <2>3. handle'[k] = "none"
    BY <2>1 DEF UnlinkOther
  <2>4. CollectorSound'
    BY <1>5, <1>8 DEF CollectorSound
  <2>. QED
    BY <1>1, <1>4, <1>6, <1>8, <2>1, <2>2, <2>3, <2>4, CollectorStep
<1>. QED
  BY <1>1, <1>7, <1>8 DEF Before, Clients

\* A handle becomes garbage: the thread is not detached, and nobody deals with it.
LEMMA BeforeCollectHandle ==
  ASSUME Core, Before, Apart, OneJoiner, halt.pc = "no", UNCHANGED doing, NEW k \in Threads,
         CollectHandle(k)
  PROVE  Before'
<1>. USE DEF slots, posix, ld, clients
<1>1. handle[k] = "live" /\ LiveHandle(k) /\ Unasked(k)
      /\ \A c \in Clients : of[c] # k
  BY DEF CollectHandle, Before
<1>2. handle' = [handle EXCEPT ![k] = IF info[k] = Nil THEN "none" ELSE "garbage"]
  BY DEF CollectHandle
<1>3. handle \in [Threads -> {"live", "garbage", "none"}]
  BY Fields DEF Core
<1>4. \A x \in Threads : x # k => SameThread(x)
  BY <1>2, <1>3 DEF SameThread, CollectHandle
<1>5. Unasked(k)'
  BY <1>1 DEF Unasked, CollectHandle
<1>6. handle'[k] # "live"
  BY <1>2, <1>3
<1>7. LiveHandle(k)'
  BY <1>6 DEF LiveHandle
<1>8. GarbageHandle(k)'
  <2>. SUFFICES ASSUME handle'[k] = "garbage" PROVE GarbageHandle(k)'
    BY DEF GarbageHandle
  <2>1. info[k] # Nil /\ ~detached[info[k]]
    BY <1>2, <1>3 DEF CollectHandle
  <2>2. k <= created /\ slot[k] \in Slots /\ info[k] = slot[k]
        /\ owner[slot[k]] = k /\ ~listed[slot[k]]
    BY <1>1, <2>1, HandleHas
  <2>3. joinid[k] = Nil /\ os[k] # "gone"
    BY <1>1, <2>1, <2>2 DEF LiveHandle, Unasked, Joined, Clients
  <2>4. status[slot[k]] # "RESERVED"
    BY <2>2, LifeAssumption DEF Core, Reserved, Threads
  <2>5. status[slot[k]] # "UNUSED" /\ status[slot[k]] # "JOINED"
    BY <1>1, <2>1, <2>2 DEF LiveHandle, Unasked, Clients
  <2>. QED
    BY <2>1, <2>2, <2>3, <2>4, <2>5 DEF GarbageHandle, Forgotten, Invalid, CollectHandle
<1>9. UNCHANGED clients
  BY DEF CollectHandle
<1>. QED
  BY <1>1, <1>4, <1>5, <1>7, <1>8, <1>9, ThreadKept DEF Clients

\* thread_detach/1 finds a thread that nobody joins.
LEMMA BeforeDetach ==
  ASSUME Core, Before, Apart, OneJoiner, halt.pc = "no", UNCHANGED doing, NEW c \in Detachers, Detach(c)
  PROVE  Before'
<1>. USE DEF threads, ld
<1>1. PICK k \in Threads :
           /\ k <= created /\ handle[k] = "live" /\ info[k] = slot[k] /\ slot[k] \in Slots
           /\ owner[slot[k]] = k /\ ~listed[slot[k]] /\ ~Invalid(status[slot[k]])
           /\ ~detached[slot[k]] /\ joinid[k] = Nil /\ os[k] # "gone"
           /\ PthreadDetach(k) /\ detached' = [detached EXCEPT ![slot[k]] = TRUE]
           /\ UNCHANGED clients
  BY DetachFinds
<1>2. UNCHANGED <<status, owner, listed, threads, ld, pc>>
  BY DEF Detach
<1>3. /\ \A x \in Threads : x # k => joinid'[x] = joinid[x] /\ os'[x] = os[x]
      /\ joinid'[k] \in {Nil, Detached}
  BY <1>1, DetachEffect DEF Core
<1>4. detached \in [Slots -> BOOLEAN]
  BY Fields DEF Core
<1>5. ASSUME NEW x \in Threads, x # k PROVE SameThread(x)
  <2>1. owner[slot[x]] = x => slot[x] # slot[k]
    BY <1>1, <1>5
  <2>2. slot[x] \in Slots /\ owner[slot[x]] = x => detached'[slot[x]] = detached[slot[x]]
    BY <1>1, <1>4, <2>1
  <2>. QED
    BY <1>2, <1>3, <1>5, <2>2 DEF SameThread
<1>6. detached'[slot[k]]
  BY <1>1, <1>4
<1>7. Unasked(k)'
  <2>1. Unasked(k)
    BY DEF Before
  <2>. QED
    BY <1>2, <1>6, <2>1 DEF Unasked
<1>8. LiveHandle(k)'
  BY <1>1, <1>2, <1>3, <1>6 DEF LiveHandle, Invalid
<1>9. GarbageHandle(k)'
  BY <1>1, <1>2 DEF GarbageHandle
<1>10. \A d \in Joiners : cpc[d] = "idle"
  <2>1. "join" \notin doing
    BY DEF Apart, Detach, Core, Typed
  <2>. QED
    BY <2>1 DEF Before, JoinerSound
<1>11. cpc[TheGC] # "idle" => of[TheGC] # k
  BY <1>1 DEF Before, CollectorSound
<1>. QED
  BY <1>1, <1>5, <1>7, <1>8, <1>9, <1>10, <1>11, ThreadKept

\* discard_thread() detaches the thread, or takes it for itself.
LEMMA BeforeDiscard ==
  ASSUME Core, Before, Apart, OneJoiner, halt.pc = "no", UNCHANGED doing, NEW k \in Threads, Discard(k)
  PROVE  Before'
<1>. USE DEF posix, ld
<1>1. handle[k] = "garbage" /\ cpc[TheGC] = "idle" /\ GarbageHandle(k)
      /\ handle' = [handle EXCEPT ![k] = "none"]
      /\ UNCHANGED <<status, owner, listed, created, slot, pthread, info, ld, pc>>
  BY DEF Discard, Before
<1>2. slot[k] \in Slots /\ info[k] = slot[k]
  BY <1>1, HandleHas
<1>3. /\ handle \in [Threads -> {"live", "garbage", "none"}] /\ detached \in [Slots -> BOOLEAN]
      /\ cpc \in [Clients -> ClientPlaces] /\ at \in [Clients -> Slots \cup {Nil}]
      /\ of \in [Clients -> 0..MaxThreads] /\ TheGC \in Clients
  BY Fields DEF Core, Clients
<1>4. handle'[k] = "none" /\ \A x \in Threads : x # k => handle'[x] = handle[x]
  BY <1>1, <1>3
<1>5. LiveHandle(k)' /\ GarbageHandle(k)'
  BY <1>4 DEF LiveHandle, GarbageHandle
<1>6. \A d \in Joiners : cpc[d] # "idle" => of[d] # k
  BY <1>1 DEF Before, JoinerSound
<1>7. Unasked(k)
  BY DEF Before
<1>8. CASE UNCHANGED <<posix, detached>>
  <2>1. \A x \in Threads : x # k => SameThread(x)
    BY <1>1, <1>4, <1>8 DEF SameThread
  <2>2. Unasked(k)'
    BY <1>1, <1>7, <1>8 DEF Unasked
  <2>3. CASE UNCHANGED clients
    BY <1>1, <1>5, <1>6, <2>1, <2>2, <2>3, ThreadKept
  <2>4. CASE ~DetachesGarbage(info[k])
    <3>1. /\ cpc' = [cpc EXCEPT ![TheGC] = "gctest"] /\ of' = [of EXCEPT ![TheGC] = k]
          /\ at' = [at EXCEPT ![TheGC] = slot[k]]
      BY <1>2, <2>4 DEF Discard, Client
    <3>2. \A d \in Clients : d # TheGC => SameClient(d)
      BY <1>3, <3>1 DEF SameClient
    <3>3. cpc'[TheGC] = "gctest" /\ of'[TheGC] = k /\ at'[TheGC] = slot[k]
      BY <1>3, <3>1
    <3>4. CollectorSound'
      BY <1>1, <1>4, <1>8, <3>3 DEF CollectorSound, GarbageHandle, Forgotten
    <3>5. \A d \in Joiners : d # TheGC
      BY LifeAssumption
    <3>. QED
      BY <1>1, <1>5, <1>6, <2>1, <2>2, <3>2, <3>4, <3>5, ClientKept
  <2>. QED
    BY <2>3, <2>4 DEF Discard
<1>9. CASE DetachesGarbage(slot[k]) /\ has_tid[slot[k]]
  <2>1. /\ PthreadDetach(k) /\ detached' = [detached EXCEPT ![slot[k]] = TRUE]
        /\ UNCHANGED clients /\ owner[slot[k]] = k
    BY <1>1, <1>2, <1>9 DEF Discard, GarbageHandle, Forgotten
  <2>2. \A x \in Threads : x # k => joinid'[x] = joinid[x] /\ os'[x] = os[x]
    BY <2>1, DetachEffect DEF Core
  <2>3. ASSUME NEW x \in Threads, x # k PROVE SameThread(x)
    <3>1. owner[slot[x]] = x => slot[x] # slot[k]
      BY <2>1, <2>3
    <3>2. slot[x] \in Slots /\ owner[slot[x]] = x => detached'[slot[x]] = detached[slot[x]]
      BY <1>3, <2>1, <3>1
    <3>. QED
      BY <1>1, <1>4, <2>2, <2>3, <3>2 DEF SameThread
  <2>4. detached'[slot[k]]
    BY <1>2, <1>3, <2>1
  <2>5. Unasked(k)'
    BY <1>1, <1>7, <2>4 DEF Unasked
  <2>. QED
    BY <1>1, <1>5, <1>6, <2>1, <2>3, <2>5, ThreadKept
<1>. QED
  BY <1>2, <1>8, <1>9 DEF Discard

\* alloc_thread() takes a slot that no handle that is live shows.
LEMMA BeforeReserve ==
  ASSUME Core, Before, Apart, OneJoiner, halt.pc = "no", UNCHANGED doing, Reserve
  PROVE  Before'
<1>. USE DEF threads, posix, ld, clients
<1>1. PICK s \in Slots, d \in BOOLEAN :
        /\ listed[s] /\ listed' = [listed EXCEPT ![s] = FALSE]
        /\ status' = [status EXCEPT ![s] = "RESERVED"]
        /\ detached' = [detached EXCEPT ![s] = d] /\ owner' = [owner EXCEPT ![s] = 0]
  <2>1. Usable \subseteq Slots
    BY LifeAssumption DEF Usable
  <2>. QED
    BY <2>1 DEF Reserve
<1>2. UNCHANGED <<threads, posix, ld, pc, clients>>
  BY DEF Reserve
<1>3. /\ listed \in [Slots -> BOOLEAN] /\ detached \in [Slots -> BOOLEAN]
      /\ owner \in [Slots -> 0..created] /\ status \in [Slots -> Statuses]
  BY Fields DEF Core
<1>4. PICK J : J = {owner[s]}
  OBVIOUS
<1>5. ASSUME NEW x \in Threads \ J PROVE SameThread(x)
  <2>1. owner[s] # x /\ x # 0
    BY <1>4 DEF Threads
  <2>2. slot[x] \in Slots => (owner'[slot[x]] = x <=> owner[slot[x]] = x)
    BY <1>1, <1>3, <2>1
  <2>3. slot[x] \in Slots /\ owner[slot[x]] = x =>
          /\ status'[slot[x]] = status[slot[x]] /\ listed'[slot[x]] = listed[slot[x]]
          /\ detached'[slot[x]] = detached[slot[x]]
    BY <1>1, <1>3, <2>1
  <2>. QED
    BY <1>2, <2>2, <2>3 DEF SameThread
<1>6. \A c \in Clients \ {} : SameClient(c)
  BY <1>2 DEF SameClient
<1>7. ASSUME NEW x \in Threads \cap J PROVE Unasked(x)' /\ LiveHandle(x)' /\ GarbageHandle(x)'
  <2>1. owner[s] = x /\ slot[x] = s
    BY <1>4 DEF Core, Owned
  <2>2. owner'[s] # x
    BY <1>1, <1>3 DEF Threads
  <2>3. pc[x] \notin {"free", "unlink"}
    BY <1>1, <2>1 DEF Core, Occupied, Living
  <2>4. Unasked(x)'
    BY <1>2, <2>1, <2>2, <2>3 DEF Unasked, Before
  <2>5. LiveHandle(x)'
    BY <1>1, <1>2, <2>1, HandleHas DEF LiveHandle
  <2>6. GarbageHandle(x)'
    BY <1>1, <1>2, <2>1, LifeAssumption DEF GarbageHandle, Forgotten, Before
  <2>. QED
    BY <2>4, <2>5, <2>6
<1>8. ASSUME NEW c \in Clients, cpc[c] # "idle", of[c] \in J
      PROVE  FALSE
  <2>1. slot[of[c]] = at[c] /\ of[c] \in Threads
    BY <1>8, ClaimedThread DEF Core, Claimed, Claims
  <2>2. at[c] = s
    BY <1>4, <1>8, <2>1 DEF Core, Owned
  <2>. QED
    BY <1>1, <1>8, <2>2, SlotsHeld
<1>9. \A c \in Joiners : c \in {} \/ (cpc[c] # "idle" /\ of[c] \in J) => JoinerSound(c)'
  BY <1>8 DEF Clients
<1>10. TheGC \in {} \/ (cpc[TheGC] # "idle" /\ of[TheGC] \in J) => CollectorSound'
  BY <1>8 DEF Clients
<1>11. (\A c \in Joiners \cap {} : cpc[c] = "idle" \/ of[c] \in J)
       /\ (\A c \in Detachers \cap {} : cpc'[c] = "idle")
  OBVIOUS
<1>. QED
  BY <1>5, <1>6, <1>7, <1>9, <1>10, <1>11, BeforeKept

\* A slot that is given back was no thread's.
LEMMA BeforeAbandon ==
  ASSUME Core, Before, Apart, OneJoiner, halt.pc = "no", UNCHANGED doing, NEW s \in Slots, Abandon(s)
  PROVE  Before'
<1>. USE DEF posix, ld, clients
<1>1. owner[s] = 0 /\ status' = [status EXCEPT ![s] = "UNUSED"]
      /\ detached' = [detached EXCEPT ![s] = detached[s] /\ ~thread_data[s]]
      /\ listed' = [listed EXCEPT ![s] = TRUE]
      /\ info' = [x \in Threads |-> IF x = owner[s] /\ handle[x] = "live" THEN Nil ELSE info[x]]
  BY DEF Abandon, Mark, Unlink, Core, Reserved
<1>2. UNCHANGED <<owner, slot, handle, posix, ld, pc, clients>>
  BY DEF Abandon
<1>3. /\ listed \in [Slots -> BOOLEAN] /\ detached \in [Slots -> BOOLEAN]
      /\ status \in [Slots -> Statuses]
  BY Fields DEF Core
<1>4. ASSUME NEW x \in Threads \ {} PROVE SameThread(x)
  <2>1. x # 0
    BY DEF Threads
  <2>2. slot[x] \in Slots /\ owner[slot[x]] = x =>
          /\ status'[slot[x]] = status[slot[x]] /\ listed'[slot[x]] = listed[slot[x]]
          /\ detached'[slot[x]] = detached[slot[x]]
    BY <1>1, <1>3, <2>1
  <2>3. info'[x] = info[x]
    BY <1>1, <2>1
  <2>. QED
    BY <1>2, <2>2, <2>3 DEF SameThread
<1>5. \A c \in Clients \ {} : SameClient(c)
  BY <1>2 DEF SameClient
<1>6. /\ \A c \in Joiners \cap {} : cpc[c] = "idle" \/ of[c] \in {}
      /\ \A x \in Threads \cap {} : Unasked(x)' /\ LiveHandle(x)' /\ GarbageHandle(x)'
      /\ \A c \in Joiners : c \in {} \/ (cpc[c] # "idle" /\ of[c] \in {}) => JoinerSound(c)'
      /\ TheGC \in {} \/ (cpc[TheGC] # "idle" /\ of[TheGC] \in {}) => CollectorSound'
      /\ \A c \in Detachers \cap {} : cpc'[c] = "idle"
  OBVIOUS
<1>. QED
  BY <1>4, <1>5, <1>6, BeforeKept

\* A thread that is created is detached if its slot says so.
LEMMA BeforeCreate ==
  ASSUME Core, Before, Apart, OneJoiner, halt.pc = "no", UNCHANGED doing, NEW s \in Slots, Create(s)
  PROVE  Before'
<1>. USE DEF ld, clients
<1>1. PICK k : k = created + 1
  OBVIOUS
<1>2. k \in Threads /\ k > created /\ created \in Nat
  <2>1. created + 1 <= MaxThreads /\ created \in Nat /\ MaxThreads \in Nat
    BY Fields DEF Core, Typed, Create
  <2>. QED
    BY <1>1, <2>1 DEF Threads
<1>3. /\ status' = [status EXCEPT ![s] = "CREATED"] /\ owner' = [owner EXCEPT ![s] = k]
      /\ slot' = [slot EXCEPT ![k] = s] /\ info' = [info EXCEPT ![k] = s]
      /\ handle' = [handle EXCEPT ![k] = "live"] /\ os' = [os EXCEPT ![k] = "running"]
      /\ joinid' = [joinid EXCEPT ![k] = IF detached[s] THEN Detached ELSE Nil]
      /\ pc' = [pc EXCEPT ![k] = "start"]
      /\ UNCHANGED <<detached, listed, ld, clients>>
  BY <1>1 DEF Create, Goto
<1>4. owner[s] = 0 /\ ~listed[s]
  BY DEF Create, Core, Reserved
<1>5. /\ status \in [Slots -> Statuses] /\ owner \in [Slots -> 0..created]
      /\ slot \in [Threads -> Slots \cup {Nil}] /\ info \in [Threads -> Slots \cup {Nil}]
      /\ handle \in [Threads -> {"live", "garbage", "none"}]
      /\ os \in [Threads -> {"none", "running", "ended", "gone"}]
      /\ joinid \in [Threads -> Joiners \cup {TheGC, Nil, Detached, Main}] /\ pc \in [Threads -> Places]
      /\ Detached # Nil
  BY Fields, LifeAssumption DEF Core
<1>6. ASSUME NEW x \in Threads, x # k PROVE SameThread(x)
  <2>1. x # 0
    BY DEF Threads
  <2>2. slot[x] \in Slots => (owner'[slot[x]] = x <=> owner[slot[x]] = x)
    BY <1>3, <1>4, <1>5, <1>6, <2>1
  <2>3. slot[x] \in Slots /\ owner[slot[x]] = x => status'[slot[x]] = status[slot[x]]
    BY <1>3, <1>4, <1>5, <2>1
  <2>. QED
    BY <1>3, <1>5, <1>6, <2>2, <2>3 DEF SameThread
<1>7. /\ slot'[k] = s /\ info'[k] = s /\ handle'[k] = "live" /\ os'[k] = "running"
      /\ joinid'[k] = IF detached[s] THEN Detached ELSE Nil
      /\ pc'[k] = "start" /\ owner'[s] = k /\ status'[s] = "CREATED"
  BY <1>2, <1>3, <1>5
<1>8. Unasked(k)'
  BY <1>2, <1>3, <1>5, <1>7 DEF Unasked, Before
<1>9. LiveHandle(k)' /\ GarbageHandle(k)'
  BY <1>3, <1>4, <1>5, <1>7 DEF LiveHandle, GarbageHandle
<1>10. \A c \in Clients : cpc[c] # "idle" => of[c] # k
  <2>1. \A c \in Clients : cpc[c] # "idle" => of[c] <= created /\ of[c] \in Threads
    BY ClaimedThread DEF Core, Claimed
  <2>. QED
    BY <1>2, <2>1 DEF Threads
<1>. QED
  BY <1>2, <1>3, <1>6, <1>8, <1>9, <1>10, ThreadKept DEF Clients

\* A slot is given to a thread when the thread is created.
LEMMA OwnedKept ==
  ASSUME Typed, Born, Owned, [Next]_vars
  PROVE  Owned'
<1>. USE DEF slots, threads, posix, ld, clients
<1>1. CASE UNCHANGED <<owner, slot>>
  BY <1>1 DEF Owned
<1>2. CASE Reserve
  <2>1. PICK s : owner' = [owner EXCEPT ![s] = 0]
    BY <1>2 DEF Reserve
  <2>2. UNCHANGED slot /\ owner \in [Slots -> 0..created]
    BY <1>2, Fields DEF Reserve
  <2>3. 0 \notin Threads
    BY DEF Threads
  <2>. QED
    BY <2>1, <2>2, <2>3 DEF Owned
<1>3. ASSUME NEW s \in Slots, Create(s) PROVE Owned'
  <2>1. PICK k : k = created + 1 /\ owner' = [owner EXCEPT ![s] = k]
                 /\ slot' = [slot EXCEPT ![k] = s]
    BY <1>3 DEF Create
  <2>2. k \in Threads /\ owner \in [Slots -> 0..created] /\ created \in Nat
        /\ slot \in [Threads -> Slots \cup {Nil}]
    <3>1. created + 1 <= MaxThreads /\ created \in Nat /\ MaxThreads \in Nat
      BY <1>3, Fields DEF Typed, Create
    <3>. QED
      BY <2>1, <3>1, Fields DEF Threads
  <2>3. \A x \in Slots : owner[x] # k
    BY <2>1, <2>2
  <2>. QED
    BY <2>1, <2>2, <2>3 DEF Owned
<1>. QED
  BY <1>1, <1>2, <1>3
  DEF vars, Next, Step, Thread, Goal, Join, Collector, Halter, Abandon, SetTid, NoMem, Begin,
      DetachSelf, Complete, Acknowledge, Kill, ReleaseData, TestDetached, FreeSelf, MarkSelf,
      UnlinkSelf, Post, End, JoinFind, JoinTry, JoinTimeout, JoinEnded, JoinStatus, FreeOther,
      MarkOther, UnlinkOther, Detach, CollectHandle, Discard, DiscardTest, DiscardJoin,
      DiscardJoined, DiscardWait, HaltBegin, HaltLook, HaltJoin, HaltJoined, HaltRequest,
      HaltRaise, HaltWait

\* Handles are not discarded when the threads are told to exit.
LEMMA UndisturbedKept ==
  ASSUME DiscardAlone, IInv, [Next]_vars
  PROVE  Undisturbed'
<1>. USE DEF slots, threads, posix, ld, clients
<1>. SUFFICES ASSUME halt'.pc # "no" PROVE cpc'[TheGC] = "idle"
  BY DEF Undisturbed
<1>1. Typed /\ Undisturbed /\ (halt.pc = "no" => Before) /\ cpc \in [Clients -> ClientPlaces]
  BY Fields DEF IInv, Core
<1>2. CASE HaltBegin
  <2>1. "halt" \in doing /\ halt.pc = "no" /\ UNCHANGED cpc
    BY <1>2 DEF HaltBegin
  <2>2. "discard" \notin doing
    BY <1>1, <2>1 DEF DiscardAlone, Typed
  <2>. QED
    BY <1>1, <2>1, <2>2 DEF Before, CollectorSound
<1>3. CASE halt.pc = "no" /\ ~HaltBegin
  <2>1. ~Halter
    BY <1>3 DEF Halter, HaltLook, HaltJoin, HaltJoined, HaltRequest, HaltRaise, HaltWait
  <2>2. UNCHANGED halt \/ \E k \in Threads : Post(k)
    BY <1>3, <2>1
    DEF vars, Next, Step, Thread, Goal, Join, Collector, Reserve, Abandon, Create, SetTid, NoMem,
        Begin, DetachSelf, Complete, Acknowledge, Kill, ReleaseData, TestDetached, FreeSelf,
        MarkSelf, UnlinkSelf, End, JoinFind, JoinTry, JoinTimeout, JoinEnded, JoinStatus,
        FreeOther, MarkOther, UnlinkOther, Detach, CollectHandle, Discard, DiscardTest,
        DiscardJoin, DiscardJoined, DiscardWait
  <2>3. ASSUME NEW k \in Threads, Post(k) PROVE halt'.pc = halt.pc
    BY <1>1, <2>3 DEF Post, Typed
  <2>. QED
    BY <1>3, <2>2, <2>3
<1>4. CASE halt.pc # "no"
  <2>1. cpc[TheGC] = "idle"
    BY <1>1, <1>4 DEF Undisturbed
  <2>2. ASSUME NEW c \in Joiners, Join(c) \/ JoinTimeout(c) PROVE cpc'[TheGC] = cpc[TheGC]
    BY <1>1, <2>2, Names
    DEF Join, JoinTry, JoinTimeout, JoinEnded, JoinStatus, Client, Leave
  <2>3. ASSUME NEW c \in Clients, FreeOther(c) PROVE cpc'[TheGC] = cpc[TheGC]
    BY <1>1, <2>1, <2>3, Names DEF FreeOther, MarkOther, UnlinkOther, Client, Leave
  <2>. QED
    BY <1>4, <2>1, <2>2, <2>3
    DEF vars, Next, Step, Thread, Goal, Collector, Halter, Reserve, Abandon, Create, SetTid, NoMem,
        Begin, DetachSelf, Complete, Acknowledge, Kill, ReleaseData, TestDetached, FreeSelf,
        MarkSelf, UnlinkSelf, Post, End, JoinFind, Detach, CollectHandle, Discard, DiscardTest,
        DiscardJoin, DiscardJoined, DiscardWait, HaltBegin, HaltLook, HaltJoin, HaltJoined,
        HaltRequest, HaltRaise, HaltWait
<1>. QED
  BY <1>2, <1>3, <1>4

\* Thread gc is not kept from joining a thread.
LEMMA CollectorWaits ==
  ASSUME Typed, [Next]_vars, ~DiscardJoined, cpc[TheGC] = "gcjoining"
  PROVE  cpc'[TheGC] = "gcjoining" /\ of'[TheGC] = of[TheGC]
<1>. USE DEF slots, threads, posix, ld, clients
<1>1. cpc \in [Clients -> ClientPlaces] /\ of \in [Clients -> 0..MaxThreads]
  BY Fields
<1>2. ASSUME NEW c \in Joiners, JoinFind(c) \/ Join(c) \/ JoinTimeout(c)
      PROVE  cpc'[TheGC] = cpc[TheGC] /\ of'[TheGC] = of[TheGC]
  BY <1>1, <1>2, Names
  DEF JoinFind, Join, JoinTry, JoinTimeout, JoinEnded, JoinStatus, Client, Leave
<1>3. ASSUME NEW c \in Clients, FreeOther(c)
      PROVE  cpc'[TheGC] = cpc[TheGC] /\ of'[TheGC] = of[TheGC]
  BY <1>1, <1>3, Names DEF FreeOther, MarkOther, UnlinkOther, Client, Leave
<1>4. ASSUME NEW c \in Detachers, Detach(c)
      PROVE  cpc'[TheGC] = cpc[TheGC] /\ of'[TheGC] = of[TheGC]
  BY <1>1, <1>4, Names, LifeAssumption DEF Detach, Client
<1>5. ~DiscardTest /\ ~DiscardJoin /\ ~DiscardWait /\ \A k \in Threads : ~Discard(k)
  BY DEF DiscardTest, DiscardJoin, DiscardWait, Discard
<1>. QED
  BY <1>2, <1>3, <1>4, <1>5
  DEF vars, Next, Step, Thread, Goal, Collector, Halter, Reserve, Abandon, Create, SetTid, NoMem,
      Begin, DetachSelf, Complete, Acknowledge, Kill, ReleaseData, TestDetached, FreeSelf,
      MarkSelf, UnlinkSelf, Post, End, CollectHandle, HaltBegin, HaltLook, HaltJoin, HaltJoined,
      HaltRequest, HaltRaise, HaltWait

\* Thread gc joins no other thread.
LEMMA AwaitedKept ==
  ASSUME IInv, [Next]_vars
  PROVE  Awaited'
<1>. USE DEF slots, threads, posix, ld, clients
<1>. SUFFICES ASSUME NEW x \in Threads, joinid'[x] = TheGC, os'[x] # "gone"
              PROVE  cpc'[TheGC] = "gcjoining" /\ of'[TheGC] = x
  BY DEF Awaited
<1>1. Core /\ Typed /\ Awaited /\ (halt.pc = "no" => Before)
  BY DEF IInv, Core
<1>2. joinid \in [Threads -> Joiners \cup {TheGC, Nil, Detached, Main}]
      /\ os \in [Threads -> {"none", "running", "ended", "gone"}]
      /\ cpc \in [Clients -> ClientPlaces]
  BY <1>1, Fields
<1>3. CASE DiscardJoin
  <2>1. /\ cpc' = [cpc EXCEPT ![TheGC] = "gcjoining"] /\ cpc[TheGC] = "gcjoin"
        /\ joinid' = [joinid EXCEPT ![of[TheGC]] = TheGC] /\ UNCHANGED <<os, of>>
    BY <1>1, <1>3, CollectorJoins DEF DiscardJoin
  <2>2. x = of[TheGC]
    BY <1>1, <1>2, <2>1 DEF Awaited
  <2>. QED
    BY <1>2, <2>1, <2>2, Names
<1>4. CASE DiscardJoined
  <2>1. os' = [os EXCEPT ![of[TheGC]] = "gone"] /\ UNCHANGED joinid
    BY <1>1, <1>4, CollectorJoined DEF DiscardJoined
  <2>. QED
    BY <1>1, <1>2, <2>1 DEF Awaited
<1>5. ASSUME joinid[x] = TheGC, os[x] # "gone", ~DiscardJoined
      PROVE  cpc'[TheGC] = "gcjoining" /\ of'[TheGC] = x
  BY <1>1, <1>5, CollectorWaits DEF Awaited
<1>6. ASSUME NEW j, PthreadDetach(j) PROVE joinid[x] = TheGC /\ os[x] # "gone"
  BY <1>1, <1>2, <1>6, Names DEF PthreadDetach
<1>7. ASSUME NEW k \in Threads, DetachSelf(k) \/ Post(k) \/ Discard(k)
      PROVE  joinid[x] = TheGC /\ os[x] # "gone"
  BY <1>6, <1>7 DEF DetachSelf, Post, Discard
<1>8. ASSUME NEW c \in Detachers, Detach(c) PROVE joinid[x] = TheGC /\ os[x] # "gone"
  BY <1>6, <1>8 DEF Detach
<1>9. ASSUME NEW k \in Threads, NoMem(k) \/ End(k) PROVE joinid[x] = TheGC /\ os[x] # "gone"
  <2>1. os[k] # "gone"
    BY <1>1, <1>9, BornThread DEF NoMem, End, Core
  <2>. QED
    BY <1>2, <1>9, <2>1 DEF NoMem, End, Ends
<1>10. ASSUME NEW s \in Slots, Create(s) PROVE joinid[x] = TheGC /\ os[x] # "gone"
  BY <1>2, <1>10, Names DEF Create
<1>11. ASSUME NEW c \in Joiners, Join(c) \/ JoinTimeout(c)
       PROVE  joinid[x] = TheGC /\ os[x] # "gone"
  BY <1>2, <1>11, Names DEF Join, JoinTry, JoinEnded, JoinStatus, JoinTimeout
<1>12. ASSUME HaltJoin \/ HaltJoined PROVE joinid[x] = TheGC /\ os[x] # "gone"
  BY <1>2, <1>12, Names DEF HaltJoin, HaltJoined
<1>13. ASSUME UNCHANGED posix PROVE joinid[x] = TheGC /\ os[x] # "gone"
  BY <1>13
<1>14. \/ DiscardJoin \/ DiscardJoined
       \/ joinid[x] = TheGC /\ os[x] # "gone"
  BY <1>7, <1>8, <1>9, <1>10, <1>11, <1>12, <1>13
  DEF vars, Next, Step, Thread, Goal, Collector, Halter, Reserve, Abandon, SetTid, Begin, Complete,
      Acknowledge, Kill, ReleaseData, TestDetached, FreeSelf, MarkSelf, UnlinkSelf, JoinFind,
      FreeOther, MarkOther, UnlinkOther, CollectHandle, DiscardTest, DiscardWait, HaltBegin,
      HaltLook, HaltRequest, HaltRaise, HaltWait
<1>. QED
  BY <1>3, <1>4, <1>5, <1>14

-----------------------------------------------------------------------------
(* The theorems.                                                            *)

\* Once the threads are told to exit, that is not taken back.
LEMMA HaltingStays ==
  ASSUME Typed, HaltBegin \/ Halter
  PROVE  halt'.pc # "no"
<1>1. halt.pc \in HaltPlaces /\ halt \in [pc : HaltPlaces, todo : SUBSET Slots,
         at : Slots \cup {Nil}, canceled : Int, maxwait : 0..MaxWait, sem : Nat]
  BY DEF Typed
<1>2. CASE HaltBegin
  BY <1>1, <1>2 DEF HaltBegin
<1>3. ASSUME NEW s \in Slots, HaltLook(s) PROVE halt'.pc # "no"
  BY <1>1, <1>3 DEF HaltLook
<1>4. CASE HaltJoin
  BY <1>1, <1>4 DEF HaltJoin
<1>5. CASE HaltRequest
  BY <1>1, <1>5 DEF HaltRequest
<1>6. CASE HaltRaise
  BY <1>1, <1>6 DEF HaltRaise
<1>7. CASE HaltWait
  BY <1>1, <1>7 DEF HaltWait
<1>8. CASE HaltJoined
  BY <1>1, <1>8 DEF HaltJoined
<1>. QED
  BY <1>2, <1>3, <1>4, <1>5, <1>6, <1>7, <1>8 DEF Halter

\* The invariant holds initially ...
LEMMA InitHolds == Init => IInv
<1>. SUFFICES ASSUME Init PROVE IInv
  OBVIOUS
<1>. USE DEF Init
<1>1. Typed
  BY LifeAssumption DEF Typed, TypeOK, Usable, Statuses, Places, ClientPlaces, HaltPlaces, Clients
<1>2. \A k \in Threads : k > created
  BY DEF Threads
<1>3. Born
  BY <1>2, LifeAssumption DEF Born, Threads
<1>4. Recycled /\ Occupied /\ Reserved /\ Claimed
  BY <1>2 DEF Recycled, Threads, Occupied, Living, Reserved, Claimed
<1>5. Owned
  BY DEF Owned, Threads
<1>6. ListedIsFree
  BY LifeAssumption DEF ListedIsFree
<1>7. ASSUME NEW k \in Threads PROVE Unasked(k) /\ LiveHandle(k) /\ GarbageHandle(k)
  BY LifeAssumption DEF Unasked, LiveHandle, GarbageHandle
<1>8. (\A c \in Joiners : JoinerSound(c)) /\ CollectorSound /\ \A c \in Detachers : cpc[c] = "idle"
  BY DEF JoinerSound, CollectorSound, Clients
<1>9. Undisturbed /\ Awaited
  BY Names DEF Undisturbed, Awaited
<1>. QED
  BY <1>1, <1>3, <1>4, <1>5, <1>6, <1>7, <1>8, <1>9 DEF IInv, Core, Before

\* ... every step keeps the part of it that holds always ...
LEMMA CoreKept ==
  ASSUME Apart, OneJoiner, DiscardAlone, IInv, [Next]_vars
  PROVE  Core'
<1>1. Core /\ (halt.pc = "no" => Before)
  BY DEF IInv
<1>2. Typed' /\ Owned' /\ Undisturbed' /\ Awaited'
  BY <1>1, TypedKept, OwnedKept, UndisturbedKept, AwaitedKept DEF Core
<1>3. CASE UNCHANGED vars
  <2>1. Born' /\ Recycled'
    BY <1>1, <1>3 DEF Core, vars, threads, posix, Born, Recycled
  <2>2. Occupied' /\ Reserved' /\ ListedIsFree'
    BY <1>1, <1>3 DEF Core, vars, slots, threads, Occupied, Living, Reserved, ListedIsFree
  <2>3. Claimed'
    BY <1>1, <1>3 DEF Core, vars, slots, threads, posix, clients, Claimed, Claims
  <2>. QED
    BY <1>2, <2>1, <2>2, <2>3 DEF Core
<1>4. ASSUME Reserve PROVE Core'
  BY <1>1, <1>2, <1>4, CoreReserve DEF Core
<1>5. ASSUME NEW s \in Slots, Abandon(s) PROVE Core'
  BY <1>1, <1>2, <1>5, CoreAbandon DEF Core
<1>6. ASSUME NEW s \in Slots, Create(s) PROVE Core'
  BY <1>1, <1>2, <1>6, CoreCreate DEF Core
<1>7. ASSUME NEW k \in Threads, SetTid(k) PROVE Core'
  BY <1>1, <1>2, <1>7, CoreSetTid DEF Core
<1>8. ASSUME NEW k \in Threads, NoMem(k) PROVE Core'
  BY <1>1, <1>2, <1>8, CoreNoMem DEF Core
<1>9. ASSUME NEW k \in Threads, Begin(k) PROVE Core'
  BY <1>1, <1>2, <1>9, CoreBegin DEF Core
<1>10. ASSUME NEW k \in Threads, DetachSelf(k) PROVE Core'
  BY <1>1, <1>2, <1>10, CoreDetachSelf DEF Core
<1>11. ASSUME NEW k \in Threads, Complete(k) PROVE Core'
  BY <1>1, <1>2, <1>11, CoreComplete DEF Core
<1>12. ASSUME NEW k \in Threads, Acknowledge(k) PROVE Core'
  BY <1>1, <1>2, <1>12, CoreAcknowledge DEF Core
<1>13. ASSUME NEW k \in Threads, Kill(k) PROVE Core'
  BY <1>1, <1>2, <1>13, CoreKill DEF Core
<1>14. ASSUME NEW k \in Threads, ReleaseData(k) PROVE Core'
  BY <1>1, <1>2, <1>14, CoreReleaseData DEF Core
<1>15. ASSUME NEW k \in Threads, TestDetached(k) PROVE Core'
  BY <1>1, <1>2, <1>15, CoreTestDetached DEF Core
<1>16. ASSUME NEW k \in Threads, MarkSelf(k) PROVE Core'
  BY <1>1, <1>2, <1>16, CoreMarkSelf DEF Core
<1>17. ASSUME NEW k \in Threads, UnlinkSelf(k) PROVE Core'
  BY <1>1, <1>2, <1>17, CoreUnlinkSelf DEF Core
<1>18. ASSUME NEW k \in Threads, Post(k) PROVE Core'
  BY <1>1, <1>2, <1>18, CorePost DEF Core
<1>19. ASSUME NEW k \in Threads, End(k) PROVE Core'
  BY <1>1, <1>2, <1>19, CoreEnd DEF Core
<1>20. ASSUME NEW c \in Joiners, JoinFind(c) PROVE Core'
  BY <1>1, <1>2, <1>20, CoreJoinFind DEF Core
<1>21. ASSUME NEW c \in Joiners, JoinTry(c) PROVE Core'
  BY <1>1, <1>2, <1>21, CoreJoinTry DEF Core
<1>22. ASSUME NEW c \in Joiners, JoinTimeout(c) PROVE Core'
  BY <1>1, <1>2, <1>22, CoreJoinTimeout DEF Core
<1>23. ASSUME NEW c \in Joiners, JoinEnded(c) PROVE Core'
  BY <1>1, <1>2, <1>23, CoreJoinEnded DEF Core
<1>24. ASSUME NEW c \in Joiners, JoinStatus(c) PROVE Core'
  BY <1>1, <1>2, <1>24, CoreJoinStatus DEF Core
<1>25. ASSUME NEW c \in Clients, MarkOther(c) PROVE Core'
  BY <1>1, <1>2, <1>25, CoreMarkOther DEF Core
<1>26. ASSUME NEW c \in Clients, UnlinkOther(c) PROVE Core'
  BY <1>1, <1>2, <1>26, CoreUnlinkOther DEF Core
<1>27. ASSUME NEW c \in Detachers, Detach(c) PROVE Core'
  BY <1>1, <1>2, <1>27, CoreDetach DEF Core
<1>28. ASSUME NEW k \in Threads, CollectHandle(k) PROVE Core'
  BY <1>1, <1>2, <1>28, CoreCollectHandle DEF Core
<1>29. ASSUME NEW k \in Threads, Discard(k) PROVE Core'
  BY <1>1, <1>2, <1>29, CoreDiscard DEF Core
<1>30. ASSUME DiscardJoin PROVE Core'
  BY <1>1, <1>2, <1>30, CoreDiscardJoin DEF Core
<1>31. ASSUME DiscardWait PROVE Core'
  BY <1>1, <1>2, <1>31, CoreDiscardWait DEF Core
<1>32. ASSUME HaltBegin PROVE Core'
  BY <1>1, <1>2, <1>32, CoreHaltBegin DEF Core
<1>33. ASSUME NEW s \in Slots, HaltLook(s) PROVE Core'
  BY <1>1, <1>2, <1>33, CoreHaltLook DEF Core
<1>34. ASSUME HaltJoin PROVE Core'
  BY <1>1, <1>2, <1>34, CoreHaltJoin DEF Core
<1>35. ASSUME HaltRequest PROVE Core'
  BY <1>1, <1>2, <1>35, CoreHaltRequest DEF Core
<1>36. ASSUME HaltRaise PROVE Core'
  BY <1>1, <1>2, <1>36, CoreHaltRaise DEF Core
<1>37. ASSUME HaltWait PROVE Core'
  BY <1>1, <1>2, <1>37, CoreHaltWait DEF Core
<1>38. ASSUME DiscardTest PROVE Core'
  BY <1>1, <1>2, <1>38, CoreDiscardTest DEF Core
<1>39. ASSUME DiscardJoined PROVE Core'
  BY <1>1, <1>2, <1>39, CoreDiscardJoined DEF Core
<1>40. ASSUME HaltJoined PROVE Core'
  BY <1>1, <1>2, <1>40, CoreHaltJoined DEF Core
<1>. QED
  BY <1>3, <1>4, <1>5, <1>6, <1>7, <1>8, <1>9, <1>10, <1>11, <1>12, <1>13, <1>14, <1>15, <1>16, <1>17, <1>18, <1>19, <1>20, <1>21, <1>22, <1>23, <1>24, <1>25, <1>26, <1>27, <1>28, <1>29, <1>30, <1>31, <1>32, <1>33, <1>34, <1>35, <1>36, <1>37,
     <1>38, <1>39, <1>40
  DEF Next, Step, Thread, Goal, Join, Collector, Halter, FreeSelf, FreeOther

\* ... and the part that holds until the threads are told to exit.
LEMMA BeforeHolds ==
  ASSUME Apart, OneJoiner, DiscardAlone, IInv, [Next]_vars, halt'.pc = "no"
  PROVE  Before'
<1>1. Core /\ Typed
  BY DEF IInv, Core
<1>2. ~HaltBegin /\ ~Halter
  BY <1>1, HaltingStays
<1>3. CASE UNCHANGED vars
  BY <1>3 DEF IInv, vars, slots, threads, posix, ld, clients, Before, Unasked, LiveHandle, Joined,
              GarbageHandle, Forgotten, JoinerSound, CollectorSound
<1>4. CASE Next
  <2>1. halt.pc = "no"
    <3>1. UNCHANGED halt \/ \E k \in Threads : Post(k)
      BY <1>2, <1>4
      DEF Next, Step, Thread, Goal, Join, Collector, Reserve, Abandon, Create, SetTid, NoMem, Begin,
          DetachSelf, Complete, Acknowledge, Kill, ReleaseData, TestDetached, FreeSelf, MarkSelf,
          UnlinkSelf, End, JoinFind, JoinTry, JoinTimeout, JoinEnded, JoinStatus, FreeOther,
          MarkOther, UnlinkOther, Detach, CollectHandle, Discard, DiscardTest, DiscardJoin,
          DiscardJoined, DiscardWait
    <3>2. ASSUME NEW k \in Threads, Post(k) PROVE halt.pc = "no"
      BY <1>1, <3>2 DEF Post, Typed
    <3>. QED
      BY <3>1, <3>2
  <2>2. Before /\ UNCHANGED doing
    BY <1>4, <2>1 DEF IInv, Next
  <2>3. ASSUME Reserve PROVE Before'
    BY <1>1, <2>1, <2>2, <2>3, BeforeReserve
  <2>4. ASSUME NEW s \in Slots, Abandon(s) PROVE Before'
    BY <1>1, <2>1, <2>2, <2>4, BeforeAbandon
  <2>5. ASSUME NEW s \in Slots, Create(s) PROVE Before'
    BY <1>1, <2>1, <2>2, <2>5, BeforeCreate
  <2>6. ASSUME NEW k \in Threads, SetTid(k) PROVE Before'
    BY <1>1, <2>1, <2>2, <2>6, BeforeSetTid
  <2>7. ASSUME NEW k \in Threads, NoMem(k) PROVE Before'
    BY <1>1, <2>1, <2>2, <2>7, BeforeNoMem
  <2>8. ASSUME NEW k \in Threads, Begin(k) PROVE Before'
    BY <1>1, <2>1, <2>2, <2>8, BeforeBegin
  <2>9. ASSUME NEW k \in Threads, DetachSelf(k) PROVE Before'
    BY <1>1, <2>1, <2>2, <2>9, BeforeDetachSelf
  <2>10. ASSUME NEW k \in Threads, Complete(k) PROVE Before'
    BY <1>1, <2>1, <2>2, <2>10, BeforeComplete
  <2>11. ASSUME NEW k \in Threads, Acknowledge(k) PROVE Before'
    BY <1>1, <2>1, <2>2, <2>11, BeforeAcknowledge
  <2>12. ASSUME NEW k \in Threads, Kill(k) PROVE Before'
    BY <1>1, <2>1, <2>2, <2>12, BeforeKill
  <2>13. ASSUME NEW k \in Threads, ReleaseData(k) PROVE Before'
    BY <1>1, <2>1, <2>2, <2>13, BeforeReleaseData
  <2>14. ASSUME NEW k \in Threads, TestDetached(k) PROVE Before'
    BY <1>1, <2>1, <2>2, <2>14, BeforeTestDetached
  <2>15. ASSUME NEW k \in Threads, MarkSelf(k) PROVE Before'
    BY <1>1, <2>1, <2>2, <2>15, BeforeMarkSelf
  <2>16. ASSUME NEW k \in Threads, UnlinkSelf(k) PROVE Before'
    BY <1>1, <2>1, <2>2, <2>16, BeforeUnlinkSelf
  <2>17. ASSUME NEW k \in Threads, Post(k) PROVE Before'
    BY <1>1, <2>1, <2>2, <2>17, BeforePost
  <2>18. ASSUME NEW k \in Threads, End(k) PROVE Before'
    BY <1>1, <2>1, <2>2, <2>18, BeforeEnd
  <2>19. ASSUME NEW c \in Joiners, JoinFind(c) PROVE Before'
    BY <1>1, <2>1, <2>2, <2>19, BeforeJoinFind
  <2>20. ASSUME NEW c \in Joiners, JoinTry(c) PROVE Before'
    BY <1>1, <2>1, <2>2, <2>20, BeforeJoinTry
  <2>21. ASSUME NEW c \in Joiners, JoinTimeout(c) PROVE Before'
    BY <1>1, <2>1, <2>2, <2>21, BeforeJoinTimeout
  <2>22. ASSUME NEW c \in Joiners, JoinEnded(c) PROVE Before'
    BY <1>1, <2>1, <2>2, <2>22, BeforeJoinEnded
  <2>23. ASSUME NEW c \in Joiners, JoinStatus(c) PROVE Before'
    BY <1>1, <2>1, <2>2, <2>23, BeforeJoinStatus
  <2>24. ASSUME NEW c \in Clients, MarkOther(c) PROVE Before'
    BY <1>1, <2>1, <2>2, <2>24, BeforeMarkOther
  <2>25. ASSUME NEW c \in Clients, UnlinkOther(c) PROVE Before'
    BY <1>1, <2>1, <2>2, <2>25, BeforeUnlinkOther
  <2>26. ASSUME NEW c \in Detachers, Detach(c) PROVE Before'
    BY <1>1, <2>1, <2>2, <2>26, BeforeDetach
  <2>27. ASSUME NEW k \in Threads, CollectHandle(k) PROVE Before'
    BY <1>1, <2>1, <2>2, <2>27, BeforeCollectHandle
  <2>28. ASSUME NEW k \in Threads, Discard(k) PROVE Before'
    BY <1>1, <2>1, <2>2, <2>28, BeforeDiscard
  <2>29. ASSUME DiscardJoin PROVE Before'
    BY <1>1, <2>1, <2>2, <2>29, BeforeDiscardJoin
  <2>30. ASSUME DiscardWait PROVE Before'
    BY <1>1, <2>1, <2>2, <2>30, BeforeDiscardWait
  <2>31. ASSUME DiscardTest PROVE Before'
    BY <1>1, <2>1, <2>2, <2>31, BeforeDiscardTest
  <2>32. ASSUME DiscardJoined PROVE Before'
    BY <1>1, <2>1, <2>2, <2>32, BeforeDiscardJoined
  <2>. QED
    BY <1>2, <1>4, <2>3, <2>4, <2>5, <2>6, <2>7, <2>8, <2>9, <2>10, <2>11, <2>12, <2>13, <2>14, <2>15, <2>16, <2>17, <2>18, <2>19, <2>20, <2>21, <2>22, <2>23, <2>24, <2>25, <2>26, <2>27, <2>28, <2>29, <2>30,
       <2>31, <2>32
    DEF Next, Step, Thread, Goal, Join, Collector, FreeSelf, FreeOther
<1>. QED
  BY <1>3, <1>4

\* The slots that are being freed.
LEMMA FreedOnceFollows ==
  ASSUME OneJoiner, IInv
  PROVE  FreedOnce
<1>. SUFFICES ASSUME halt.pc = "no"
              PROVE  /\ \A f, g \in Freeing : f[2] = g[2] => f = g
                     /\ \A k \in Threads : pc[k] = "free" =>
                          status[slot[k]] # "UNUSED" /\ owner[slot[k]] = k
                     /\ \A c \in Clients : cpc[c] = "free" =>
                          status[at[c]] # "UNUSED" /\ owner[at[c]] = of[c]
  BY DEF FreedOnce
<1>1. Core /\ Before /\ Typed /\ Born /\ Occupied /\ Reserved /\ Claimed
  BY DEF IInv, Core
<1>2. \A k \in Threads : pc[k] = "free" => status[slot[k]] # "UNUSED" /\ owner[slot[k]] = k
  BY <1>1 DEF Occupied, Living, Completed
<1>3. ASSUME NEW c \in Clients, cpc[c] = "free"
      PROVE  status[at[c]] # "UNUSED" /\ owner[at[c]] = of[c]
  <2>1. c \in Joiners \/ c = TheGC
    BY <1>1, <1>3 DEF Before, Clients
  <2>2. CASE c \in Joiners
    BY <1>1, <1>3, <2>2, JoinerHas DEF JoinerSound
  <2>3. CASE c = TheGC
    BY <1>1, <1>3, <2>3, CollectorHas DEF Invalid
  <2>. QED
    BY <2>1, <2>2, <2>3
<1>4. ASSUME NEW j \in Threads, NEW k \in Threads, slot[j] = slot[k],
             pc[j] \in {"free", "unlink"}, pc[k] \in {"free", "unlink"}
      PROVE  j = k
  BY <1>1, <1>4, OneUser DEF Living
<1>5. ASSUME NEW c \in Clients, cpc[c] \in {"free", "unlink"},
             NEW k \in Threads, pc[k] \in {"free", "unlink"}
      PROVE  slot[k] # at[c]
  BY <1>1, <1>5, NoUser DEF Living
<1>6. ASSUME NEW c \in Clients, cpc[c] \in {"free", "unlink"},
             NEW d \in Clients, cpc[d] \in {"free", "unlink"}, at[c] = at[d]
      PROVE  c = d
  <2>1. of[c] = of[d]
    BY <1>1, <1>6, NoUser
  <2>2. (c \in Joiners \/ c = TheGC) /\ (d \in Joiners \/ d = TheGC)
    BY <1>1, <1>6 DEF Before, Clients
  <2>. QED
    BY <1>1, <1>6, <2>1, <2>2, JoinerHas
<1>7. \A f, g \in Freeing : f[2] = g[2] => f = g
  BY <1>4, <1>5, <1>6 DEF Freeing
<1>. QED
  BY <1>2, <1>3, <1>7

\* The variables have their types, whatever goes on at the same time: no step
\* of pl-thread.c leaves a status, a slot or a thread that does not exist.
THEOREM TypeCorrect == Spec => []TypeOK
<1>1. Init => Typed
  BY InitHolds DEF IInv, Core
<1>2. Typed /\ [Next]_vars => Typed'
  BY TypedKept
<1>3. Typed => TypeOK
  BY DEF Typed
<1>. QED
  BY <1>1, <1>2, <1>3, PTL DEF Spec

\* The inductive invariant.
THEOREM LifeInductive ==
  ASSUME Apart, OneJoiner, DiscardAlone
  PROVE  Spec => []IInv
<1>1. Init => IInv
  BY InitHolds
<1>2. IInv /\ [Next]_vars => IInv'
  BY CoreKept, BeforeHolds DEF IInv
<1>. QED
  BY <1>1, <1>2, PTL DEF Spec

\* A slot in the list of free ones, from which alloc_thread() takes, is not in
\* use by a thread and has no local data, also when the threads are told to exit.
THEOREM ListedFree ==
  ASSUME Apart, OneJoiner, DiscardAlone
  PROVE  Spec => []ListedIsFree
<1>1. IInv => ListedIsFree
  BY DEF IInv, Core
<1>. QED
  BY <1>1, LifeInductive, PTL

\* free_thread_info() is called once for the structure of a thread, by the
\* thread, the joiner or the thread garbage collector.
THEOREM FreedByOne ==
  ASSUME Apart, OneJoiner, DiscardAlone
  PROVE  Spec => []FreedOnce
<1>1. IInv => FreedOnce
  BY FreedOnceFollows
<1>. QED
  BY <1>1, LifeInductive, PTL

=============================================================================
