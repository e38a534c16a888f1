----------------------------- MODULE ThreadLife -----------------------------
(***************************************************************************)
(* The life of Prolog threads (pl-thread.c): thread_create/3, start_thread() *)
(* and freePrologThread() in the thread itself; thread_join/2 and            *)
(* thread_detach/1 by others; discard_thread(), which the thread garbage     *)
(* collector runs for a handle that nobody refers to; exitPrologThreads(),   *)
(* by which halt/1, PL_cleanup() and so rolog_exit() stop the threads.       *)
(*                                                                           *)
(* A thread runs in a structure PL_thread_info_t (here: a slot) that is used  *)
(* again for a later thread; a handle is the blob that Prolog code has.  The  *)
(* steps are what happens with L_THREAD held, and single accesses without.    *)
(* The lists of slots and handles are taken as atomic: ThreadTable has them.  *)
(* pthread_join() and pthread_detach() are those of glibc: a joiner registers *)
(* itself as joinid, and gives that up when its time limit of 250 ms ends, if *)
(* it has one; meanwhile pthread_detach() has no effect but returns 0, and    *)
(* pthread_join() by another fails, as it does when the thread is detached.   *)
(***************************************************************************)
EXTENDS Integers, FiniteSets, FiniteSetsExt

CONSTANTS Slots, Nil,
          TheGC,       \* the thread that runs thread_gc_loop()
          Joiners,     \* threads that call thread_join/2
          Detachers,   \* threads that call thread_detach/1 for another one
          Scenarios,   \* what goes on at the same time: sets of activities
          Outcomes,    \* how goals end: a subset of Completed
          Cancellable, \* the threads with a cancel function (the thread gc)
          MaxThreads,  \* bound: the threads created
          MaxWait      \* the number of times halt waits, 10 in the code

Threads == 1..MaxThreads
Completed == {"SUCCEEDED", "FAILED", "EXCEPTION", "EXITED"}
Activities == {"crowd", "join", "detach", "self_detach", "discard", "nomem", "halt"}
Clients == Joiners \cup Detachers \cup {TheGC}

\* Values of joinid beside Nil and the clients that join: the thread is detached,
\* or exitPrologThreads() joins it.
Detached == "detached"
Main == "main"

ASSUME LifeAssumption ==
    /\ MaxThreads \in Nat /\ MaxWait \in Nat /\ Outcomes \subseteq Completed
    /\ Slots # {} /\ Nil \notin Slots \cup Clients /\ Cancellable \subseteq Threads
    /\ Joiners \cap Detachers = {} /\ TheGC \notin Joiners \cup Detachers
    /\ {Detached, Main} \cap (Clients \cup {Nil}) = {}
    /\ Scenarios \subseteq SUBSET Activities

VARIABLES
    doing,         \* the scenario of this behaviour; it never changes
    status, detached, has_tid, thread_data,  \* of each slot
    owner,         \* the thread of the slot: its tid, symbol and local data
    listed,        \* is the slot in GD->thread.free?
    created,       \* how many threads there have been
    slot, pthread, \* of each thread: the slot it runs in, its pthread_t
    handle,        \* "live", "garbage" (queued for discard_thread()), "none"
    info,          \* th->info of its handle
    os, joinid,    \* of the POSIX thread: "running", "ended", "gone"; its joiner
    exit_requested, magic, acknowledge,
    pc,            \* of the thread
    cpc, of, at,   \* of a client: where it is, the thread and the slot it has
    halt           \* exitPrologThreads(): [pc, todo, at, canceled, maxwait, sem]

slots == <<status, detached, has_tid, thread_data, owner, listed>>
threads == <<created, slot, pthread, handle, info>>
posix == <<os, joinid>>
ld == <<exit_requested, magic, acknowledge>>
clients == <<cpc, of, at>>
vars == <<doing, slots, threads, posix, ld, pc, clients, halt>>

\* The slots that threads run in.
Usable == IF "crowd" \in doing THEN Slots ELSE {CHOOSE s \in Slots : TRUE}

\* THREAD_STATUS_INVALID() and is_alive()
Invalid(st) == st \in {"UNUSED", "RESERVED", "JOINED"}
Alive(st) == st \in {"CREATED", "RUNNING"}

Init ==
    /\ doing \in Scenarios
    /\ status = [s \in Slots |-> "UNUSED"]
    /\ detached = [s \in Slots |-> FALSE] /\ has_tid = [s \in Slots |-> FALSE]
    /\ thread_data = [s \in Slots |-> FALSE]
    /\ owner = [s \in Slots |-> 0] /\ listed = [s \in Slots |-> TRUE]
    /\ created = 0
    /\ slot = [k \in Threads |-> Nil] /\ info = [k \in Threads |-> Nil]
    /\ pthread = [k \in Threads |-> 0]
    /\ handle = [k \in Threads |-> "none"]
    /\ os = [k \in Threads |-> "none"] /\ joinid = [k \in Threads |-> Nil]
    /\ exit_requested = [k \in Threads |-> FALSE]
    /\ magic = [k \in Threads |-> FALSE] /\ acknowledge = [k \in Threads |-> FALSE]
    /\ pc = [k \in Threads |-> "none"]
    /\ cpc = [c \in Clients |-> "idle"]
    /\ of = [c \in Clients |-> 0] /\ at = [c \in Clients |-> Nil]
    /\ halt = [pc |-> "no", todo |-> Usable, at |-> Nil, canceled |-> 0,
               maxwait |-> MaxWait, sem |-> 0]

Goto(k, where) == pc' = [pc EXCEPT ![k] = where]
Client(c, where) == cpc' = [cpc EXCEPT ![c] = where]

-----------------------------------------------------------------------------
(* POSIX threads.                                                           *)

\* The thread that a pthread_t stands for: once a thread is gone, the next one
\* may get the same.
Latest(p) == Max({k \in Threads : pthread[k] = p})
Unused == {p \in {pthread[k] : k \in 1..created} : os[Latest(p)] = "gone"}

\* The states of thread k after pthread_detach(), which returns 0 unless the
\* thread has been joined: without effect while somebody joins it.
PthreadDetach(k) ==
    IF joinid[k] = Nil
    THEN /\ joinid' = [joinid EXCEPT ![k] = Detached]
         /\ os' = [os EXCEPT ![k] = IF @ = "ended" THEN "gone" ELSE @]
    ELSE UNCHANGED posix

-----------------------------------------------------------------------------
(* free_thread_info()                                                       *)

\* Mutant: local data that a thread left behind stay.
MarkKeepsData(s) ==
    /\ status' = [status EXCEPT ![s] = "UNUSED"]
    /\ UNCHANGED <<thread_data, detached>>

\* The slot is marked; local data that a thread left behind goes, too.
Mark(s) ==
    /\ status' = [status EXCEPT ![s] = "UNUSED"]
    /\ thread_data' = [thread_data EXCEPT ![s] = FALSE]
    /\ detached' = [detached EXCEPT ![s] = @ /\ ~thread_data[s]]

\* The handle forgets the slot (release_thread_handle() has cut the way from
\* the slot to a handle that is garbage), and the slot can be used again.
Unlink(s) ==
    /\ info' = [k \in Threads |-> IF k = owner[s] /\ handle[k] = "live" THEN Nil
                                                                        ELSE info[k]]
    /\ listed' = [listed EXCEPT ![s] = TRUE]

-----------------------------------------------------------------------------
(* The thread.                                                              *)

\* Once GD->cleaning has been looked at: alloc_thread() and the options of
\* thread_create/3 ...
Reserve ==
    /\ created < MaxThreads /\ halt.pc = "no"
    /\ \A s \in Slots : status[s] # "RESERVED"
    /\ \E s \in Usable, d \in BOOLEAN :
          /\ listed[s]
          /\ listed' = [listed EXCEPT ![s] = FALSE]
          /\ status' = [status EXCEPT ![s] = "RESERVED"]
          /\ thread_data' = [thread_data EXCEPT ![s] = TRUE]
          /\ has_tid' = [has_tid EXCEPT ![s] = FALSE]
          /\ detached' = [detached EXCEPT ![s] = d]
          /\ owner' = [owner EXCEPT ![s] = 0]
    /\ UNCHANGED <<threads, posix, ld, pc, clients, halt>>

\* ... which may be wrong: the slot is freed again, whatever happens meanwhile ...
Abandon(s) ==
    /\ status[s] = "RESERVED"
    /\ Mark(s)
    /\ Unlink(s)
    /\ UNCHANGED <<has_tid, owner, created, slot, pthread, handle, posix, ld, pc, clients, halt>>

\* ... or else pthread_create() is called with L_THREAD held.
Create(s) ==
    /\ status[s] = "RESERVED"
    /\ LET k == created + 1 IN
          /\ created' = k
          /\ status' = [status EXCEPT ![s] = "CREATED"]
          /\ owner' = [owner EXCEPT ![s] = k]
          /\ slot' = [slot EXCEPT ![k] = s] /\ info' = [info EXCEPT ![k] = s]
          /\ \E p \in {k} \cup Unused : pthread' = [pthread EXCEPT ![k] = p]
          /\ handle' = [handle EXCEPT ![k] = "live"]
          /\ os' = [os EXCEPT ![k] = "running"]
          /\ joinid' = [joinid EXCEPT ![k] = IF detached[s] THEN Detached ELSE Nil]
          /\ Goto(k, "start")
    /\ UNCHANGED <<detached, has_tid, thread_data, listed, ld, clients, halt>>

\* start_thread(): set_system_thread_id()
SetTid(k) ==
    /\ pc[k] = "start"
    /\ has_tid' = [has_tid EXCEPT ![slot[k]] = TRUE]
    /\ Goto(k, "init")
    /\ UNCHANGED <<status, detached, thread_data, owner, listed, threads, posix, ld,
                   clients, halt>>

\* Mutant: the thread is taken for detached though somebody joins it.
EndsGone(k) == /\ os' = [os EXCEPT ![k] = "gone"]
               /\ Goto(k, "dead")

\* The POSIX thread is over.
Ends(k) == /\ os' = [os EXCEPT ![k] = IF joinid[k] = Detached THEN "gone" ELSE "ended"]
           /\ Goto(k, "dead")

\* initialise_thread() finds no memory: start_thread() returns, cleaning nothing.
NoMem(k) ==
    /\ pc[k] = "init" /\ "nomem" \in doing
    /\ status' = [status EXCEPT ![slot[k]] = "NOMEM"]
    /\ Ends(k)
    /\ UNCHANGED <<detached, has_tid, thread_data, owner, listed, threads, joinid, ld,
                   clients, halt>>

Begin(k) ==
    /\ pc[k] = "init"
    /\ status' = [status EXCEPT ![slot[k]] = "RUNNING"]
    /\ magic' = [magic EXCEPT ![k] = TRUE]
    /\ Goto(k, "run")
    /\ UNCHANGED <<detached, has_tid, thread_data, owner, listed, threads, posix,
                   exit_requested, acknowledge, clients, halt>>

\* thread_detach/1 on the thread that calls it.
DetachSelf(k) ==
    /\ pc[k] = "run" /\ "self_detach" \in doing /\ ~detached[slot[k]]
    /\ PthreadDetach(k)
    /\ detached' = [detached EXCEPT ![slot[k]] = TRUE]
    /\ UNCHANGED <<status, has_tid, thread_data, owner, listed, threads, ld, pc,
                   clients, halt>>

\* set_thread_completion(), thread_exit/1
Complete(k) ==
    /\ pc[k] = "run"
    /\ \E o \in Outcomes : status' = [status EXCEPT ![slot[k]] = o]
    /\ Goto(k, "acknowledge")
    /\ UNCHANGED <<detached, has_tid, thread_data, owner, listed, threads, posix, ld,
                   clients, halt>>

\* freePrologThread(): was the thread asked to exit?
Acknowledge(k) ==
    /\ pc[k] = "acknowledge"
    /\ acknowledge' = [acknowledge EXCEPT ![k] = exit_requested[k]]
    /\ Goto(k, "kill")
    /\ UNCHANGED <<slots, threads, posix, exit_requested, magic, clients, halt>>

\* The exit hooks, which are goals of the program, come to an end; ld->magic = 0:
\* signals no longer reach the thread.
Kill(k) ==
    /\ pc[k] = "kill"
    /\ magic' = [magic EXCEPT ![k] = FALSE]
    /\ Goto(k, "release")
    /\ UNCHANGED <<slots, threads, posix, exit_requested, acknowledge, clients, halt>>

\* Stacks, signals and the message queue go, then the local data.
ReleaseData(k) ==
    /\ pc[k] = "release"
    /\ thread_data' = [thread_data EXCEPT ![slot[k]] = FALSE]
    /\ has_tid' = [has_tid EXCEPT ![slot[k]] = FALSE]
    /\ Goto(k, "test")
    /\ UNCHANGED <<status, detached, owner, listed, threads, posix, ld, clients, halt>>

\* Mutant: a thread frees its slot though somebody is to join it.
FreesAlways(k) == TRUE

\* Mutant: a detached thread does not look after its slot.
FreesCanceled(k) == acknowledge[k]

\* Does the thread itself free its slot?
FreesItself(k) == detached[slot[k]] \/ acknowledge[k]

TestDetached(k) ==
    /\ pc[k] = "test"
    /\ Goto(k, IF FreesItself(k) THEN "free" ELSE "post")
    /\ UNCHANGED <<slots, threads, posix, ld, clients, halt>>

MarkSelf(k) ==
    /\ pc[k] = "free"
    /\ Mark(slot[k]) /\ Goto(k, "unlink")
    /\ UNCHANGED <<has_tid, owner, listed, threads, posix, ld, clients, halt>>

UnlinkSelf(k) ==
    /\ pc[k] = "unlink"
    /\ Unlink(slot[k]) /\ Goto(k, "post")
    /\ UNCHANGED <<status, detached, has_tid, thread_data, owner, created, slot, pthread,
                   handle, posix, ld, clients, halt>>

FreeSelf(k) == MarkSelf(k) \/ UnlinkSelf(k)

\* A thread that was asked to exit says that it is dead.
Post(k) ==
    /\ pc[k] = "post"
    /\ IF acknowledge[k]
       THEN PthreadDetach(k) /\ halt' = [halt EXCEPT !.sem = @ + 1]
       ELSE UNCHANGED <<posix, halt>>
    /\ Goto(k, "end")
    /\ UNCHANGED <<slots, threads, ld, clients>>

End(k) ==
    /\ pc[k] = "end"
    /\ Ends(k)
    /\ UNCHANGED <<slots, threads, joinid, ld, clients, halt>>

-----------------------------------------------------------------------------
(* thread_join/2                                                            *)

\* get_thread() and the test of info->detached; info->tid is read once.
JoinFind(c) ==
    /\ "join" \in doing /\ cpc[c] = "idle" /\ halt.pc = "no"
    /\ \E k \in Threads :
          /\ handle[k] = "live" /\ info[k] # Nil
          /\ ~Invalid(status[info[k]]) /\ ~detached[info[k]]
          /\ of' = [of EXCEPT ![c] = owner[info[k]]] /\ at' = [at EXCEPT ![c] = info[k]]
    /\ Client(c, "join")
    /\ UNCHANGED <<slots, threads, posix, ld, pc, halt>>

\* The call ends with an error or, with rc EINTR, after a signal.
Leave(c) == /\ Client(c, "idle")
            /\ of' = [of EXCEPT ![c] = 0] /\ at' = [at EXCEPT ![c] = Nil]

\* The thread that client c waits for, which need not be the one it meant.
Target(c) == Latest(pthread[of[c]])

\* pthread_timedjoin_np(): wait, or fail for a thread that cannot be joined.
JoinTry(c) ==
    /\ cpc[c] = "join"
    /\ \/ /\ joinid[Target(c)] = Nil /\ os[Target(c)] # "gone"
          /\ joinid' = [joinid EXCEPT ![Target(c)] = c]
          /\ Client(c, "joining")
          /\ UNCHANGED <<of, at>>
       \/ /\ joinid[Target(c)] # Nil \/ os[Target(c)] = "gone"
          /\ Leave(c) /\ UNCHANGED joinid
    /\ UNCHANGED <<slots, threads, os, ld, pc, halt>>

\* 250 ms later: handle signals, which may raise an exception, and try again.
JoinTimeout(c) ==
    /\ cpc[c] = "joining" /\ os[Target(c)] = "running"
    /\ joinid' = [joinid EXCEPT ![Target(c)] = Nil]
    /\ \/ Client(c, "join") /\ UNCHANGED <<of, at>>
       \/ Leave(c)
    /\ UNCHANGED <<slots, threads, os, ld, pc, halt>>

\* The thread has ended, and is the joiner's.
JoinEnded(c) ==
    /\ cpc[c] = "joining" /\ os[Target(c)] = "ended"
    /\ os' = [os EXCEPT ![Target(c)] = "gone"]
    /\ Client(c, "status")
    /\ UNCHANGED <<slots, threads, joinid, ld, pc, of, at, halt>>

\* status = info->status; COMPARE_AND_SWAP(&info->status, status, JOINED)
JoinStatus(c) ==
    /\ cpc[c] = "status"
    /\ IF Invalid(status[at[c]])
       THEN Leave(c) /\ UNCHANGED status
       ELSE /\ status' = [status EXCEPT ![at[c]] = "JOINED"]
            /\ Client(c, "free") /\ UNCHANGED <<of, at>>
    /\ UNCHANGED <<detached, has_tid, thread_data, owner, listed, threads, posix, ld,
                   pc, halt>>

\* free_thread_info() by a client.
MarkOther(c) ==
    /\ cpc[c] = "free"
    /\ Mark(at[c]) /\ Client(c, "unlink")
    /\ UNCHANGED <<has_tid, owner, listed, threads, posix, ld, pc, of, at, halt>>

UnlinkOther(c) ==
    /\ cpc[c] = "unlink"
    /\ Unlink(at[c]) /\ Leave(c)
    /\ UNCHANGED <<status, detached, has_tid, thread_data, owner, created, slot, pthread,
                   handle, posix, ld, pc, halt>>

FreeOther(c) == MarkOther(c) \/ UnlinkOther(c)

-----------------------------------------------------------------------------
(* thread_detach/1, with L_THREAD held.                                     *)

Detach(c) ==
    /\ "detach" \in doing /\ cpc[c] = "idle" /\ halt.pc = "no"
    /\ \E k \in Threads :
          /\ handle[k] = "live" /\ info[k] # Nil
          /\ ~Invalid(status[info[k]]) /\ ~detached[info[k]]
          /\ IF os[owner[info[k]]] = "gone"
             THEN \* ESRCH: release = info
                  /\ Client(c, "free")
                  /\ of' = [of EXCEPT ![c] = k] /\ at' = [at EXCEPT ![c] = info[k]]
                  /\ UNCHANGED <<detached, posix>>
             ELSE /\ PthreadDetach(owner[info[k]])
                  /\ detached' = [detached EXCEPT ![info[k]] = TRUE]
                  /\ UNCHANGED clients
    /\ UNCHANGED <<status, has_tid, thread_data, owner, listed, threads, ld, pc, halt>>

-----------------------------------------------------------------------------
(* Handles that nobody refers to.                                           *)

\* Atom garbage collection finds the handle unreferenced: the symbol of a
\* detached thread is registered, and whoever joins or detaches has the handle.
CollectHandle(k) ==
    /\ "discard" \in doing /\ handle[k] = "live" /\ halt.pc = "no"
    /\ info[k] # Nil => ~detached[info[k]]
    /\ \A c \in Clients : of[c] # k
    /\ handle' = [handle EXCEPT ![k] = IF info[k] = Nil THEN "none" ELSE "garbage"]
    /\ UNCHANGED <<slots, created, slot, pthread, info, posix, ld, pc, clients, halt>>

\* discard_thread() detaches what is alive ...
DetachesGarbage(s) == Alive(status[s])

\* discard_thread(), the part with L_THREAD held; the handle is freed after it.
Discard(k) ==
    /\ cpc[TheGC] = "idle" /\ handle[k] = "garbage" /\ halt.pc = "no"
    /\ handle' = [handle EXCEPT ![k] = "none"]
    /\ IF DetachesGarbage(info[k])
       THEN /\ IF has_tid[info[k]]
               THEN /\ PthreadDetach(owner[info[k]])
                    /\ detached' = [detached EXCEPT ![info[k]] = TRUE]
               ELSE UNCHANGED <<posix, detached>>
            /\ UNCHANGED clients
       ELSE \* ... and goes on with what is not.
            /\ Client(TheGC, "gctest")
            /\ of' = [of EXCEPT ![TheGC] = k] /\ at' = [at EXCEPT ![TheGC] = info[k]]
            /\ UNCHANGED <<posix, detached>>
    /\ UNCHANGED <<status, has_tid, thread_data, owner, listed, created, slot, pthread, info, ld,
                   pc, halt>>

\* Without the lock: a thread that is detached is not joined.
DiscardTest ==
    /\ cpc[TheGC] = "gctest"
    /\ Client(TheGC, IF detached[at[TheGC]] THEN "gcwait" ELSE "gcjoin")
    /\ UNCHANGED <<slots, threads, posix, ld, pc, of, at, halt>>

\* pthread_join() of info->tid, without a time limit, which returns at once when
\* the thread cannot be joined; whatever it returns is not looked at.  (In a
\* slot that has been reserved again there is no tid, and the process crashes.)
DiscardJoin ==
    /\ cpc[TheGC] = "gcjoin" /\ owner[at[TheGC]] # 0
    /\ LET k == Latest(pthread[owner[at[TheGC]]]) IN
          IF joinid[k] = Nil /\ os[k] # "gone"
          THEN /\ joinid' = [joinid EXCEPT ![k] = TheGC]
               /\ Client(TheGC, "gcjoining")
          ELSE /\ Client(TheGC, "gcwait")
               /\ UNCHANGED joinid
    /\ UNCHANGED <<slots, threads, os, ld, pc, of, at, halt>>

\* The thread has ended.
DiscardJoined ==
    /\ cpc[TheGC] = "gcjoining"
    /\ \E k \in Threads :
          /\ joinid[k] = TheGC /\ os[k] = "ended"
          /\ os' = [os EXCEPT ![k] = "gone"]
    /\ Client(TheGC, "gcwait")
    /\ UNCHANGED <<slots, threads, joinid, ld, pc, of, at, halt>>

\* Wait for the local data to go, then free the slot.
DiscardWait ==
    /\ cpc[TheGC] = "gcwait" /\ ~thread_data[at[TheGC]]
    /\ Client(TheGC, "free")
    /\ UNCHANGED <<slots, threads, posix, ld, pc, of, at, halt>>

-----------------------------------------------------------------------------
(* exitPrologThreads()                                                      *)

\* PL_cleanup() has set GD->cleaning, and thread_create/3 fails from now on; a
\* call that was past its test goes on.
HaltBegin ==
    /\ "halt" \in doing /\ halt.pc = "no"
    /\ halt' = [halt EXCEPT !.pc = "look"]
    /\ UNCHANGED <<slots, threads, posix, ld, pc, clients>>

\* Look at one slot: nothing there, a thread to join, or one to stop.
HaltLook(s) ==
    /\ halt.pc = "look" /\ halt.todo # {} /\ s = CHOOSE x \in halt.todo : TRUE
    /\ halt' = [halt EXCEPT
          !.todo = @ \ {s},
          !.at = s,
          !.pc = CASE ~thread_data[s] -> "look"
                   [] thread_data[s] /\ status[s] = "RUNNING" -> "request"
                   [] thread_data[s] /\ status[s] \in {"FAILED", "EXITED", "EXCEPTION"} -> "join"
                   [] OTHER -> "look"]
    /\ UNCHANGED <<slots, threads, posix, ld, pc, clients>>

\* pthread_join(), without a time limit, which fails at once when the thread is
\* detached or joined by another.
HaltJoin ==
    /\ halt.pc = "join"
    /\ LET k == Latest(pthread[owner[halt.at]]) IN
          IF joinid[k] = Nil /\ os[k] # "gone"
          THEN /\ joinid' = [joinid EXCEPT ![k] = Main]
               /\ halt' = [halt EXCEPT !.pc = "joining"]
          ELSE /\ halt' = [halt EXCEPT !.pc = "look"]
               /\ UNCHANGED joinid
    /\ UNCHANGED <<slots, threads, os, ld, pc, clients>>

\* The thread has ended, after its exit hooks.
HaltJoined ==
    /\ halt.pc = "joining"
    /\ \E k \in Threads :
          /\ joinid[k] = Main /\ os[k] = "ended"
          /\ os' = [os EXCEPT ![k] = "gone"]
    /\ halt' = [halt EXCEPT !.pc = "look"]
    /\ UNCHANGED <<slots, threads, joinid, ld, pc, clients>>

\* info->thread_data->exit_requested = TRUE, a NULL pointer when the thread has
\* released its data since it was looked at.
HaltRequest ==
    /\ halt.pc = "request"
    /\ IF thread_data[halt.at]
       THEN /\ exit_requested' = [exit_requested EXCEPT ![owner[halt.at]] = TRUE]
            /\ halt' = [halt EXCEPT !.pc = "raise"]
       ELSE /\ halt' = [halt EXCEPT !.pc = "crashed"]
            /\ UNCHANGED exit_requested
    /\ UNCHANGED <<slots, threads, posix, magic, acknowledge, pc, clients>>

\* The cancel function, or PL_thread_raise(): counts when it reached the thread.
HaltRaise ==
    /\ halt.pc = "raise"
    /\ LET k == owner[halt.at] IN
          halt' = [halt EXCEPT
             !.pc = "look",
             !.canceled = IF k \in Cancellable \/ (thread_data[halt.at] /\ magic[k])
                          THEN @ + 1 ELSE @]
    /\ UNCHANGED <<slots, threads, posix, ld, pc, clients>>

\* Mutant: wait until all have answered.
WaitsForAll == halt.canceled > 0

\* Are there threads to wait for, and is there time?
WaitsOn == halt.canceled > 0 /\ halt.maxwait > 0

\* Mutant: the time does not pass.
NoTick(n) == n

\* maxwait--
Tick(n) == n - 1

\* Take what has been posted, and wait for 0.1 s.
HaltWait ==
    /\ halt.pc = "look" /\ halt.todo = {}
    /\ halt' = IF WaitsOn
               THEN [halt EXCEPT !.canceled = @ - halt.sem, !.sem = 0,
                                 !.maxwait = Tick(@)]
               ELSE [halt EXCEPT !.pc = "done"]
    /\ UNCHANGED <<slots, threads, posix, ld, pc, clients>>

-----------------------------------------------------------------------------
Thread(k) == \/ SetTid(k) \/ Begin(k) \/ NoMem(k) \/ Acknowledge(k) \/ ReleaseData(k)
             \/ TestDetached(k) \/ FreeSelf(k) \/ Post(k) \/ End(k)
Goal(k) == DetachSelf(k) \/ Complete(k) \/ Kill(k)
Join(c) == JoinTry(c) \/ JoinEnded(c) \/ JoinStatus(c)
Collector == \/ DiscardTest \/ DiscardJoin \/ DiscardJoined \/ DiscardWait
             \/ \E k \in Threads : Discard(k)
Halter == \/ HaltJoin \/ HaltJoined \/ HaltRequest \/ HaltRaise \/ HaltWait
          \/ \E s \in Slots : HaltLook(s)

Step == \/ Reserve
        \/ \E s \in Slots : Abandon(s) \/ Create(s)
        \/ \E k \in Threads : Thread(k) \/ Goal(k) \/ CollectHandle(k)
        \/ \E c \in Joiners : JoinFind(c) \/ Join(c) \/ JoinTimeout(c)
        \/ \E c \in Detachers : Detach(c)
        \/ \E c \in Clients : FreeOther(c)
        \/ Collector
        \/ HaltBegin \/ Halter

Next == Step /\ UNCHANGED doing

Spec == Init /\ [][Next]_vars

\* A thread that has been started and one that is ending go on, and so do the
\* calls of others; that a goal ends, or an exit hook, is not taken for granted.
Fairness == /\ \A k \in Threads : WF_vars(Thread(k) /\ UNCHANGED doing)
            /\ \A c \in Joiners : WF_vars(Join(c) /\ UNCHANGED doing)
            /\ \A c \in Clients : WF_vars(FreeOther(c) /\ UNCHANGED doing)
            /\ WF_vars(Collector /\ UNCHANGED doing) /\ WF_vars(Halter /\ UNCHANGED doing)

FairSpec == Spec /\ Fairness

-----------------------------------------------------------------------------
(* Properties.                                                              *)

Statuses == {"UNUSED", "RESERVED", "JOINED", "RUNNING", "NOMEM", "CREATED"} \cup Completed

TypeOK ==
    /\ status \in [Slots -> Statuses]
    /\ \A f \in {detached, has_tid, thread_data, listed} : f \in [Slots -> BOOLEAN]
    /\ owner \in [Slots -> 0..created] /\ created \in 0..MaxThreads
    /\ slot \in [Threads -> Slots \cup {Nil}] /\ info \in [Threads -> Slots \cup {Nil}]
    /\ pthread \in [Threads -> 0..MaxThreads]
    /\ os \in [Threads -> {"none", "running", "ended", "gone"}]
    /\ joinid \in [Threads -> Joiners \cup {TheGC, Nil, Detached, Main}]
    /\ at \in [Clients -> Slots \cup {Nil}] /\ of \in [Clients -> 0..MaxThreads]
    /\ halt.maxwait \in 0..MaxWait /\ halt.canceled \in Int /\ halt.sem \in Nat

\* The slots that somebody is freeing, as pairs of the one who does and the slot.
Freeing == {<<k, slot[k]>> : k \in {j \in Threads : pc[j] \in {"free", "unlink"}}}
             \cup {<<c, at[c]>> : c \in {d \in Clients : cpc[d] \in {"free", "unlink"}}}

\* A slot is freed once: free_thread_info() asserts that it is not UNUSED, two
\* do not free it at the same time, and it is still that of the thread whose
\* end is being dealt with.
FreedOnce == halt.pc = "no" =>
    /\ \A f, g \in Freeing : f[2] = g[2] => f = g
    /\ \A k \in Threads : pc[k] = "free" => status[slot[k]] # "UNUSED" /\ owner[slot[k]] = k
    /\ \A c \in Clients : cpc[c] = "free" =>
                             status[at[c]] # "UNUSED" /\ owner[at[c]] = of[c]

\* A slot that can be taken for a new thread is not in use by one that runs:
\* its thread no longer looks at it and its local data are gone.
ListedIsFree ==
    \A s \in Slots : listed[s] =>
        /\ status[s] = "UNUSED" /\ ~thread_data[s]
        /\ \A k \in Threads : slot[k] = s => pc[k] \in {"post", "end", "dead"}

\* The thread still occupies its slot.
Occupies(k) == slot[k] # Nil /\ owner[slot[k]] = k /\ ~listed[slot[k]]

\* A thread that is detached by the time it looks gives its slot back for
\* another one, as the option detached(true) promises.
DetachedFreesItself ==
    \A k \in Threads : (pc[k] = "test" /\ detached[slot[k]]) ~> ~Occupies(k)

\* Once a thread that is detached has ended, its slot is free for another, as
\* the option detached(true) promises.
DetachedReclaimed ==
    \A k \in Threads : (pc[k] = "dead" /\ Occupies(k) /\ detached[slot[k]]) ~> ~Occupies(k)

\* A thread whose handle is garbage does not stay behind when it is over: it
\* was detached, or it is joined.
ForgottenReclaimed ==
    \A k \in Threads : (pc[k] = "dead" /\ Occupies(k) /\ handle[k] # "live") ~> ~Occupies(k)

\* A call of thread_join/2 comes back once the thread is over, also when the
\* thread was asked to exit and has freed its slot and detached itself.
JoinReturns ==
    \A c \in Joiners : (cpc[c] = "joining" /\ os[Target(c)] # "running") ~> (cpc[c] = "idle")

\* The threads that halting joins come to the end of their goals and exit hooks.
\* They are at their hooks when halting looks at them; but a detached one may go
\* before pthread_join() is called, and its pthread_t be that of a new thread.
JoinedEnd == \A k \in Threads : []<>~(joinid[k] = Main /\ pc[k] \in {"run", "kill"})

\* Halting ends, though other threads may never end nor react to being
\* cancelled, and threads may still be created: pthread_join() is all that has
\* no time limit, and it never waits for a thread that is gone or another's.
HaltReturns == JoinedEnd => ((halt.pc # "no") ~> (halt.pc \in {"done", "crashed"}))

\* The local data of a thread do not go while another thread works on them.
HaltHoldsData == halt.pc = "request" => thread_data[halt.at]

\* When halting is through with the threads, all of them are over.
HaltStopsThreads == halt.pc = "done" => \A s \in Slots : ~thread_data[s]
=============================================================================
