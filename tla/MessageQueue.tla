---------------------------- MODULE MessageQueue ----------------------------
(***************************************************************************)
(* One message queue of the engine (pl-thread.c) and the threads that use   *)
(* it: thread_send_message/2,3, thread_get_message/2,3,                     *)
(* thread_peek_message/2, message_queue_destroy/1, and the end of the       *)
(* thread that owns the queue.  A step of the model is what a thread does   *)
(* between two points where another thread can get in: it holds the mutex   *)
(* of the queue from lock to release, gives it up inside                    *)
(* pthread_cond_timedwait(), and frees the queue after it has unlocked it.  *)
(*                                                                          *)
(* A message is a ground term, a pattern is a ground term or the unbound    *)
(* variable Unbound.  Records, keys and stack overflow while a message is   *)
(* copied are left out: a key only rules out terms that do not unify.       *)
(***************************************************************************)
EXTENDS Naturals, FiniteSets, FiniteSetsExt, Sequences, SequencesExt

CONSTANTS Readers, Writers, Destroyers,  \* the threads, by what they call
          NoThread,   \* nobody: the owner of a mutex that is free
          Terms, Unbound,
          MaxSize,    \* max_size of the queue; 0: no bound
          Scenarios,  \* how the queue is known and who uses it: see Scenario
          Resuming    \* the threads whose signal handlers may return normally

Threads == Readers \cup Writers \cup Destroyers
Patterns == Terms \cup {Unbound}

\* A blob <message_queue>(...), an alias in queueTable, the queue of a thread.
Kinds == {"anonymous", "named", "thread"}

\* Threads send some of the terms and want some of the patterns, some of them
\* with a deadline; the bounds are the calls of each thread, and the signals sent
\* to the threads together.
Scenario == [kind : Kinds, terms : SUBSET Terms, wanted : SUBSET Patterns,
             timed : SUBSET Threads, bound : [Threads -> Nat], signals : Nat]

ASSUME ThreadAssumption == NoThread \notin Threads /\ IsFiniteSet(Threads)
ASSUME RoleAssumption == /\ Readers \cap Writers = {}
                         /\ (Readers \cup Writers) \cap Destroyers = {}
ASSUME BoundAssumption == MaxSize \in Nat
ASSUME ScenarioAssumption == \A s \in Scenarios : s \in Scenario

VARIABLES
    use,           \* the scenario of this behaviour; it never changes
    queue,         \* head .. tail: the messages with their sequence_id
    sequence_next, waiting, waiting_var, wait_for_drain, destroyed,
    listed,        \* the queue can be found: queueTable, or info->thread_data
    memory,        \* "live", then "cleared" by destroy_message_queue(), "freed"
    mutex,         \* owner of queue->mutex
    L_THREAD,      \* owner of the global thread lock
    pc,            \* where each thread is
    arg,           \* its pattern or its message
    seen,          \* `seen' of get_message()
    expired,       \* did the last wait end at the deadline?
    rc,            \* what its last call of get_message(), ... returned
    signalled,     \* is_signalled(LD)
    calls, signals \* what the bounds count

qvars == <<queue, sequence_next, waiting, waiting_var, wait_for_drain,
           destroyed, listed, memory>>
tvars == <<arg, seen, expired, rc, signalled, calls, signals>>
vars  == <<use, qvars, mutex, L_THREAD, pc, tvars>>

Unifies(p, m) == p = Unbound \/ p = m
IsVar(t) == IF arg[t] = Unbound THEN 1 ELSE 0

Init ==
    /\ use \in Scenarios
    /\ queue = <<>> /\ sequence_next = 0
    /\ waiting = 0 /\ waiting_var = 0 /\ wait_for_drain = 0
    /\ destroyed = FALSE /\ listed = TRUE /\ memory = "live"
    /\ mutex = NoThread /\ L_THREAD = NoThread
    /\ pc = [t \in Threads |-> "idle"]
    /\ arg = [t \in Threads |-> Unbound]
    /\ seen = [t \in Threads |-> 0]
    /\ expired = [t \in Threads |-> FALSE]
    /\ rc = [t \in Threads |-> "none"]
    /\ signalled = [t \in Threads |-> FALSE]
    /\ calls = [t \in Threads |-> 0]
    /\ signals = 0

-----------------------------------------------------------------------------
(* Calling a predicate, finding the queue and locking it.                   *)

\* The terms a thread calls its predicate with, and where it then goes: the
\* owner of a thread queue comes to its end or calls message_queue_destroy/1.
Args(t) == IF t \in Readers THEN use.wanted
           ELSE IF t \in Writers THEN use.terms ELSE {Unbound}
Entry(t) == IF t \in Destroyers /\ use.kind = "thread" THEN {"exit", "lookup"}
                                                   ELSE {"lookup"}

\* A thread calls one of the predicates.  The virtual machine has handled its
\* signals.  A deadline that has passed already makes
\* process_deadline_options() fail, which touches nothing.
Call(t) ==
    /\ pc[t] = "idle"
    /\ calls[t] < use.bound[t]
    /\ calls' = [calls EXCEPT ![t] = @ + 1]
    /\ \E a \in Args(t) : arg' = [arg EXCEPT ![t] = a]
    /\ signalled' = [signalled EXCEPT ![t] = FALSE]
    /\ \E e \in Entry(t) : pc' = [pc EXCEPT ![t] = e]
    /\ UNCHANGED <<qvars, mutex, L_THREAD, seen, expired, rc, signals>>

\* get_message_queue__LD(): a blob holds the address of the queue; an alias or
\* a thread is looked up with L_THREAD held, which stays held while the thread
\* blocks on the mutex of the queue.
Lookup(t) ==
    /\ pc[t] = "lookup"
    /\ IF use.kind = "anonymous"
       THEN /\ pc' = [pc EXCEPT ![t] = "lock"]
            /\ UNCHANGED <<L_THREAD, rc>>
       ELSE /\ L_THREAD = NoThread
            /\ IF listed
               THEN /\ L_THREAD' = t
                    /\ pc' = [pc EXCEPT ![t] = "lock"]
                    /\ UNCHANGED rc
               ELSE /\ rc' = [rc EXCEPT ![t] = "existence_error"]
                    /\ pc' = [pc EXCEPT ![t] = "return"]
                    /\ UNCHANGED L_THREAD
    /\ UNCHANGED <<qvars, mutex, arg, seen, expired, signalled,
                   calls, signals>>

\* Where a thread goes once it holds the mutex.
Body(t) == CASE t \in Readers -> {"scan", "peek"}
             [] t \in Writers -> {"queue"}
             [] t \in Destroyers -> {"destroy"}

\* The rest of get_message_queue__LD(): simpleMutexLock(), the test of
\* q->destroyed, PL_UNLOCK(L_THREAD); get_message() starts with seen = 0.
Lock(t) ==
    /\ pc[t] = "lock"
    /\ mutex = NoThread
    /\ L_THREAD' = IF L_THREAD = t THEN NoThread ELSE L_THREAD
    /\ IF destroyed
       THEN /\ rc' = [rc EXCEPT ![t] = "existence_error"]
            /\ pc' = [pc EXCEPT ![t] = "return"]
            /\ UNCHANGED <<mutex, seen>>
       ELSE /\ mutex' = t
            /\ \E b \in Body(t) : pc' = [pc EXCEPT ![t] = b]
            /\ seen' = [seen EXCEPT ![t] = 0]
            /\ UNCHANGED rc
    /\ UNCHANGED <<qvars, arg, expired, signalled, calls, signals>>

-----------------------------------------------------------------------------
(* Condition variables.                                                     *)

Asleep(where) == {t \in Threads : pc[t] = where}

\* The program counters after the threads in S have been woken and thread t
\* has moved on to `next'.
Woken(t, next, S) ==
    [u \in Threads |-> IF u = t THEN next
                       ELSE IF u \in S /\ pc[u] = "wait_read" THEN "relock_read"
                       ELSE IF u \in S /\ pc[u] = "wait_drain" THEN "relock_drain"
                       ELSE pc[u]]

\* The sets of threads that cv_signal() may wake: one of the sleepers, or
\* none when nobody sleeps there.
SignalOne(where) == IF Asleep(where) = {} THEN {{}}
                                          ELSE {{u} : u \in Asleep(where)}

\* Mutant: without a deadline the wait is not timed.
NoPoll(t) ==
    /\ pc[t] \in {"wait_read", "wait_drain"} /\ t \in use.timed
    /\ pc' = Woken(NoThread, "", {t})
    /\ UNCHANGED <<qvars, mutex, L_THREAD, tvars>>

\* dispatch_cond_wait(): pthread_cond_timedwait() ends by itself after at most
\* 250 ms, so that every wait, with or without a
\* deadline, is a poll ...
Poll(t) ==
    /\ pc[t] \in {"wait_read", "wait_drain"}
    /\ pc' = Woken(NoThread, "", {t})
    /\ UNCHANGED <<qvars, mutex, L_THREAD, tvars>>

\* ... or at the deadline, when that comes first.
Expire(t) ==
    /\ pc[t] \in {"wait_read", "wait_drain"}
    /\ t \in use.timed
    /\ expired' = [expired EXCEPT ![t] = TRUE]
    /\ pc' = Woken(NoThread, "", {t})
    /\ UNCHANGED <<qvars, mutex, L_THREAD, arg, seen, rc, signalled,
                   calls, signals>>

\* thread_signal/2, the alarm of a time limit: a signal becomes pending.
Signal(t) ==
    /\ signals < use.signals
    /\ ~signalled[t]
    /\ pc[t] # "idle"
    /\ signals' = signals + 1
    /\ signalled' = [signalled EXCEPT ![t] = TRUE]
    /\ UNCHANGED <<qvars, mutex, L_THREAD, pc, arg, seen, expired, rc,
                   calls>>

\* What dispatch_cond_wait() tells its caller when it has the mutex again.
WaitOutcome(t) == IF signalled[t] THEN "intr"
                  ELSE IF expired[t] THEN "timeout" ELSE "go_on"

\* Give up the mutex for a wait on a condition variable.
Sleep(t, where) ==
    /\ mutex' = IF mutex = t THEN NoThread ELSE mutex
    /\ pc' = [pc EXCEPT ![t] = where]
    /\ expired' = [expired EXCEPT ![t] = FALSE]

-----------------------------------------------------------------------------
(* Reading: get_message() and peek_message().                               *)

\* The messages get_message() tries to unify: those it has not yet rejected.
Candidates(t) == {i \in 1..Len(queue) : /\ queue[i].id >= seen[t]
                                        /\ Unifies(arg[t], queue[i].term)}

\* Mutant: the search goes on after a match.
Newest(t) == Max(Candidates(t))

\* The search ends at the first match.
Oldest(t) == Min(Candidates(t))

\* A pass over the queue that finds a message: unlink it, and wake one sender
\* when some wait for room.
Take(t) ==
    /\ pc[t] = "scan" /\ ~destroyed
    /\ Candidates(t) # {}
    /\ queue' = RemoveAt(queue, Oldest(t))
    /\ rc' = [rc EXCEPT ![t] = "true"]
    /\ \E S \in (IF wait_for_drain > 0 THEN SignalOne("wait_drain") ELSE {{}}) :
          pc' = Woken(t, "release", S)
    /\ UNCHANGED <<sequence_next, waiting, waiting_var, wait_for_drain, destroyed,
                   listed, memory, mutex, L_THREAD, arg, seen, expired,
                   signalled, calls, signals>>

\* A pass that finds nothing: count as a waiter and sleep.
WaitRead(t) ==
    /\ pc[t] = "scan" /\ ~destroyed
    /\ Candidates(t) = {}
    /\ seen' = [seen EXCEPT ![t] = Max({@} \cup {queue[i].id : i \in DOMAIN queue})]
    /\ waiting' = waiting + 1
    /\ waiting_var' = waiting_var + IsVar(t)
    /\ Sleep(t, "wait_read")
    /\ UNCHANGED <<queue, sequence_next, wait_for_drain, destroyed, listed, memory,
                   L_THREAD, arg, rc, signalled, calls, signals>>

\* A queue found destroyed at the head of the loop of get_message().
ScanDestroyed(t) ==
    /\ pc[t] = "scan" /\ destroyed
    /\ rc' = [rc EXCEPT ![t] = "existence_error"]
    /\ pc' = [pc EXCEPT ![t] = "release"]
    /\ UNCHANGED <<qvars, mutex, L_THREAD, arg, seen, expired, signalled,
                   calls, signals>>

\* Mutant: every reader is taken for one that waits with a variable.
UnwaitVar(t) ==
    /\ waiting' = waiting - 1
    /\ waiting_var' = waiting_var - 1

\* Mutant: a reader that leaves stays counted among those with a variable.
UnwaitForgetsVar(t) ==
    /\ waiting' = waiting - 1
    /\ waiting_var' = IF WaitOutcome(t) = "go_on" THEN waiting_var - IsVar(t)
                                                  ELSE waiting_var

\* A reader no longer counts as waiting, whatever ended its wait.
Unwait(t) ==
    /\ waiting' = waiting - 1
    /\ waiting_var' = waiting_var - IsVar(t)

\* A reader has the mutex again.
RelockRead(t) ==
    /\ pc[t] = "relock_read"
    /\ mutex = NoThread
    /\ mutex' = t
    /\ Unwait(t)
    /\ IF WaitOutcome(t) = "go_on"
       THEN pc' = [pc EXCEPT ![t] = "scan"] /\ UNCHANGED rc
       ELSE /\ pc' = [pc EXCEPT ![t] = "release"]
            /\ rc' = [rc EXCEPT ![t] = WaitOutcome(t)]
    /\ UNCHANGED <<queue, sequence_next, wait_for_drain, destroyed, listed, memory,
                   L_THREAD, arg, seen, expired, signalled, calls, signals>>

\* thread_peek_message/2: never waits and takes nothing.
Peek(t) ==
    /\ pc[t] = "peek"
    /\ rc' = [rc EXCEPT ![t] =
                 IF \E i \in DOMAIN queue : Unifies(arg[t], queue[i].term)
                 THEN "true" ELSE "false"]
    /\ pc' = [pc EXCEPT ![t] = "release"]
    /\ UNCHANGED <<qvars, mutex, L_THREAD, arg, seen, expired, signalled,
                   calls, signals>>

-----------------------------------------------------------------------------
(* Writing: queue_message().                                                *)

\* No room: a sender waits.
Full == MaxSize > 0 /\ Len(queue) >= MaxSize

WaitDrain(t) ==
    /\ pc[t] = "queue" /\ Full
    /\ wait_for_drain' = wait_for_drain + 1
    /\ Sleep(t, "wait_drain")
    /\ UNCHANGED <<queue, sequence_next, waiting, waiting_var, destroyed, listed,
                   memory, L_THREAD, arg, seen, rc, signalled, calls,
                   signals>>

\* Mutant: the loop does not look at q->destroyed.
DrainIgnoresDestroyed(t) == WaitOutcome(t)

\* The loop of queue_message() tests the outcome of the wait, then
\* q->destroyed, then the size.
DrainOutcome(t) == IF WaitOutcome(t) = "go_on" /\ destroyed
                   THEN "existence_error" ELSE WaitOutcome(t)

\* A sender has the mutex again.
RelockDrain(t) ==
    /\ pc[t] = "relock_drain"
    /\ mutex = NoThread
    /\ mutex' = t
    /\ wait_for_drain' = wait_for_drain - 1
    /\ IF DrainOutcome(t) = "go_on"
       THEN pc' = [pc EXCEPT ![t] = "queue"] /\ UNCHANGED rc
       ELSE /\ pc' = [pc EXCEPT ![t] = "release"]
            /\ rc' = [rc EXCEPT ![t] = DrainOutcome(t)]
    /\ UNCHANGED <<queue, sequence_next, waiting, waiting_var, destroyed, listed,
                   memory, L_THREAD, arg, seen, expired, signalled, calls,
                   signals>>

\* The readers an arriving message wakes: all of them when there are several
\* and one has a pattern, else one.
Awakened == IF waiting = 0 THEN {{}}
            ELSE IF waiting > waiting_var /\ waiting > 1
                 THEN {Asleep("wait_read")}
                 ELSE SignalOne("wait_read")

\* The number a message gets when it is appended, after any wait for room.
NextId == sequence_next + 1

\* Number the message and append it.
Put(t) ==
    /\ pc[t] = "queue" /\ ~Full
    /\ sequence_next' = NextId
    /\ queue' = Append(queue, [id |-> NextId, term |-> arg[t]])
    /\ rc' = [rc EXCEPT ![t] = "true"]
    /\ \E S \in Awakened : pc' = Woken(t, "release", S)
    /\ UNCHANGED <<waiting, waiting_var, wait_for_drain, destroyed, listed, memory,
                   mutex, L_THREAD, arg, seen, expired, signalled, calls,
                   signals>>

\* Mutant: a message gets its number before the wait for room (in seen, which
\* a sender has no use for).
NumberedEarly(t) ==
    LET number == IF seen[t] = 0 THEN NextId ELSE seen[t] IN
    /\ pc[t] = "queue"
    /\ sequence_next' = Max({sequence_next, number})
    /\ IF Full
       THEN /\ seen' = [seen EXCEPT ![t] = number]
            /\ wait_for_drain' = wait_for_drain + 1
            /\ Sleep(t, "wait_drain")
            /\ UNCHANGED <<queue, rc>>
       ELSE /\ queue' = Append(queue, [id |-> number, term |-> arg[t]])
            /\ rc' = [rc EXCEPT ![t] = "true"]
            /\ \E S \in Awakened : pc' = Woken(t, "release", S)
            /\ UNCHANGED <<wait_for_drain, mutex, expired, seen>>
    /\ UNCHANGED <<waiting, waiting_var, destroyed, listed, memory, L_THREAD, arg,
                   signalled, calls, signals>>

\* The loop of queue_message().
QueueMessage(t) == WaitDrain(t) \/ Put(t)

-----------------------------------------------------------------------------
(* Destroying and releasing.                                                *)

\* message_queue_destroy/1, which refuses the queue of a thread.
DestroyRefused(t) ==
    /\ pc[t] = "destroy" /\ use.kind = "thread"
    /\ rc' = [rc EXCEPT ![t] = "permission_error"]
    /\ pc' = [pc EXCEPT ![t] = "release"]
    /\ UNCHANGED <<qvars, mutex, L_THREAD, arg, seen, expired, signalled,
                   calls, signals>>

Destroy(t) ==
    /\ pc[t] = "destroy" /\ use.kind # "thread"
    /\ listed' = FALSE
    /\ destroyed' = TRUE
    /\ rc' = [rc EXCEPT ![t] = "true"]
    /\ pc' = Woken(t, "release", Asleep("wait_read") \cup Asleep("wait_drain"))
    /\ UNCHANGED <<queue, sequence_next, waiting, waiting_var, wait_for_drain,
                   memory, mutex, L_THREAD, arg, seen, expired, signalled,
                   calls, signals>>

\* freePrologThread() takes L_THREAD for the end of the owner of the queue.
ExitBegin(t) ==
    /\ pc[t] = "exit"
    /\ L_THREAD = NoThread
    /\ L_THREAD' = t
    /\ pc' = [pc EXCEPT ![t] = "exit_loop"]
    /\ UNCHANGED <<qvars, mutex, tvars>>

\* Mutant: the owner does not look for senders.
ReadersWait == waiting > 0

\* Somebody is inside a wait on the queue.
SomebodyWaits == waiting > 0 \/ wait_for_drain > 0

\* destroy_thread_message_queue(): lock, wake whoever waits, unlock, until
\* nobody waits any more; the local data of the thread goes right after it.
ExitLoop(t) ==
    /\ pc[t] = "exit_loop"
    /\ mutex = NoThread
    /\ destroyed' = TRUE
    /\ IF SomebodyWaits
       THEN /\ pc' = Woken(NoThread, "", Asleep("wait_read") \cup Asleep("wait_drain"))
            /\ UNCHANGED <<queue, listed, memory, L_THREAD>>
       ELSE /\ queue' = <<>> /\ memory' = "freed" /\ listed' = FALSE
            /\ L_THREAD' = NoThread
            /\ pc' = [pc EXCEPT ![t] = "idle"]
    /\ UNCHANGED <<sequence_next, waiting, waiting_var, wait_for_drain, mutex, tvars>>

\* Mutant: whoever waits is not looked at.
DeletesAtOnce == destroyed /\ use.kind # "thread"

\* release_message_queue(): whoever unlocks a destroyed queue that nobody
\* waits for is to delete it.
Deletes == destroyed /\ ~SomebodyWaits /\ use.kind # "thread"

Release(t) ==
    /\ pc[t] = "release"
    /\ mutex' = IF mutex = t THEN NoThread ELSE mutex
    /\ pc' = [pc EXCEPT ![t] = IF Deletes THEN "delete" ELSE "return"]
    /\ UNCHANGED <<qvars, L_THREAD, tvars>>

\* The blob of an anonymous queue keeps its memory and its mutex.
Remains == IF use.kind = "anonymous" THEN "cleared" ELSE "freed"

\* destroy_message_queue() and PL_free(), after the mutex has been unlocked.
Delete(t) ==
    /\ pc[t] = "delete"
    /\ queue' = <<>>
    /\ memory' = Remains
    /\ pc' = [pc EXCEPT ![t] = "return"]
    /\ UNCHANGED <<sequence_next, waiting, waiting_var, wait_for_drain, destroyed,
                   listed, mutex, L_THREAD, tvars>>

\* Mutant: a reader, too, goes on with a queue that it has released.
ResumeInside(t) == IF t \in Readers THEN "scan" ELSE "queue"

\* Where a call goes on after a signal whose handlers returned normally: a
\* reader looks the queue up again, a sender calls queue_message() once more.
Resume(t) == IF t \in Readers THEN "lookup" ELSE "queue"

\* The end of thread_get_message__LD() and of wait_queue_message(): the answer
\* goes to the caller, as an exception when the handler of a signal raised one.
Return(t) ==
    /\ pc[t] = "return"
    /\ signalled' = [signalled EXCEPT ![t] = FALSE]
    /\ rc' = [rc EXCEPT ![t] = "none"]
    /\ seen' = [seen EXCEPT ![t] = 0]
    /\ expired' = [expired EXCEPT ![t] = FALSE]
    /\ \/ /\ pc' = [pc EXCEPT ![t] = "idle"]
          /\ arg' = [arg EXCEPT ![t] = Unbound]
       \/ /\ rc[t] = "intr" /\ t \in Resuming
          /\ pc' = [pc EXCEPT ![t] = Resume(t)]
          /\ UNCHANGED arg
    /\ UNCHANGED <<qvars, mutex, L_THREAD, calls, signals>>

-----------------------------------------------------------------------------
Acquire(t) == Lookup(t) \/ Lock(t) \/ RelockRead(t) \/ RelockDrain(t)
                \/ ExitBegin(t) \/ ExitLoop(t)
Inside(t) == Take(t) \/ WaitRead(t) \/ ScanDestroyed(t) \/ Peek(t)
               \/ QueueMessage(t) \/ Destroy(t) \/ DestroyRefused(t) \/ Release(t)
               \/ Delete(t) \/ Return(t)

Runs(t) == Poll(t) \/ Acquire(t) \/ Inside(t)

Next == /\ \E t \in Threads : Call(t) \/ Signal(t) \/ Expire(t) \/ Runs(t)
        /\ UNCHANGED use

\* The kernel lets a running thread go on, ends a timed wait, and lets a
\* thread that blocks on a mutex have it when it is unlocked again and again.
Fairness == \A t \in Threads : SF_vars(Runs(t) /\ UNCHANGED use)

Spec == Init /\ [][Next]_vars
FairSpec == Spec /\ Fairness

-----------------------------------------------------------------------------
(* Properties.                                                              *)

Reading  == {"wait_read", "relock_read"}
Draining == {"wait_drain", "relock_drain"}
Waits    == Reading \cup Draining
Locked   == {"scan", "peek", "queue", "destroy", "release"}
Places   == Waits \cup Locked \cup {"idle", "lookup", "lock", "exit", "exit_loop",
                                     "delete", "return"}
At(S)    == {t \in Threads : pc[t] \in S}

Results  == {"none", "true", "false", "intr", "timeout", "existence_error",
             "permission_error"}

TypeOK ==
    /\ queue \in Seq([id : Nat, term : Terms]) /\ sequence_next \in Nat
    /\ waiting \in Nat /\ waiting_var \in Nat /\ wait_for_drain \in Nat
    /\ destroyed \in BOOLEAN /\ listed \in BOOLEAN
    /\ memory \in {"live", "cleared", "freed"}
    /\ mutex \in Threads \cup {NoThread} /\ L_THREAD \in Threads \cup {NoThread}
    /\ pc \in [Threads -> Places]
    /\ arg \in [Threads -> Patterns]
    /\ seen \in [Threads -> Nat] /\ expired \in [Threads -> BOOLEAN]
    /\ rc \in [Threads -> Results]
    /\ signalled \in [Threads -> BOOLEAN]
    /\ calls \in [Threads -> Nat] /\ \A t \in Threads : calls[t] <= use.bound[t]
    /\ signals \in 0..use.signals

\* queue_message() and get_message() are only entered with the mutex of the
\* queue held (the comments above both), and so is everything up to
\* release_message_queue().
MutexHeld == \A t \in At(Locked) : mutex = t

\* waiting, waiting_var and wait_for_drain count the threads that really wait,
\* however their waits end: destroying and deleting rely on it.
CountersExact ==
    /\ waiting = Cardinality(At(Reading))
    /\ waiting_var = Cardinality({t \in At(Reading) : arg[t] = Unbound})
    /\ wait_for_drain = Cardinality(At(Draining))

\* The messages that a reader skips because it has seen them cannot match:
\* no message it waits for is ever passed over, and none overtakes another.
SeenRejected ==
    \A t \in At(Reading) : \A i \in DOMAIN queue :
        queue[i].id <= seen[t] => ~Unifies(arg[t], queue[i].term)

\* A thread that has found the queue locks a mutex that still exists, and a
\* thread that is inside it, asleep or not, finds it undeleted.
NoUseAfterFree ==
    /\ memory = "freed" => At({"lock"}) = {}
    /\ memory # "live" => At(Waits \cup Locked) = {}

\* At most one thread deletes the queue, and it does so once, when nobody waits
\* (the assertion of destroy_message_queue()).
DeletedOnce ==
    \A t \in At({"delete"}) : /\ memory = "live" /\ waiting = 0 /\ wait_for_drain = 0
                              /\ At({"delete"}) = {t}

\* The queue implements the mailbox it promises: bounded by max_size, each
\* reader is given the oldest message that unifies with its pattern, nothing is
\* lost, invented or delivered twice, a call that is given up has no effect, and
\* no call succeeds once the queue is destroyed.
MB == INSTANCE Mailbox WITH
          Senders <- Writers, Receivers <- Readers,
          contents <- IF destroyed THEN <<>>
                      ELSE [i \in DOMAIN queue |-> queue[i].term],
          open <- ~destroyed,
          arg <- [t \in Readers \cup Writers |-> arg[t]],
          done <- {t \in Readers \cup Writers : rc[t] = "true"}
ImplementsMailbox == MB!Spec

\* The threads that sleep although what they wait for is there: a message that
\* matches, or room.
Stuck == {t \in Asleep("wait_read") :
              \E i \in DOMAIN queue : Unifies(arg[t], queue[i].term)}
           \cup {t \in Asleep("wait_drain") : ~Full}

\* Nobody sleeps on: a wake-up that went to a thread which left on a signal or at
\* its deadline is made up for by the poll, so that again and again no reader
\* sleeps beside a message for it and no sender beside room.
NobodyForgotten == []<>(Stuck = {})

\* Everyone who waits for a queue that is destroyed leaves, and the queue is
\* deleted.
DestroyedIsLeft == destroyed ~> (At(Waits) = {} /\ memory # "live")
=============================================================================
