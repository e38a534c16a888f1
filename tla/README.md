# TLA+ models of rolog

rolog lets R run Prolog goals. It embeds SWI-Prolog 7.7.10 in the R process and
drives it through the foreign language interface (FLI) and the C++ classes of
`SWI-cpp.h`. This directory models the bridge, the part of the engine the bridge
relies on, the translation of values, and the parts of the engine that its
threads share: message queues, clauses and their garbage collector, and the
threads themselves. TLC model-checks the models. For every value of their constants
TLAPS proves the safety of the bridge, of the stacks below it, of the message queue,
of clauses and their collector, of the table of threads and of their lives, and that
stacks, queue and table implement their abstract specifications.

Paths below are relative to the repository; `pl-*.c` are files of
`src/swipl-7.7.10/src/`, `SWI-cpp.h` is in `src/swipl-7.7.10/packages/cpp/`.

## The system

| part | state | operations | interacts with |
|---|---|---|---|
| Engine management, `rolog_init.cpp` | the global pointer `rolog_engine` | `rolog_init`, `rolog_exit` | `PlEngine` → `PL_initialise()`, `PL_cleanup()`; a goal that asserts the library directory |
| Entry points that run goals, `rolog_call.cpp`, `rolog_consult.cpp`, `rolog_query*.cpp` | none of their own between calls: C++ objects during a call, terms on the engine's stacks after it | `rolog_call`, `rolog_consult`, `rolog_query`, `rolog_query_LL`, `rolog_query_comp`, `rolog_query_string` | `PlFrame`, `PlQuery`, `PlCall` |
| Translation of values, `rolog_query.cpp`, `rolog_query_LL.cpp` | none | `leaf()`, `pl2r_leaf()`, `rolog_get()` | term references of the call, R's allocator |
| Wrappers, `RcppExports.cpp`, `R/RcppExports.R` | none | `BEGIN_RCPP` … `END_RCPP` turn C++ exceptions into R errors | R |
| C++ interface, `SWI-cpp.h` | `PlFrame::fid`, `PlQuery::qid` | constructors, destructors, `next_solution()` | the FLI |
| FLI, `pl-wam.c`, `pl-fli.c` | frames on the local stack, `fli_context`, `LD->query`, the pending exception | frames, queries, `PL_raise_exception()` | the virtual machine |
| Backtracking, `pl-wam.c`, `pl-incl.h`, `pl-inline.h`, `pl-gvar.c` | global stack, trail, `mark_bar`, `frozen_bar`, marks | `Mark`, `DiscardMark`, `Undo`, `Trail` | FLI and virtual machine |
| Life cycle, `pl-init.c`, `pl-setup.c`, `pl-pro.c` | `GD->initialised`, `GD->halt_cancelled` | `PL_initialise()`, `cleanupProlog()`, `query_loop()` | halt handlers written in Prolog |
| Message queues, `pl-thread.c` | the messages with their numbers, the counters of those who wait, `destroyed`, the mutex | `thread_send_message/2,3`, `thread_get_message/2,3`, `thread_peek_message/2`, `message_queue_destroy/1`, the end of the owner | signals to threads, `L_THREAD` |
| Clauses, `pl-proc.c`, `pl-index.c`, `pl-inline.h`, `pl-gc.c` | the chain of a predicate, generations, flags, the dirty predicates | assert, erase, the walk of a goal with its choice point, `garbage_collect_clauses/0` | every thread, which marking visits |
| Threads, `pl-thread.c` | `PL_thread_info_t` structures, their free list, handles, POSIX threads | `thread_create/3`, the end of a thread, `thread_join/2`, `thread_detach/1`, collection of handles, `exitPrologThreads()` | `halt/1` and `rolog_exit`, which stop the threads |

R is single threaded, so there is no concurrency inside the bridge. What makes the
bridge hard is that control crosses between R, C++ and Prolog several times in a call,
that every crossing has several ways to come back (answer, failure, exception,
`halt/0`), that C++ exceptions unwind objects whose destructors call the engine
again, and that the engine keeps state from one call to the next: references in
the base frame, bindings, and a pending exception that the bridge never clears.

The engine below it is built with threads (`O_PLMT`), and there is more than one as
soon as a goal makes one or the engine starts its own thread `gc`, which collects
atoms and clauses in the background. Every goal R runs then walks over clauses
that another thread may be collecting, every message goes through a queue whose
other side may be leaving it, and `rolog_exit` ends in `exitPrologThreads()`, which
has to stop them all. Much of that code works without locks, on single words. What
can go wrong there needs two or three threads and an unlucky order.

`PROJECT.json` lists the hazards of both kinds, each at its line.

What correctness means here:

- *sessions*: frames and queries are given back on every path; handles match
  frames; no references are created without a foreign environment; a list of
  answers is complete and in order; exceptions reach R and come from somewhere;
  the leak of a call does not depend on its answers; every call returns;
- *life cycle*: after `rolog_init` the engine is usable;
- *backtracking*: whoever sets a mark can get back the memory of that moment;
- *translation*: which values survive a round trip, and which terms are refused;
- *queues*: a queue is a bounded mailbox whatever signals, deadlines and
  destruction do; nobody sleeps beside what he waits for; the queue is deleted
  once, when nobody is inside;
- *clauses*: no memory is freed under a goal; a goal finds the clauses of its
  generation, and each once; erased clauses are freed in the end;
- *threads*: a structure is used by one thread at a time, freed once and not lost;
  joining comes to an end, and halting does when the threads it joins do.

## Modules

`PrologEngine` — the registers of the local stack (`lstack`, `lTop`,
`fli_context`, `query`) as a record and every FLI function as an operator from
registers to registers, so that the bridge's actions are compositions of the
calls the code makes. A function whose result depends on the Prolog program is
the set of its results. A `fid_t` or `qid_t` is the position of a frame, and
`lTop` counts words: one per frame, one per term reference. Exceptions have the
classes of `classify_exception_p()`; a resource error has the class of an error,
because that is what the code computes (its first argument is not an atom).

`RologSession` (extends `PrologEngine`) — the R session. `pc` is the step of the
active call; a step is what happens between two crossings of the border:

| action | code |
|---|---|
| `RologQuery(f)`, `RologQueryString`, `RologCall`, `RologConsult`, `RologInit`, `RologExit` | the entry points up to the point where their query is opened, or their early return |
| `QueryWithoutEngine`, `InitialiseExits` | a query without an engine; an initialisation that ends the process |
| `ConsultFile`, `NextFile` | the loop of `rolog_consult` |
| `OpenQuery` | `PlQuery::PlQuery()`, with no room too |
| `RunGoal`, `NoChoicePoint`, `GoalHalts` | `PL_next_solution()`: answer, failure, exception, an old exception thrown again; the call after a last answer; `halt/0` in the goal |
| `Failed`, `Row`, `Read` | what `PlQuery::next_solution()` and the loops do with the result |
| `Unwind` | the destructors when a C++ exception passes |

`produced`, `more`, `blame` and `base` are history variables; `reply` is what R
got together with that history.

`FliStacks` — the memory. A word of the global or local stack holds a value or is
unbound. Foreign frames, queries, the frame of an answer and choice points each
hold a mark; the action that leaves one undoes it, discards it or both, in the
order of the code. A binding is trailed only if it is older than `mark_bar`.
A mark also has a history field `snap`, the memory when it was set.

`SnapshotStore` — the abstract specification of `FliStacks`: marks are copies of
the memory, undoing copies back. There is no trail and no bar.

`TermConversion`, `MCTermConversion` — `leaf()`, `pl2r_leaf()` and `rolog_get()`
as recursive operators on R values and Prolog terms, and small sets of both. The
content of a double or a text is abstract; the range of the C `int` is a
constant, as is the set of names without Latin-1 text. A read past the end of
an empty vector finds any word, or ends the process.

`MessageQueue` — one queue and the threads that use it. `queue` .. `destroyed` are
the fields of `message_queue`, `memory` says whether `destroy_message_queue()` and
`free()` have been reached, `pc` is where each thread is between two points at
which another one can get in:

| action | code |
|---|---|
| `Call`, `Lookup`, `Lock` | `get_message_queue__LD()`: find the queue under `L_THREAD`, then lock its mutex |
| `Take`, `WaitRead`, `ScanDestroyed`, `RelockRead` | `get_message()`: a message that unifies; none, so wait; woken up |
| `Peek` | `peek_message()` |
| `QueueMessage` (`WaitDrain`, `Put`), `RelockDrain` | `queue_message()`: wait for room; number the message, append it and wake a reader |
| `Destroy`, `DestroyRefused` | `message_queue_destroy/1` |
| `ExitBegin`, `ExitLoop` | the end of the thread the queue belongs to |
| `Release`, `Delete`, `Return` | `release_message_queue()`; what the caller does with the result: a signal means once more |
| `Poll`, `Expire`, `Signal` | the other ends of `dispatch_cond_wait()`: 250 ms, the deadline, a signal |

`Mailbox` — the abstract specification of `MessageQueue`: a sequence of at most
`max_size` terms that is open or closed, and the message or pattern of each thread's
call. A call succeeds at most once (`done`): a sender's appends its message, a
receiver's takes the oldest term that unifies with its pattern or looks whether there
is one, and a call that does not succeed changes nothing. After `Close` nothing
succeeds. There are no locks, counters, sequence numbers or wake-ups.

`MCMessageQueue` — the scenarios in which TLC looks at a queue: who makes how many
calls, with which terms and patterns, who has a deadline, how many signals there are.

`ClauseGC` — one dynamic predicate. The chain is `first`, `next`, `last`; `where`
says what has become of a clause, down to `freed`. A caller has a cursor, a choice
point, a clause it executes and a generation; a step is one access to memory that
another thread may write:

| action | code |
|---|---|
| `ReadGen`, `Store`, `Activate`, `Verify`, `PublishLate` | `setGenerationFrame()` and `pushPredicateAccess()`: choosing a generation and making it known to marking |
| `Enter`, `Walk`, `WalkEnd`, `Choose`, `Leave` | `firstClause()`, `nextClause()`, `setClauseChoice()` between two answers, `popPredicateAccess()` |
| `AssertLink`, `EraseFlag`, `NextGeneration`, `Stamp`, `Register` | `assertProcedure()`, `retractClauseDefinition()`, `registerDirtyDefinition()` |
| `CgcStart` … `CgcMark` | `pl_garbage_collect_clauses()` up to the marking of all threads |
| `CgcClean`, `CgcSweep`, `CgcSwept` | `cleanDefinition()` |
| `CgcGrab`, `CgcInUse`, `CgcFree` | `gcClauseRefs()`: are the lingering clauses in use, free them |

`early[t]` is a history: could marking find the generation of `t` before it was
chosen? It is so for a frame that is linked already, and not for the entry that
`pushPredicateAccess()` makes visible afterwards.

`ThreadTable` — the free list of `PL_thread_info_t` structures and
`thread_highest_id`, both changed by compare and swap. `alloc_thread()` is
`ReadFree` … `Raise`, `free_thread_info()` is `Mark` … `TryPush`, one action per
access to a shared word.

`ThreadPool` — the abstract specification of `ThreadTable`: each structure is free,
reserved for a thread or on its way back, and each step moves one of them. The list
and the compare and swap are gone.

`ThreadLife` — the life of threads with the free list taken as atomic, which is what
`ThreadTable` implementing `ThreadPool` allows:

| action | code |
|---|---|
| `Reserve`, `Abandon`, `Create` | `thread_create/3` past its test of `GD->cleaning`: a structure, wrong options, `pthread_create()` |
| `SetTid`, `Begin`, `NoMem`, `End` | `start_thread()` |
| `DetachSelf`, `Complete` | the goal of the thread, `thread_exit/1` |
| `Acknowledge`, `Kill`, `ReleaseData`, `TestDetached`, `FreeSelf`, `Post` | `freePrologThread()`; `Kill` is the end of the exit hooks |
| `JoinFind` … `JoinStatus`, `FreeOther` | `thread_join/2` |
| `Detach` | `thread_detach/1` for another thread |
| `CollectHandle`, `Discard`, `DiscardTest` … `DiscardWait` | the thread `gc` is handed a garbage handle: `discard_thread()` detaches a thread that is alive, joins one that is over unless it is detached (tested without the lock), waits for the local data to go and frees the structure, whoever else may |
| `HaltBegin`, `HaltLook`, `HaltJoin`, `HaltJoined`, `HaltRequest`, `HaltRaise`, `HaltWait` | `exitPrologThreads()`; `HaltJoined` is the return of a `pthread_join()` that has no time limit |

`free_thread_info()` is two steps, marking the structure unused and giving it back
(`MarkSelf`, `UnlinkSelf`; `MarkOther`, `UnlinkOther`). `os` and `joinid` model POSIX
threads as in glibc: who joins is registered, a join with a time limit takes that back
when the limit is over, a thread that is detached or has a joiner cannot be joined by
another, and a `pthread_t` may be used again once its thread is gone. Testing
`GD->cleaning` and `alloc_thread()` are one step; a creation past that goes on during
halt. `doing` is the scenario.

Memory is sequentially consistent in all of them.

Proofs are kept in modules of their own. `RologSessionProofs` has the structure of the
bridge's calls (frames, queries, handles) and `RologHistoryProofs` what R gets from
them; `FliStacksProofs`, `MessageQueueProofs`, `ClauseGCProofs`, `ThreadTableProofs` and
`ThreadLifeProofs` belong to the modules of these names. `DataLemmas` has facts about
sequences, finite sets and least elements that several of them use.

## Runs

| run | module, configuration | result |
|---|---|---|
| `session` | `RologSession.cfg` | passes, 167,918 states |
| `stacks` | `FliStacks.cfg` | passes, 279,429 states |
| `terms` | `MCTermConversion.cfg` | passes, 69,698 states |
| `stale_exception` | `V_OwnException.cfg` | violated: an exception R has already seen is reported again by a later call that merely fails |
| `string_first_solution` | `V_AllSolutionsString.cfg` | violated: `rolog_query_string` returns one answer |
| `exit_cancelled` | `V_ExitStops.cfg` | violated: `rolog_exit` returns with the engine running |
| `init_twice` | `V_InitMeansBooted.cfg` | violated: a second `rolog_init` succeeds on an engine that did not start |
| `queue` | `MCMessageQueue.cfg` | passes, 155,693 states |
| `queue_order` | `MCMessageQueue`, `MessageOrder.cfg` | passes, 1,770,672 states |
| `clauses` | `ClauseGC.cfg` | passes, 360,512 states |
| `thread_table` | `ThreadTable.cfg` | passes, 36,416 states |
| `threads` | `ThreadLife.cfg` | passes, 258,671 states |

The five violated properties are sentences of the manual pages in `man/` or of
`foreign.doc`; the findings in `PROJECT.json` quote them. The passing run does
not contradict them: `ExceptionHasOrigin`, for instance, admits an exception
that was pending when the call began, which is what the code does.

*`session`.* Two solutions, one of which R cannot hold, up to two answers of a
goal, up to two files per `rolog_consult`, and two exceptions of different
urgency (`resource`, `timeout`), so that an old exception can be kept against a
new one and the other way round. `RefLimit = 8` bounds what calls leave in the
base frame before the next is made, which leaves room for three calls in a row
and for any number of calls that leave nothing; every effect of one call on
another found so far needs two. `MAX_HALT_CANCELLED` is 10 in the code and 3
here: two cancelled halts, then one that is not.

*`stacks`.* Two words of global stack, one reference of the base frame, two trail
entries and four marks. A word can be older than all marks, between two marks,
or newer than all, and be trailed, assigned with a saved word, or frozen; four
marks allow a query within the answer of a query, or two choice points in a
query. Without symmetry, since there is only one value.

*`terms`.* Vectors of up to two elements of every type, calls and compounds of up
to two arguments, named and not, one level of nesting, proper and partial lists;
integers below, at and above the bounds of `int` (3 bits, -3 .. 2).

*`queue`.* A queue with room for one message, so that it is full as soon as it is
not empty, and five scenarios, each with three or four threads: two readers with
patterns, one of which takes what the other has rejected (`Patterned`); two readers
of which one may leave on a signal or at its deadline, with the wake-up that was
meant for both (`Interrupted`); two senders that wait for room (`Crowded`); a queue
that is destroyed while a reader and two senders use it (`Destroyed`); a queue whose
owner ends (`OwnerEnds`). The run shows that the mutex is held where the comments say
so, that the three counters are exact on all the paths that decrement them, that the
queue is deleted once and under nobody, that no one sleeps on, and that a destroyed
queue is left and deleted. Two cases are kept out of it, because there the code does
not keep these promises: signal handlers that return normally into a sender, and queues
with an alias (see below).

*`queue_order`.* The order of messages needs room for two, so that a reader can take the
second and leave the first, or skip what it has rejected. There are four scenarios with
two terms: two senders, one of which waits for room while a reader makes it and the
other reader has rejected what is there, so that a number taken before the wait would
be too low when its message is appended (`Overtaking`); three messages for two readers,
one with a variable, which must get the oldest (`Choosing`); a reader that may leave at
its deadline or on a signal and call again (`GivingUp`); two senders, a reader and a
destroyer (`Closing`). A skipped message cannot match, and the queue implements
`Mailbox`. The run is apart from `queue` because liveness of this many states takes too
long; the reverse, one slot, is what makes senders wait in `queue`.

*`clauses`.* A goal and a writer; two clauses at first and room for a third; two
changes, which may be two erasures, an assertion and an erasure of the same clause,
or of the last clause of the chain; any number of collections. Two erasures around
the place where the goal has its cursor or choice point are what it takes to free
memory under it. The run shows that goals whose generation marking finds in time
(`early`) hold nothing that is freed, miss no clause of their generation and give none
twice (`AnsweredOnce`), that
the chain stays whole although the collector walks it without the lock, and that
erased clauses are freed.

*`thread_table`.* One thread that creates others and two that end, four structures
(that of the main thread included) and five creations, so that structures are
used again. No structure is lost or in two places, and the lock-free list implements
`ThreadPool`.

*`threads`.* Two threads, one after the other in one structure or (`crowd`) at the same
time in two, and six scenarios of what goes on meanwhile: joining, detaching oneself
or being detached, handles that become garbage, no memory, halt. Halt
waits twice where the code waits ten times. Joining and detaching the same thread is not
among them, one thread at a time joins, and handles are discarded neither while threads
detach themselves nor during halt (see below: the hypotheses `Apart`, `OneJoiner` and
`DiscardAlone` of the theorems hold of this run). `FreedOnce` is about the time before
halt begins: halt joins without looking who else does.

### Counterexamples kept beside the runs

These configurations check what the code or its documentation says in cases where
the models do not keep it. `tlc -config <file> <module>` shows the trace; they are not
among the runs.

| configuration, module | property | what happens | what is said |
|---|---|---|---|
| `V_EngineBeforeUse.cfg`, `RologSession` | `EngineBeforeUse` | the query functions create term references without looking at `rolog_engine` (`rolog_query.cpp:234`) | "`PL_initialise()` must be called before any of the other SWI-Prolog foreign language functions" (`man/foreign.doc:3309`) |
| `V_SenderUnlocked.cfg`, `MCMessageQueue` | `MutexHeld` | a signal handler returns normally into `wait_queue_message()`, which calls `queue_message()` again without the lock it has released (`pl-thread.c:4381`) | "The caller must hold the queue-mutex." (`pl-thread.c:3816-3817`) |
| `V_NamedFreed.cfg`, `MCMessageQueue` | `NoUseAfterFree` | a queue with an alias is freed after it is unlocked, while a thread that has found it blocks on its mutex (`pl-thread.c:4753`) | "deleting it if it is no longer needed" (`pl-thread.c:4744`) |
| `V_PushRace.cfg`, `ClauseGC` | `NoneDangles` | `pushPredicateAccess()` chooses a generation and raises `refs->top` afterwards (`pl-thread.c:6848`); a collection in between frees a clause of that generation | "This loop ensure that if CGC has been running between global_generation() and storing the generation in our frame, our generation is updated" (`pl-inline.h:507-514`) |
| `V_Snapshot.cfg`, `ClauseGC` | `SnapshotExact` | the generation is incremented before the clause is stamped (`pl-proc.c:1377`): a goal that starts in between sees an erased clause | "Only clauses with a `created' … `erased' interval that encloses the generation of the current goal are considered visible." (`man/builtin.doc:3342`) |
| `V_HighestCovers.cfg`, `ThreadTable` | `HighestCovers` | `free_thread_info()` lowers `thread_highest_id` below a structure taken since it looked (`pl-thread.c:2338`) | "Highest handed thread-id" (`pl-thread.c:226`), "do not update if alloc_thread() did" (`pl-thread.c:2337`) |
| `V_AllocTwice.cfg`, `ThreadTable` | `AllocFresh` | two creators: the head of the free list was taken and returned since its successor was read (`pl-thread.c:1318`) | "MT: thread-safe" (`pl-thread.c:1308`) and the assertion of line 1322 |
| `V_DetachLeak.cfg`, `ThreadLife` | `DetachedReclaimed` | a thread is detached after it looked at `info->detached` and before its end (`pl-thread.c:2468`) | "the system will reclaim all associated resources automatically after the thread finishes" (`man/threads.doc:119-121`) |
| `V_JoinDetach.cfg`, `ThreadLife` | `FreedOnce` | `thread_detach/1` frees a thread that `thread_join/2` has joined and is about to free (`pl-thread.c:2475`) | the assertion of `pl-thread.c:2300` |
| `V_JoinTwice.cfg`, `ThreadLife` | `FreedOnce` | two threads join the same one; the second waits on after its 250 ms, the structure and the `pthread_t` get a new thread meanwhile, and it joins and frees that one under the old handle's `info` (`pl-thread.c:2398`, `pl-thread.c:2415`) | the assertion of `pl-thread.c:2300`, "already joined" (`pl-thread.c:2422`) |
| `V_DiscardDetached.cfg`, `ThreadLife` | `FreedOnce` | a thread detaches itself when its handle is in the list of garbage handles, and ends: `discard_thread()` finds it over and detached, skips the join and frees the structure (`pl-thread.c:1131-1143`), as the thread itself does (`pl-thread.c:654`) | the assertion of `pl-thread.c:2300`, "The engine has completed. Join it." (`pl-thread.c:1101`) |
| `V_DiscardHalt.cfg`, `ThreadLife` | `ListedIsFree` | halt joins a thread at its end that the thread `gc` is to discard: the `pthread_join()` of `discard_thread()` fails, which nobody looks at, and the structure is free before the thread has looked at `info->detached` (`pl-thread.c:1134`) | "The engine has completed. Join it." (`pl-thread.c:1101`) |
| `V_HandleLeak.cfg`, `ThreadLife` | `ForgottenReclaimed` | the handle becomes garbage before the thread has set `has_tid` (`pl-thread.c:1121`) | "Detach it, such that it will be reclaimed silently when done." (`pl-thread.c:1099-1100`) |
| `V_HaltLeaves.cfg`, `ThreadLife` | `HaltStopsThreads` | `exitPrologThreads()` passes over threads that are `CREATED` and gives up on those that do not react (`pl-thread.c:954`) | "Threads not responding within 1 second are cancelled forcefully." (`man/builtin.doc:9030-9032`) |
| `V_HaltDrops.cfg`, `ThreadLife` | `HaltHoldsData` | halt tests `info->thread_data` and uses it later, when the thread may have released it (`pl-thread.c:924`) | "we do need to prevent ld from dropping while we process it" (`pl-thread.c:1462-1463`) |

### Fairness

`CallReturns` of `RologSession` uses `WF_vars(CallStep)`: R made
the call and waits in it, nothing else runs in the process, so a step of the call
that can be taken is taken. `MaxSolutions` bounds the answers of a goal and a
resumption of a goal is one step, hence what is shown is that the bridge does not
add a loop of its own to a goal that terminates. R itself is under no obligation
to call.

`NobodyForgotten` and `DestroyedIsLeft` of `MessageQueue` use `SF_vars(Runs(t))`. A
thread is at one place at a time, so this is three things: a thread that runs goes
on; `pthread_cond_timedwait()` ends after 250 ms; and a thread that blocks on a mutex
gets it if it is unlocked again and again, which POSIX does not promise but the
kernel's queues give. Deadlines and signals need not come, calls need not be made.

`Reclaimed` of `ClauseGC` has goals, changes and collections that have begun go on.
That collections are started again and again, and that goals stop coming, are
hypotheses of the property (`CollectedAgain`, `Quiet`): the first is the decision of
`considerClauseGC()`, which is not modelled, and without the second a goal may be in
the chain whenever the collector looks, as in the code.

`DetachedFreesItself`, `JoinReturns` and `HaltReturns` of `ThreadLife` have the code of
the engine go on, in the thread, in those who join or free it, and in halt. What is the
program's own is not fair: a goal need not end or react to being cancelled (`Complete`),
nor need the hooks a thread runs at its exit (`Kill`), a time limit need not run out,
and nobody has to call. Halt waits without limit for the threads it joins, and so hangs
when an exit hook of one does not end: `HaltReturns` has the hypothesis `JoinedEnd`, that
the thread halt joins comes to the end of its goal and hooks. (Halt finds it at its hooks;
but if that one is detached it may be gone before `pthread_join()` is called, and its
`pthread_t` be that of a new thread, which halt then waits for.) Threads that halt does
not join may run for ever, and creations may still be under way.

## Proofs

All theorems hold for every value of the constants that satisfies the assumptions
of the modules: any sets of exceptions, terms, threads and files, any sizes and
bounds. A theorem with a further hypothesis names it; each of these hypotheses
excludes a case in which a counterexample above shows that the property fails, so
that run and theorem together say exactly where the code keeps its promise.

| module | theorem | states | hypothesis |
|---|---|---|---|
| `RologSessionProofs` | `TypeCorrect`, `HandlesHold`, `ContextHolds` | `TypeOK`, `FramesMatchHandles`, `ContextCurrent` | |
| | `Balanced`, `EngineAliveHolds` | `StackBalanced`, `EngineAlive`; no run checks these two, which follow from the invariant | |
| `RologHistoryProofs` | `EveryAnswerReturned`, `ExceptionsReachR`, `ExceptionsExplained`, `LeakBounded`, `InitUsable` | `AllSolutions`, `NoSwallowedException`, `ExceptionHasOrigin`, `BoundedLeak`, `InitMakesUsable` | |
| `FliStacksProofs` | `TypeCorrect`, `BarsCorrect`, `NothingLost` | `TypeOK`, `BarsInStack`, `Recoverable` | |
| | `Refinement` | `ImplementsStore`: `FliStacks` implements `SnapshotStore` | |
| `MessageQueueProofs` | `TypeCorrect`, `ExactCounters`, `NothingSkipped` | `TypeOK`, `CountersExact`, `SeenRejected` | |
| | `MutexIsHeld` | `MutexHeld` | `SendersRaise` (`V_SenderUnlocked.cfg`) |
| | `DeletedSafely`, `DeletedByOne` | `NoUseAfterFree`, `DeletedOnce` | `SendersRaise`, `NoAlias` (`V_NamedFreed.cfg`) |
| | `Refinement` | `ImplementsMailbox`: `MessageQueue` implements `Mailbox` | `SendersRaise` |
| `ClauseGCProofs` | `TypeCorrect`, `ChainCorrect` | `TypeOK`, `ChainSound` | |
| | `NothingDangles`, `AnswersComplete`, `GivenOnce` | `NoDangling`, `SnapshotKept`, `AnsweredOnce` | none; these properties are about goals with `early` (`V_PushRace.cfg`) |
| `ThreadTableProofs` | `TypeCorrect` | `TypeOK` | |
| | `NoneLostByOneCreator`, `AllocFreshByOneCreator` | `NoneLost`, `AllocFresh` | `OneCreator` (`V_AllocTwice.cfg`) |
| | `Refinement` | `ImplementsPool`: `ThreadTable` implements `ThreadPool` | `OneCreator` |
| `ThreadLifeProofs` | `TypeCorrect` | `TypeOK` | |
| | `ListedFree`, `FreedByOne` | `ListedIsFree`, `FreedOnce` | `Apart` (`V_JoinDetach.cfg`), `OneJoiner` (`V_JoinTwice.cfg`), `DiscardAlone` (`V_DiscardDetached.cfg`, `V_DiscardHalt.cfg`) |

*Induction.* None of the provers can apply the induction theorems of the library, whose
parameter is an operator. Where a proof needs induction over numbers
(`DataLemmas`), it takes the least element of the set of counterexamples instead,
which exists because `<` is well founded on `Nat`.

*`RologSession`, the structure of calls.* `StackBalanced` and `ContextCurrent` are not
inductive: they speak of the moments when R or C++ acts, and say nothing about a
query that is open. `FramesMatchHandles` does: at every step the stack has one of
three shapes, `Resting` (no query), `Opened` (a query without a frame) or `Answered`
(a query with the frame of its answer), above one frame or, in `rolog_query_string`,
two. Still needed are the types, `EngineAlive` (the pointer `rolog_engine`, which
guarded calls test, is set only while there is an engine) and
`StepsMatchCall` (which entry point may be at which step: only `rolog_query_string`
reaches `read`, files are left while `rolog_consult` runs). `IInv` is the conjunction
of the four. The proof has three layers: lemmas about what each FLI operator does to
well-formed registers (`NewTermRefs`, `OpenForeignFrame`, `RestoreQuery`, …); lemmas
that take one shape to the next (`OpenQueryShape`: `Resting` to `Opened`;
`LeaveVMShape`: `Opened` to `Answered`; `LeaveQueryShape`: back to `Resting`; …); and
one lemma per action, combined in `NextInv`.

*`RologSession`, what R gets.* The properties are about the reply of a call that has
ended. `HInv` is `IInv` with what the active call has done so far (`Progress`):
`Collected` (the R value holds the answers so far, or all but the one being converted,
and a goal without choice points has no more), `Reporting` (a call whose goal raised
an exception is on its way to report it), `Explained` (an exception that is pending, or
that unwinds, has an origin), `Measured` (where the local stack stood when the query
was opened, so that the leak is known when it is left) and `Prepared` (the goal of
`rolog_init`); and with what the last call told R (`Accounted`).

*`FliStacks`.* `Recoverable` says what undoing a mark gives, but not why the trail
suffices. The invariant has three parts. `Sound`: newer marks cover at least what
older ones do; a word that holds the old value of an assignment was new when the
assignment was made and is not written again while the entry is there; and each word
a mark covers gets its old value from the oldest entry made since. `Barred`:
`mark_bar` is above every word a mark may have to give back, so that `Trail()`
passes over a binding only if no mark covers the word; and it stays so when the
newest mark is discarded, since the bar that mark has saved is above all older marks.
The one exception is a query that failed or raised an exception: its mark is
discarded before the query is closed (`Discarded`), and the frame above it is an
answer, which `Nested` says. `Undo` takes entries back
from the newest on, so a word gets what its oldest entry since the mark stands for
(`Value`); the lemmas about `Value` say what happens to it when an entry is added, when
memory changes and when a newer mark is undone. The refinement maps the marks to copies
of the memory (`snap`), one lemma per action.

*`MessageQueue`.* `Base` holds without hypotheses: types, which thread may be where
(`Role`), `CountersExact`, that messages are numbered in order, and what a reader has
rejected. The counters are cardinalities of sets of threads, so an action is a fact
about a set that gains or loses one element (`OneMore`, `OneLess`). The mutex needs
`SendersRaise`: every place where the fields of the queue are used then holds it, and
whoever is about to append has a queue that is not destroyed (`Undestroyed`). For
deletion, `Deletion` says that a queue that is to be deleted is destroyed and nobody
is in it or on the way in; with `NoAlias` a thread that has found the queue either
holds `L_THREAD` or is refused by `destroyed`. The refinement maps the messages to
their terms, a destroyed queue to an empty closed mailbox, and a thread whose call will
return true to one whose call is done. That a reader gets the oldest message for its
pattern needs the invariant about what it has rejected: what it skips cannot match.

*`ClauseGC`.* Two assumptions are about constants: there is a first generation, and the
set of clauses is finite, without which `erased_clauses` would be no number. `Writing`
says that a writer keeps `L_PREDICATE`, and with it the generation, until its clause is
stamped; so a clause that has left the chain was erased in a generation that is over
(`Stamped`). `Chained` is about the chain as one sees it from a clause: no two clauses
have the same successor, nothing precedes the first, and a clause out of the chain still
leads to clauses that exist. What is visited from a clause (`Visits`) is the least set
that is closed under `next`. Being least replaces the induction along the chain, in both
directions: a closed set contains what is visited, and an action that adds or takes out
a clause is a lemma about which sets stay closed. The rest is about a goal whose
generation marking could find while it was chosen. `Sheltered`: the collector takes out
nothing of its generation, because the collection either found that generation or read
`start` before the goal verified its own, and the clauses that are gone already were
erased before. `Holding`: the choice point and the clause in execution belong to the
generation and are therefore in the chain; the clause at the cursor may be neither, and
is kept by `acquire_def()`, because the collector first takes all lingering clauses and
then asks who is in the chain. `Answering`: what the goal still owes is ahead of its
cursor or choice point, also from a cursor that has been unlinked. The proof needs
nothing of `cgcActivatePredicate()`: for a generation that marking finds, storing it and
verifying it is enough.

That no clause is given twice needs a second invariant, `OnceInv`: what a goal has
answered is behind it (`Ahead`), and from no clause that exists do links lead back to it
(`NoCycle`). In the chain that follows from `Chained`, because a cycle would be a part of
it that is not reached from the first clause. Clauses that are out keep links that
nobody maintains, so there it is shown step by step: a step of the collector makes nothing
more visited, and an assertion nothing but the new clause.

*`ThreadTable`.* `Bounded` are the types with the numbers of structures that exist.
`Sound` says that the free list is a list (no two structures have the same successor,
none is followed by the head), that a structure being freed is in nobody else's reach,
that the head a creator has read stays in the list with the successor it read, and
that no structure is nowhere. With two creators the last but one fails, which is the
ABA case of `V_AllocTwice.cfg`. The refinement maps a structure to `free` if it is in
the list or was never allocated, to `returning` while `free_thread_info()` has it, and
else to `reserved` (`Place`). A compare and swap that succeeds, an allocation and a call
of `free_thread_info()` move one structure; every other step leaves the list, the
structures that are leaving and the highest one as they are, and is a stutter.

*`ThreadLife`.* `FreedOnce` compares threads that are freeing at this moment; why there
is only one lies in the steps before. The invariant has two halves. `Core` holds at all
times, halt included: a `pthread_t` is used again only when its thread is gone
(`Recycled`); a thread that uses a slot owns it, and its status tells where the thread
is (`Occupied`); a slot leads back to its owner (`Owned`); and whoever joins or frees a
thread has the slot of the thread it looked up (`Claims`), which is not obvious since
`thread_join/2` keeps `info` while slot and `pthread_t` may go to somebody else. That
the thread `gc`, once it has a thread, is the only one to end it, needs `DiscardAlone`:
a thread that had detached itself would end itself, and halt would join it. So `Core`
has that the thread `gc` is idle during halt (`Undisturbed`) and joins nobody but the
thread it deals with (`Awaited`). (`FreedOnce` says nothing about halt, and
`ListedIsFree` is what fails when a handle is discarded during it.) `Before` holds until
halt begins, and distributes the right to free a slot: a thread that is detached frees
itself (`Unasked`), a live handle is a thread that is alive or that its one joiner is
dealing with (`LiveHandle`, `JoinerSound`), and a garbage handle leaves its thread to
the thread `gc` (`GarbageHandle`, `CollectorSound`). Halt ends the second half, because
`exitPrologThreads()` joins and frees without regard to it. An action changes one
thread, one slot and one client, so the frame lemmas (`SameThread`, `SameClient`,
`BeforeKept`, `JoinerStep`, …) say when the conditions of the others stay, and each
action proves only its own.

Only model-checked: all liveness (`CallReturns`, `NobodyForgotten`, `DestroyedIsLeft`,
`Reclaimed`, `DetachedFreesItself`, `JoinReturns`, `HaltReturns`), which is beyond the
proof system; and `TermConversion`, whose recursive operators exclude proofs by the
provers at hand.

## Not modelled

Most of the repository is SWI-Prolog itself, close to half a million lines of C in
which rolog's own code is a few hundred. The models cover what the bridge calls and
what the engine's threads share; the rest is left out on purpose:

- `packages/` (semweb, sgml, xpce, utf8proc, …) and the Prolog library: to the bridge
  they are part of the goal, and rolog builds or loads few of them.
- The virtual machine's instructions, the compiler, clause indexing, arithmetic,
  term reading and writing, streams: sequential translations of data whose control
  is the instruction set. To the bridge a goal is its outcomes.
- The stack garbage collector and the stack shifter: they work on the
  representation of terms, which is abstract in the models.
- Of the threaded engine: the lock-free hash tables of `pl-table.c` and the atom table
  with its collector; the loop of the thread `gc` (`pl-thread.c:5532-5735`) and
  `considerClauseGC()`; mutexes, engines that are not threads, `thread_idle/2`,
  `thread_signal/2` other than its effect on a wait, thread-local predicates,
  fork, alarms. Of clauses: hash indexes, reconsulting, static predicates.
  Message records and keys. Weak memory: the models interleave whole accesses.
- A full local stack inside a C++ constructor (`PlTerm()` throws
  `PlResourceError`, which constructs a `PlTerm()`); `OpenQuery` has the one
  resource error that is handled.
- R errors that longjmp through the bridge (memory, an atom without a name): what
  they do to the destructors depends on the version of Rcpp.
- The path buffer of `rolog_init`, how often the library directory was asserted,
  and the value `.Call()` takes from the `void` wrapper of `rolog_exit`.
- `rcpp_hello_world`, the build files.

## Plan

Done: all the models above, and the proofs of all their safety properties except those of
`TermConversion`, with the three refinements.

To be modelled next: the hash tables of `pl-table.c` (a key-value array
that is copied while it is read and written) against an abstract dictionary; R
errors that leave a query open, as an alternative of `Row`; exhaustion of the local
stack in constructors; attributed variables with the pending wakeup (`saveWakeup()`,
`restoreWakeup()`); a composition of `FliStacks` with the frames of `PrologEngine`.
