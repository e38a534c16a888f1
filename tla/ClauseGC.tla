------------------------------ MODULE ClauseGC ------------------------------
(***************************************************************************)
(* The clauses of one dynamic predicate of the engine, shared by threads    *)
(* that call it, threads that assert and erase clauses, and the clause      *)
(* garbage collector: generations and the logical update view               *)
(* (pl-inline.h, pl-index.c), assertProcedure(), retractClauseDefinition(), *)
(* cleanDefinition(), gcClauseRefs() and garbage_collect_clauses/0          *)
(* (pl-proc.c), marking (pl-gc.c, pl-thread.c).                             *)
(*                                                                          *)
(* Callers hold no lock: a step of the model is one access to memory that   *)
(* another thread may write, or a piece of code that runs with L_PREDICATE  *)
(* held and touches nothing a caller reads.  Memory is sequentially         *)
(* consistent.  A clause and the clause reference that links it into the    *)
(* chain are one object; hash indexes and first-argument keys, which only   *)
(* leave out clauses that cannot match, are not modelled.                   *)
(***************************************************************************)
EXTENDS Naturals, FiniteSets, Sequences, SequencesExt

CONSTANTS Callers,   \* threads that call the predicate
          Writers,   \* threads that assert and erase clauses
          Clauses, Nil, NoThread,
          Initial,   \* the clauses that are there at first, in some order
          MaxGen     \* bound: the generations of the database

Threads == Callers \cup Writers
GEN_MAX == MaxGen + 1

ASSUME GenAssumption == /\ MaxGen \in Nat \ {0}
                        /\ Initial \subseteq Clauses /\ IsFiniteSet(Clauses)
ASSUME NilAssumption == Nil \notin Clauses /\ NoThread \notin Threads

VARIABLES
    generation,           \* GD->_generation
    first, next, last,    \* the chain of clauses
    where,                \* "unused", "linked", "lingering", "grabbed", "freed"
    created, erased,      \* generation.created, generation.erased
    settled,              \* have created and erased been assigned?
    CL_ERASED,            \* the flag of a clause
    erased_clauses,       \* the counter of the predicate
    L_PREDICATE,          \* owner of the mutex
    dirty,                \* is the predicate in GD->procedures.dirty?
    oldest_generation,    \* its DirtyDefInfo
    cgc_active, cgc,      \* the collector: running?, its local state
    pc, cur, chp, exec,   \* caller: where it is, its cursor, its choice point,
                          \* the clause it executes
    gen, published,       \* the generation of its frame, can marking find it?
    early,                \* could marking find it before it was chosen? See Store
    access,               \* acquire_def() .. release_def()
    entered, answers,     \* history: what it must answer, what it answered
    job                   \* writer: what it does with which clause

chain == <<first, next, last, where, erased_clauses>>
stamps == <<created, erased, settled, CL_ERASED>>
marks == <<dirty, oldest_generation>>
local == <<cur, chp, exec, gen, published, early, access, entered, answers>>
vars == <<generation, chain, stamps, L_PREDICATE, marks, cgc_active, cgc, pc,
          local, job>>

\* VISIBLE_CLAUSE(): the clauses that belong to generation g.
VisibleAt(g) == {c \in Clauses : /\ where[c] # "unused" /\ settled[c]
                                 /\ created[c] <= g /\ g < erased[c]}

\* What a read of the stamps of clause c tells a caller in generation g; before
\* they have been assigned they hold what was on the stack of compileClause().
SeesVisible(c, g) == IF settled[c] THEN {created[c] <= g /\ g < erased[c]} ELSE BOOLEAN
SeesErased(c, g)  == IF settled[c] THEN {erased[c] <= g} ELSE BOOLEAN

\* Mutant: the comparison the wrong way round.
Greatest(S) == CHOOSE x \in S : \A y \in S : y <= x

\* set_min_generation()
Least(S) == CHOOSE x \in S : \A y \in S : x <= y

IdleCgc == [pc |-> "idle", start |-> 0, active |-> 0, cur |-> Nil,
            todo |-> {}, inuse |-> FALSE]
NoJob == [op |-> "none", c |-> Nil, g |-> 0]

Init ==
    /\ generation = 1
    /\ \E s \in SetToSeqs(Initial) :
          /\ first = IF s = <<>> THEN Nil ELSE s[1]
          /\ last = IF s = <<>> THEN Nil ELSE s[Len(s)]
          /\ next = [c \in Clauses |->
                       IF \E i \in 1..(Len(s) - 1) : s[i] = c
                       THEN s[1 + CHOOSE i \in 1..(Len(s) - 1) : s[i] = c] ELSE Nil]
    /\ where = [c \in Clauses |-> IF c \in Initial THEN "linked" ELSE "unused"]
    /\ created = [c \in Clauses |-> IF c \in Initial THEN 1 ELSE 0]
    /\ erased = [c \in Clauses |-> GEN_MAX]
    /\ settled = [c \in Clauses |-> c \in Initial]
    /\ CL_ERASED = [c \in Clauses |-> FALSE]
    /\ erased_clauses = 0
    /\ L_PREDICATE = NoThread
    /\ dirty = FALSE /\ oldest_generation = 0
    /\ cgc_active = FALSE /\ cgc = IdleCgc
    /\ pc = [t \in Callers |-> "idle"]
    /\ cur = [t \in Callers |-> Nil] /\ chp = [t \in Callers |-> Nil]
    /\ exec = [t \in Callers |-> Nil]
    /\ gen = [t \in Callers |-> 0]
    /\ published = [t \in Callers |-> FALSE] /\ early = [t \in Callers |-> FALSE]
    /\ access = [t \in Callers |-> FALSE]
    /\ entered = [t \in Callers |-> {}] /\ answers = [t \in Callers |-> {}]
    /\ job = [t \in Writers |-> NoJob]

-----------------------------------------------------------------------------
(* Choosing the generation of a goal: setGenerationFrame(), and the same    *)
(* loop in pushPredicateAccess().                                           *)

ReadGen(t) ==
    /\ \/ pc[t] = "idle" /\ \E e \in BOOLEAN : early' = [early EXCEPT ![t] = e]
       \/ pc[t] = "gen" /\ UNCHANGED early
    /\ gen' = [gen EXCEPT ![t] = generation]
    /\ pc' = [pc EXCEPT ![t] = "store"]
    /\ UNCHANGED <<generation, chain, stamps, L_PREDICATE, marks, cgc_active, cgc,
                   cur, chp, exec, published, access, entered, answers, job>>

\* The generation is stored where marking looks for it.  In the frame of a last
\* call (I_DEPART) marking finds it from then on, because the frame is below
\* lTop already.  The frame of an ordinary call is still above lTop, and the
\* entry that pushPredicateAccess() fills is above refs->top.
Store(t) ==
    /\ pc[t] = "store"
    /\ published' = [published EXCEPT ![t] = early[t]]
    /\ pc' = [pc EXCEPT ![t] = "activate"]
    /\ UNCHANGED <<generation, chain, stamps, L_PREDICATE, marks, cgc_active, cgc,
                   cur, chp, exec, gen, early, access, entered, answers, job>>

\* cgcActivatePredicate(): tell a collector that is running.
Activate(t) ==
    /\ pc[t] = "activate"
    /\ oldest_generation' = IF cgc_active /\ dirty
                            THEN Least({oldest_generation, gen[t]})
                            ELSE oldest_generation
    /\ pc' = [pc EXCEPT ![t] = "verify"]
    /\ UNCHANGED <<generation, chain, stamps, L_PREDICATE, dirty, cgc_active, cgc,
                   local, job>>

\* Do it again when the database has changed in the meantime.
Verify(t) ==
    /\ pc[t] = "verify"
    /\ IF gen[t] = generation
       THEN /\ pc' = [pc EXCEPT ![t] = IF published[t] THEN "first" ELSE "publish"]
            /\ entered' = [entered EXCEPT ![t] = VisibleAt(gen[t])]
       ELSE /\ pc' = [pc EXCEPT ![t] = "gen"]
            /\ UNCHANGED entered
    /\ UNCHANGED <<generation, chain, stamps, L_PREDICATE, marks, cgc_active, cgc,
                   cur, chp, exec, gen, published, early, access, answers, job>>

\* lTop is raised past the frame; refs->top = top.
PublishLate(t) ==
    /\ pc[t] = "publish"
    /\ published' = [published EXCEPT ![t] = TRUE]
    /\ pc' = [pc EXCEPT ![t] = "first"]
    /\ UNCHANGED <<generation, chain, stamps, L_PREDICATE, marks, cgc_active, cgc,
                   cur, chp, exec, gen, early, access, entered, answers, job>>

-----------------------------------------------------------------------------
(* Walking the chain: firstClause() and nextClause().                       *)

\* Mutant: the choice point leads back to the clause it was made in.
RetrySame(t) == exec[t]

\* Where a retry goes on: the reference to a clause in the choice point.
RetryAt(t) == chp[t]

\* acquire_def(), then the first clause, or the one the choice point kept.
Enter(t) ==
    /\ \/ pc[t] = "first" /\ cur' = [cur EXCEPT ![t] = first]
       \/ pc[t] = "answer" /\ chp[t] # Nil /\ cur' = [cur EXCEPT ![t] = RetryAt(t)]
    /\ access' = [access EXCEPT ![t] = TRUE]
    /\ exec' = [exec EXCEPT ![t] = Nil]
    /\ pc' = [pc EXCEPT ![t] = "walk"]
    /\ UNCHANGED <<generation, chain, stamps, L_PREDICATE, marks, cgc_active, cgc,
                   chp, gen, published, early, entered, answers, job>>

\* Look at one clause: take it when it is visible, else go on.
Walk(t) ==
    /\ pc[t] = "walk" /\ cur[t] # Nil
    /\ \E v \in SeesVisible(cur[t], gen[t]) :
          IF v
          THEN /\ exec' = [exec EXCEPT ![t] = cur[t]]
               /\ answers' = [answers EXCEPT ![t] = @ \cup {cur[t]}]
               /\ pc' = [pc EXCEPT ![t] = "choose"]
          ELSE UNCHANGED <<exec, answers, pc>>
    /\ cur' = [cur EXCEPT ![t] = next[@]]
    /\ UNCHANGED <<generation, chain, stamps, L_PREDICATE, marks, cgc_active, cgc,
                   chp, gen, published, early, access, entered, job>>

\* The end of the chain: the goal fails, having given all its answers.
WalkEnd(t) ==
    /\ pc[t] = "walk" /\ cur[t] = Nil
    /\ access' = [access EXCEPT ![t] = FALSE]
    /\ chp' = [chp EXCEPT ![t] = Nil]
    /\ pc' = [pc EXCEPT ![t] = "done"]
    /\ UNCHANGED <<generation, chain, stamps, L_PREDICATE, marks, cgc_active, cgc,
                   cur, exec, gen, published, early, entered, answers, job>>

\* setClauseChoice(): keep a reference to a clause that is not yet erased in
\* the generation of the goal, because the collector does not free that one.
Choose(t) ==
    /\ pc[t] = "choose"
    /\ \E e \in (IF cur[t] = Nil THEN {FALSE} ELSE SeesErased(cur[t], gen[t])) :
          IF e
          THEN /\ cur' = [cur EXCEPT ![t] = next[@]]
               /\ UNCHANGED <<chp, access, pc>>
          ELSE /\ chp' = [chp EXCEPT ![t] = cur[t]]
               /\ cur' = [cur EXCEPT ![t] = Nil]
               /\ access' = [access EXCEPT ![t] = FALSE]
               /\ pc' = [pc EXCEPT ![t] = IF cur[t] = Nil THEN "last" ELSE "answer"]
    /\ UNCHANGED <<generation, chain, stamps, L_PREDICATE, marks, cgc_active, cgc,
                   exec, gen, published, early, entered, answers, job>>

\* The goal is left: it failed, was cut, or its last clause returned.
Leave(t) ==
    /\ pc[t] \in {"answer", "last", "done"}
    /\ pc' = [pc EXCEPT ![t] = "idle"]
    /\ published' = [published EXCEPT ![t] = FALSE]
    /\ early' = [early EXCEPT ![t] = FALSE]
    /\ cur' = [cur EXCEPT ![t] = Nil] /\ chp' = [chp EXCEPT ![t] = Nil]
    /\ exec' = [exec EXCEPT ![t] = Nil] /\ gen' = [gen EXCEPT ![t] = 0]
    /\ entered' = [entered EXCEPT ![t] = {}] /\ answers' = [answers EXCEPT ![t] = {}]
    /\ UNCHANGED <<generation, chain, stamps, L_PREDICATE, marks, cgc_active, cgc,
                   access, job>>

-----------------------------------------------------------------------------
(* Changing the predicate, with L_PREDICATE held.                           *)

\* assertProcedure() links the clause at either end of the chain ...
AssertLink(t) ==
    /\ job[t] = NoJob /\ L_PREDICATE = NoThread
    /\ generation < MaxGen
    /\ \E c \in Clauses :
          /\ where[c] = "unused"
          /\ where' = [where EXCEPT ![c] = "linked"]
          /\ job' = [job EXCEPT ![t] = [op |-> "assert", c |-> c, g |-> 0]]
          /\ \/ first = Nil /\ first' = c /\ last' = c /\ UNCHANGED next
             \/ first # Nil /\ next' = [next EXCEPT ![c] = first] /\ first' = c
                  /\ UNCHANGED last
             \/ first # Nil /\ next' = [next EXCEPT ![last] = c] /\ last' = c
                  /\ UNCHANGED first
    /\ L_PREDICATE' = t
    /\ UNCHANGED <<generation, erased_clauses, stamps, marks, cgc_active, cgc, pc, local>>

\* ... and retractClauseDefinition() flags it, unless it has been flagged.
EraseFlag(t) ==
    /\ job[t] = NoJob /\ L_PREDICATE = NoThread
    /\ generation < MaxGen
    /\ \E c \in Clauses :
          /\ where[c] = "linked" /\ ~CL_ERASED[c]
          /\ CL_ERASED' = [CL_ERASED EXCEPT ![c] = TRUE]
          /\ job' = [job EXCEPT ![t] = [op |-> "erase", c |-> c, g |-> 0]]
    /\ erased_clauses' = erased_clauses + 1
    /\ L_PREDICATE' = t
    /\ UNCHANGED <<generation, first, next, last, where, created, erased, settled,
                   marks, cgc_active, cgc, pc, local>>

\* Both take the next generation of the database ...
NextGeneration(t) ==
    /\ job[t].op \in {"assert", "erase"} /\ job[t].g = 0
    /\ generation' = generation + 1
    /\ job' = [job EXCEPT ![t].g = generation + 1]
    /\ UNCHANGED <<chain, stamps, L_PREDICATE, marks, cgc_active, cgc, pc, local>>

\* ... and stamp the clause with it.
Stamp(t) ==
    /\ job[t].op \in {"assert", "erase"} /\ job[t].g # 0
    /\ IF job[t].op = "assert"
       THEN /\ created' = [created EXCEPT ![job[t].c] = job[t].g]
            /\ settled' = [settled EXCEPT ![job[t].c] = TRUE]
            /\ job' = [job EXCEPT ![t] = NoJob]
            /\ UNCHANGED erased
       ELSE /\ erased' = [erased EXCEPT ![job[t].c] = job[t].g]
            /\ job' = [job EXCEPT ![t].op = "register"]
            /\ UNCHANGED <<created, settled>>
    /\ L_PREDICATE' = NoThread
    /\ UNCHANGED <<generation, chain, CL_ERASED, marks, cgc_active, cgc, pc, local>>

\* registerDirtyDefinition(): a generation that keeps a collector which is
\* already past its marking from touching the predicate.
Register(t) ==
    /\ job[t].op = "register"
    /\ job' = [job EXCEPT ![t] = NoJob]
    /\ dirty' = TRUE
    /\ oldest_generation' = IF dirty THEN oldest_generation ELSE 0
    /\ UNCHANGED <<generation, chain, stamps, L_PREDICATE, cgc_active, cgc, pc, local>>

-----------------------------------------------------------------------------
(* garbage_collect_clauses/0.                                               *)

CgcStart ==
    /\ cgc.pc = "idle" /\ dirty
    /\ cgc_active' = TRUE
    /\ cgc' = [cgc EXCEPT !.pc = "start"]
    /\ UNCHANGED <<generation, chain, stamps, L_PREDICATE, marks, pc, local, job>>

\* start_gen = global_generation()
CgcStartGen ==
    /\ cgc.pc = "start"
    /\ cgc' = [cgc EXCEPT !.pc = "reset", !.start = generation]
    /\ UNCHANGED <<generation, chain, stamps, L_PREDICATE, marks, cgc_active, pc,
                   local, job>>

\* Mutant: what an earlier run found is not forgotten.
KeepOldest == oldest_generation

\* Nobody is known to be in the predicate.
ResetOldest == GEN_MAX

CgcReset ==
    /\ cgc.pc = "reset"
    /\ oldest_generation' = ResetOldest
    /\ cgc' = [cgc EXCEPT !.pc = "mark", !.todo = Callers]
    /\ UNCHANGED <<generation, chain, stamps, L_PREDICATE, dirty, cgc_active, pc,
                   local, job>>

\* markPredicatesInEnvironments() of one thread.
CgcMark(t) ==
    /\ cgc.pc = "mark" /\ t \in cgc.todo
    /\ cgc' = [cgc EXCEPT !.todo = @ \ {t}]
    /\ oldest_generation' = IF published[t] THEN Least({oldest_generation, gen[t]})
                                            ELSE oldest_generation
    /\ UNCHANGED <<generation, chain, stamps, L_PREDICATE, dirty, cgc_active, pc,
                   local, job>>

\* cleanDefinition() starts: the oldest generation that anybody may be in.
CgcClean ==
    /\ cgc.pc = "mark" /\ cgc.todo = {}
    /\ cgc' = [cgc EXCEPT !.pc = IF erased_clauses > 0 THEN "clean" ELSE "grab",
                          !.active = Least({cgc.start, oldest_generation}),
                          !.cur = first]
    /\ UNCHANGED <<generation, chain, stamps, L_PREDICATE, marks, cgc_active, pc,
                   local, job>>

\* Mutant: a clause erased in the oldest generation is taken, too.
CollectableEarly(c) == CL_ERASED[c] /\ erased[c] <= cgc.active

\* Mutant: what the marking found is not looked at.
CollectableUnmarked(c) == CL_ERASED[c] /\ erased[c] < cgc.start

\* The clauses nobody can see any more.
Collectable(c) == CL_ERASED[c] /\ erased[c] < cgc.active

\* find_prev(): the clauses whose next is c, now that L_PREDICATE is held.
Previous(c) == {d \in Clauses : where[d] = "linked" /\ next[d] = c}

\* Mutant: the end of the chain is not moved back.
UnlinkKeepsLast(c) ==
    /\ IF first = c
       THEN first' = next[c] /\ UNCHANGED next
       ELSE \E d \in Previous(c) : next' = [next EXCEPT ![d] = next[c]] /\ UNCHANGED first
    /\ where' = [where EXCEPT ![c] = "lingering"]
    /\ erased_clauses' = erased_clauses - 1
    /\ UNCHANGED last

\* Take clause c out of the chain.  It keeps its own next for those who are at
\* it, and lingers until nobody is.
Unlink(c) ==
    /\ IF first = c
       THEN /\ first' = next[c]
            /\ last' = IF next[c] = Nil THEN Nil ELSE last
            /\ UNCHANGED next
       ELSE \E d \in Previous(c) :
               /\ next' = [next EXCEPT ![d] = next[c]]
               /\ last' = IF next[c] = Nil THEN d ELSE last
               /\ UNCHANGED first
    /\ where' = [where EXCEPT ![c] = "lingering"]
    /\ erased_clauses' = erased_clauses - 1

\* One round of the loop of cleanDefinition().
CgcSweep ==
    /\ cgc.pc = "clean" /\ cgc.cur # Nil /\ erased_clauses > 0
    /\ IF Collectable(cgc.cur)
       THEN L_PREDICATE = NoThread /\ Unlink(cgc.cur)
       ELSE UNCHANGED chain
    /\ cgc' = [cgc EXCEPT !.cur = next[@]]
    /\ UNCHANGED <<generation, stamps, L_PREDICATE, marks, cgc_active, pc, local, job>>

CgcSwept ==
    /\ cgc.pc = "clean" /\ (cgc.cur = Nil \/ erased_clauses = 0)
    /\ cgc' = [cgc EXCEPT !.pc = "grab", !.cur = Nil]
    /\ UNCHANGED <<generation, chain, stamps, L_PREDICATE, marks, cgc_active, pc,
                   local, job>>

\* gcClauseRefs(): take the whole list GD->clauses.lingering ...
CgcGrab ==
    /\ cgc.pc = "grab"
    /\ where' = [c \in Clauses |-> IF where[c] = "lingering" THEN "grabbed" ELSE where[c]]
    /\ cgc' = [cgc EXCEPT !.pc = "inuse", !.todo = Callers]
    /\ UNCHANGED <<generation, first, next, last, erased_clauses, stamps, L_PREDICATE,
                   marks, cgc_active, pc, local, job>>

\* ... ask every thread whether it is in the chain (predicates_in_use()) ...
CgcInUse(t) ==
    /\ cgc.pc = "inuse" /\ t \in cgc.todo
    /\ cgc' = [cgc EXCEPT !.todo = @ \ {t}, !.inuse = @ \/ access[t]]
    /\ UNCHANGED <<generation, chain, stamps, L_PREDICATE, marks, cgc_active, pc,
                   local, job>>

\* ... and free what nobody can be at; the rest lingers on.
FateOfGrabbed == IF cgc.inuse THEN "lingering" ELSE "freed"

CgcFree ==
    /\ cgc.pc = "inuse" /\ cgc.todo = {}
    /\ where' = [c \in Clauses |-> IF where[c] = "grabbed" THEN FateOfGrabbed ELSE where[c]]
    /\ cgc_active' = FALSE
    /\ cgc' = IdleCgc
    /\ UNCHANGED <<generation, first, next, last, erased_clauses, stamps, L_PREDICATE,
                   marks, pc, local, job>>

-----------------------------------------------------------------------------
Call(t) == \/ ReadGen(t) \/ Store(t) \/ Activate(t) \/ Verify(t) \/ PublishLate(t)
           \/ Enter(t) \/ Walk(t) \/ WalkEnd(t) \/ Choose(t) \/ Leave(t)
Change(t) == AssertLink(t) \/ EraseFlag(t)
Finish(t) == NextGeneration(t) \/ Stamp(t) \/ Register(t)
Collect == \/ CgcStart \/ CgcStartGen \/ CgcReset \/ CgcClean \/ CgcSweep
           \/ CgcSwept \/ CgcGrab \/ CgcFree
           \/ \E t \in Callers : CgcMark(t) \/ CgcInUse(t)

Next == \/ \E t \in Callers : Call(t)
        \/ \E t \in Writers : Change(t) \/ Finish(t)
        \/ Collect

Spec == Init /\ [][Next]_vars

\* Threads go on running, and so does a collection that has been started; that
\* collections are started is not taken for granted.
Fairness == /\ \A t \in Callers : WF_vars(Call(t) /\ pc[t] # "idle")
            /\ \A t \in Writers : WF_vars(Finish(t))
            /\ WF_vars(Collect /\ cgc.pc # "idle")

FairSpec == Spec /\ Fairness

-----------------------------------------------------------------------------
(* Properties.                                                              *)

TypeOK ==
    /\ generation \in 1..MaxGen
    /\ first \in Clauses \cup {Nil} /\ last \in Clauses \cup {Nil}
    /\ next \in [Clauses -> Clauses \cup {Nil}]
    /\ where \in [Clauses -> {"unused", "linked", "lingering", "grabbed", "freed"}]
    /\ created \in [Clauses -> 0..MaxGen] /\ erased \in [Clauses -> 0..GEN_MAX]
    /\ settled \in [Clauses -> BOOLEAN] /\ CL_ERASED \in [Clauses -> BOOLEAN]
    /\ erased_clauses \in 0..Cardinality(Clauses)
    /\ L_PREDICATE \in Writers \cup {NoThread}
    /\ dirty \in BOOLEAN /\ oldest_generation \in 0..GEN_MAX /\ cgc_active \in BOOLEAN
    /\ cgc.pc \in {"idle", "start", "reset", "mark", "clean", "grab", "inuse"}
    /\ cgc.start \in 0..MaxGen /\ cgc.active \in 0..MaxGen
    /\ cgc.cur \in Clauses \cup {Nil} /\ cgc.todo \subseteq Callers
    /\ pc \in [Callers -> {"idle", "gen", "store", "activate", "verify", "publish",
                           "first", "walk", "choose", "answer", "last", "done"}]
    /\ \A f \in {cur, chp, exec} : f \in [Callers -> Clauses \cup {Nil}]
    /\ gen \in [Callers -> 0..MaxGen]
    /\ published \in [Callers -> BOOLEAN] /\ early \in [Callers -> BOOLEAN]
    /\ access \in [Callers -> BOOLEAN]
    /\ answers \in [Callers -> SUBSET Clauses]
    /\ \A t \in Writers : job[t].c \in Clauses \cup {Nil} /\ job[t].g \in 0..MaxGen

\* The memory that thread t holds on to: the clause it is looking at, the one
\* its choice point kept while it was out of the chain, the one it executes.
Holds(t) == {cur[t], chp[t], exec[t]} \ {Nil}
Dangles(S) == \E c \in S : where[c] = "freed"

\* A goal whose generation marking can find while it is being chosen never
\* holds on to memory that has been freed, and the collector, too, walks over
\* clauses that exist.
NoDangling ==
    /\ \A t \in Callers : early[t] => ~Dangles(Holds(t))
    /\ ~Dangles({cgc.cur} \ {Nil})

\* The same of every goal, as the comment in setGenerationFrame() wants it.
NoneDangles == \A t \in Callers : ~Dangles(Holds(t))

\* The logical update view against the collector: such a goal that has given
\* all its answers has given every clause that was there when it began and that
\* belongs to its generation, however often the collector ran in between.
SnapshotKept ==
    \A t \in Callers : early[t] /\ pc[t] = "done" =>
        entered[t] \cap VisibleAt(gen[t]) \subseteq answers[t]

\* The other half: such a goal never gives a clause twice, although clauses are
\* added before and behind it, and the collector takes out the clause at its
\* cursor, which then leads on over links that nobody maintains.
AnsweredOnce ==
    [][\A t \in Callers :
         early[t] /\ exec'[t] \notin {exec[t], Nil} => exec'[t] \notin answers[t]]_vars

\* The logical update view as the manual has it: the answers of a goal are
\* the clauses whose interval encloses its generation, and no other.
SnapshotExact ==
    \A t \in Callers : pc[t] = "done" => answers[t] = VisibleAt(gen[t])

\* From first to last the chain visits exactly the linked clauses; every clause
\* that is not erased is among them, and erased_clauses counts the others.  What
\* is visited from c is in each set that holds c and is closed under next; as
\* the clause at the end is in it, the chain has no cycle.
Closed(S) == \A c \in S : next[c] \in S \cup {Nil}
Visits(c) == {d \in Clauses : \A S \in SUBSET Clauses :
                                 c \in S \cup {Nil} /\ Closed(S) => d \in S}
Linked == {c \in Clauses : where[c] = "linked"}
ChainSound ==
    /\ Visits(first) = Linked
    /\ IF first = Nil THEN last = Nil ELSE last \in Linked /\ next[last] = Nil
    /\ \A c \in Clauses : settled[c] /\ ~CL_ERASED[c] => c \in Linked
    /\ erased_clauses = Cardinality({c \in Linked : CL_ERASED[c]})

\* Nothing leaks: when no more goals are called and collections are started
\* again and again, a clause that was erased before the current generation is
\* freed in the end.  (While goals keep coming, one of them may be in the chain
\* whenever the collector looks; when collections are started is up to
\* considerClauseGC().)
Quiet == <>[](\A t \in Callers : pc[t] = "idle")
CollectedAgain == []<>(cgc.pc = "start")
Reclaimed ==
    Quiet /\ CollectedAgain =>
        \A c \in Clauses :
            (CL_ERASED[c] /\ erased[c] < generation) ~> (where[c] = "freed")
=============================================================================
