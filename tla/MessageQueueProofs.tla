------------------------- MODULE MessageQueueProofs -------------------------
(***************************************************************************)
(* Proofs about MessageQueue, for all sets of threads and terms, all sizes  *)
(* of the queue, all scenarios and all bounds.                              *)
(***************************************************************************)
EXTENDS MessageQueue, DataLemmas

\* Which thread may be where, who is interrupted, and what a sender sends.
Role(t) ==
  /\ pc[t] \in Reading \cup {"scan", "peek"} => t \in Readers
  /\ pc[t] \in Draining \cup {"queue"} => t \in Writers
  /\ pc[t] \in {"destroy", "exit", "exit_loop"} => t \in Destroyers
  /\ rc[t] = "intr" => t \notin Destroyers
  /\ t \in Writers /\ pc[t] # "idle" => arg[t] \in Terms
Roles == \A t \in Threads : Role(t)

\* Messages are numbered from 1 on, and nobody has seen what is yet to come.
Numbered == /\ \A i \in DOMAIN queue : queue[i].id \in 1..sequence_next
            /\ \A t \in Threads : seen[t] <= sequence_next

\* SeenRejected, and what a reader knows while it looks again.
Rejected == /\ SeenRejected
            /\ \A t \in At({"scan"}) : \A i \in DOMAIN queue :
                  queue[i].id < seen[t] => ~Unifies(arg[t], queue[i].term)

\* What holds whatever the scenarios are.
Base == use \in Scenarios /\ TypeOK /\ Roles /\ CountersExact /\ Numbered /\ Rejected

-----------------------------------------------------------------------------
(* Facts about the operators of the model.                                  *)

\* The scenario field by field.
LEMMA ScenarioFields ==
  ASSUME use \in Scenarios
  PROVE  /\ use.kind \in Kinds /\ use.bound \in [Threads -> Nat]
         /\ use.terms \subseteq Terms /\ use.wanted \subseteq Patterns
         /\ use.signals \in Nat
BY ScenarioAssumption DEF Scenario

\* What a step does to the places of the other threads: it wakes some of them
\* up at most.
LEMMA WokenPlaces ==
  ASSUME NEW t, NEW next, NEW S, pc \in [Threads -> Places],
         t \in Threads => next \in Places
  PROVE  /\ Woken(t, next, S) \in [Threads -> Places]
         /\ t \in Threads => Woken(t, next, S)[t] = next
         /\ \A u \in Threads \ {t} :
              \/ Woken(t, next, S)[u] = pc[u]
              \/ pc[u] = "wait_read" /\ Woken(t, next, S)[u] = "relock_read"
              \/ pc[u] = "wait_drain" /\ Woken(t, next, S)[u] = "relock_drain"
BY DEF Woken, Places, Waits, Reading, Draining

\* A new queue.
LEMMA InitBase == Init => Base
<1>. SUFFICES ASSUME Init PROVE Base
  OBVIOUS
<1>1. use \in Scenarios
  BY DEF Init
<1>2. TypeOK
  <2>1. queue \in Seq([id : Nat, term : Terms])
    BY DEF Init
  <2>2. calls \in [Threads -> Nat] /\ \A t \in Threads : calls[t] <= use.bound[t]
    BY <1>1, ScenarioFields, BoundAssumption DEF Init
  <2>3. /\ destroyed \in BOOLEAN /\ listed \in BOOLEAN
        /\ expired \in [Threads -> BOOLEAN] /\ signalled \in [Threads -> BOOLEAN]
    BY DEF Init
  <2>4. signals \in 0..use.signals
    BY <1>1, ScenarioFields DEF Init
  <2>. QED
    BY <2>1, <2>2, <2>3, <2>4 DEF Init, TypeOK, Patterns, Places, Results
<1>3. Roles
  BY DEF Init, Roles, Role, Reading, Draining
<1>4. CountersExact
  <2>1. At(Reading) = {} /\ At(Draining) = {}
    BY DEF Init, At, Reading, Draining
  <2>2. {t \in At(Reading) : arg[t] = Unbound} = {}
    BY <2>1
  <2>3. Cardinality({}) = 0
    BY FS_EmptySet
  <2>. QED
    BY <2>1, <2>2, <2>3 DEF Init, CountersExact
<1>5. Numbered /\ Rejected
  BY DEF Init, Numbered, Rejected, SeenRejected, At, Reading
<1>. QED
  BY <1>1, <1>2, <1>3, <1>4, <1>5 DEF Base

\* Whoever waits is counted.
LEMMA Counted ==
  ASSUME Base, NEW t \in Threads
  PROVE  /\ pc[t] \in Reading => waiting > 0 /\ waiting_var >= IsVar(t)
         /\ pc[t] \in Draining => wait_for_drain > 0
         /\ IsVar(t) \in {0, 1}
<1>1. ASSUME pc[t] \in Reading PROVE waiting > 0
  <2>1. t \in At(Reading)
    BY <1>1 DEF At, Reading
  <2>2. At(Reading) \in SUBSET Threads
    BY DEF At
  <2>. QED
    BY <2>1, <2>2, OneLess, ThreadAssumption DEF Base, CountersExact
<1>2. ASSUME pc[t] \in Reading, arg[t] = Unbound PROVE waiting_var > 0
  <2>. DEFINE A == {u \in At(Reading) : arg[u] = Unbound}
  <2>1. t \in A /\ A \in SUBSET Threads
    BY <1>2 DEF At, Reading
  <2>2. waiting_var = Cardinality(A)
    BY DEF Base, CountersExact
  <2>. HIDE DEF A
  <2>. QED
    BY <2>1, <2>2, OneLess, ThreadAssumption
<1>3. ASSUME pc[t] \in Draining PROVE wait_for_drain > 0
  <2>1. t \in At(Draining)
    BY <1>3 DEF At, Draining
  <2>2. At(Draining) \in SUBSET Threads
    BY DEF At
  <2>. QED
    BY <2>1, <2>2, OneLess, ThreadAssumption DEF Base, CountersExact
<1>4. waiting_var \in Nat
  BY DEF Base, TypeOK
<1>. QED
  BY <1>1, <1>2, <1>3, <1>4 DEF IsVar

\* The messages a reader looks at are in the queue.
LEMMA TakesOne ==
  ASSUME Base, NEW t \in Threads, Candidates(t) # {}
  PROVE  /\ Oldest(t) \in Candidates(t)
         /\ Oldest(t) \in 1..Len(queue)
         /\ \A i \in Candidates(t) : Oldest(t) <= i
<1>1. Candidates(t) \in SUBSET Nat /\ Candidates(t) \subseteq 1..Len(queue)
  BY SMTT(30) DEF Candidates, Base, TypeOK
<1>. QED
  BY <1>1, MinIsLeast DEF Oldest

\* What a reader has seen when it begins to wait: the queue as it is.
LEMMA SeesAll ==
  ASSUME Base, NEW t \in Threads
  PROVE  LET m == Max({seen[t]} \cup {queue[i].id : i \in DOMAIN queue})
         IN  /\ m \in Nat /\ m <= sequence_next
             /\ seen[t] <= m /\ \A i \in DOMAIN queue : queue[i].id <= m
<1>. DEFINE S == {seen[t]} \cup {queue[i].id : i \in DOMAIN queue}
<1>1. \A x \in S : x \in Nat /\ x <= sequence_next
  BY DEF Base, TypeOK, Numbered
<1>2. seen[t] \in S /\ \A i \in DOMAIN queue : queue[i].id \in S
  OBVIOUS
<1>3. sequence_next \in Nat
  BY DEF Base, TypeOK
<1>. HIDE DEF S
<1>4. Max(S) \in S /\ \A y \in S : y <= Max(S)
  BY <1>1, <1>2, <1>3, MaxIsGreatest
<1>. QED
  BY <1>1, <1>2, <1>4 DEF S

\* Steps keep the types.
LEMMA TypeKept == Base /\ [Next]_vars => TypeOK'
<1>. SUFFICES ASSUME Base, [Next]_vars PROVE TypeOK'
  OBVIOUS
<1>. USE DEF Base
<1>1. CASE UNCHANGED vars
  BY <1>1 DEF vars, qvars, tvars, TypeOK
<1>2. ASSUME NEW t \in Threads, UNCHANGED use, Call(t) PROVE TypeOK'
  <2>1. /\ calls' \in [Threads -> Nat]
        /\ \A u \in Threads : calls'[u] <= use'.bound[u]
    BY ScenarioFields, BoundAssumption, <1>2 DEF Call, TypeOK
  <2>2. arg' \in [Threads -> Patterns]
    BY ScenarioFields, <1>2 DEF Call, Args, Patterns, TypeOK
  <2>3. pc' \in [Threads -> Places]
    BY <1>2 DEF Call, Entry, Places, TypeOK
  <2>. QED
    BY <2>1, <2>2, <2>3, <1>2 DEF Call, TypeOK, qvars
<1>3. ASSUME NEW t \in Threads, UNCHANGED use, Signal(t) PROVE TypeOK'
  BY ScenarioFields, <1>3, SMTT(30) DEF Signal, TypeOK, qvars
<1>4. ASSUME NEW t \in Threads, UNCHANGED use, Expire(t) PROVE TypeOK'
  <2>1. pc' \in [Threads -> Places]
    BY WokenPlaces, ThreadAssumption, <1>4 DEF Expire, TypeOK
  <2>. QED
    BY <2>1, <1>4 DEF Expire, TypeOK, qvars
<1>5. ASSUME NEW t \in Threads, UNCHANGED use, Poll(t) PROVE TypeOK'
  <2>1. pc' \in [Threads -> Places]
    BY WokenPlaces, ThreadAssumption, <1>5 DEF Poll, TypeOK
  <2>. QED
    BY <2>1, <1>5 DEF Poll, TypeOK, qvars, tvars
<1>6. ASSUME NEW t \in Threads, UNCHANGED use, Lookup(t) PROVE TypeOK'
  BY <1>6 DEF Lookup, Places, Results, TypeOK, qvars, tvars
<1>7. ASSUME NEW t \in Threads, UNCHANGED use, Lock(t) PROVE TypeOK'
  <2>1. pc' \in [Threads -> Places] /\ rc' \in [Threads -> Results]
    BY <1>7 DEF Lock, Body, Places, Locked, Results, TypeOK, Threads
  <2>2. mutex' \in Threads \cup {NoThread} /\ L_THREAD' \in Threads \cup {NoThread}
    BY <1>7 DEF Lock, TypeOK
  <2>3. seen' \in [Threads -> Nat]
    <3>1. seen' = seen \/ seen' = [seen EXCEPT ![t] = 0]
      BY <1>7 DEF Lock
    <3>2. seen \in [Threads -> Nat]
      BY DEF TypeOK
    <3>. QED
      BY <3>1, <3>2
  <2>. QED
    BY <2>1, <2>2, <2>3, <1>7 DEF Lock, TypeOK, qvars
<1>8. ASSUME NEW t \in Threads, UNCHANGED use, RelockRead(t) PROVE TypeOK'
  <2>1. waiting' \in Nat /\ waiting_var' \in Nat
    <3>1. pc[t] \in Reading /\ Unwait(t)
      BY <1>8 DEF RelockRead, Reading
    <3>2. waiting > 0 /\ waiting_var >= IsVar(t) /\ IsVar(t) \in {0, 1}
      BY <3>1, Counted
    <3>3. waiting \in Nat /\ waiting_var \in Nat
      BY DEF TypeOK
    <3>. QED
      BY <3>1, <3>2, <3>3 DEF Unwait
  <2>2. pc' \in [Threads -> Places] /\ rc' \in [Threads -> Results]
    BY <1>8 DEF RelockRead, WaitOutcome, Places, Locked, Results, TypeOK
  <2>. QED
    BY <2>1, <2>2, <1>8 DEF RelockRead, TypeOK
<1>9. ASSUME NEW t \in Threads, UNCHANGED use, RelockDrain(t) PROVE TypeOK'
  <2>1. wait_for_drain' \in Nat
    BY Counted, <1>9 DEF RelockDrain, Draining, TypeOK
  <2>2. pc' \in [Threads -> Places] /\ rc' \in [Threads -> Results]
    BY <1>9 DEF RelockDrain, DrainOutcome, WaitOutcome, Places, Locked, Results, TypeOK
  <2>. QED
    BY <2>1, <2>2, <1>9 DEF RelockDrain, TypeOK
<1>10. ASSUME NEW t \in Threads, UNCHANGED use, ExitBegin(t) PROVE TypeOK'
  BY <1>10 DEF ExitBegin, Places, TypeOK, qvars, tvars
<1>11. ASSUME NEW t \in Threads, UNCHANGED use, ExitLoop(t) PROVE TypeOK'
  <2>1. pc' \in [Threads -> Places]
    <3>1. CASE SomebodyWaits
      <4>. DEFINE S == Asleep("wait_read") \cup Asleep("wait_drain")
      <4>1. pc' = Woken(NoThread, "", S)
        BY <3>1, <1>11 DEF ExitLoop
      <4>. HIDE DEF S
      <4>. QED
        BY <4>1, WokenPlaces, ThreadAssumption DEF TypeOK
    <3>2. CASE ~SomebodyWaits
      BY <3>2, <1>11 DEF ExitLoop, Places, TypeOK
    <3>. QED
      BY <3>1, <3>2
  <2>2. /\ queue' \in Seq([id : Nat, term : Terms])
        /\ destroyed' \in BOOLEAN /\ listed' \in BOOLEAN
        /\ memory' \in {"live", "cleared", "freed"}
        /\ L_THREAD' \in Threads \cup {NoThread}
    <3>1. \/ UNCHANGED <<queue, listed, memory, L_THREAD>>
          \/ queue' = <<>> /\ memory' = "freed" /\ listed' = FALSE /\ L_THREAD' = NoThread
      BY <1>11 DEF ExitLoop
    <3>2. destroyed' = TRUE
      BY <1>11 DEF ExitLoop
    <3>3. CASE UNCHANGED <<queue, listed, memory, L_THREAD>>
      BY <3>2, <3>3 DEF TypeOK
    <3>4. CASE queue' = <<>> /\ memory' = "freed" /\ listed' = FALSE /\ L_THREAD' = NoThread
      <4>1. <<>> \in Seq([id : Nat, term : Terms])
        OBVIOUS
      <4>2. queue' \in Seq([id : Nat, term : Terms])
        BY <3>4, <4>1
      <4>. QED
        BY <3>2, <3>4, <4>2
    <3>. QED
      BY <3>1, <3>3, <3>4
  <2>. QED
    BY <2>1, <2>2, <1>11 DEF ExitLoop, TypeOK, tvars
<1>12. ASSUME NEW t \in Threads, UNCHANGED use, Take(t) PROVE TypeOK'
  <2>1. pc' \in [Threads -> Places]
    <3>1. PICK S : pc' = Woken(t, "release", S)
      BY <1>12 DEF Take
    <3>. QED
      BY <3>1, WokenPlaces DEF Places, Locked, TypeOK
  <2>2. queue' \in Seq([id : Nat, term : Terms])
    BY TakesOne, RemoveOne, <1>12 DEF Take, TypeOK
  <2>3. rc' \in [Threads -> Results]
    BY <1>12 DEF Take, Results, TypeOK
  <2>. QED
    BY <2>1, <2>2, <2>3, <1>12 DEF Take, TypeOK
<1>13. ASSUME NEW t \in Threads, UNCHANGED use, WaitRead(t) PROVE TypeOK'
  <2>1. seen' \in [Threads -> Nat]
    BY SeesAll, <1>13 DEF WaitRead, TypeOK
  <2>2. waiting' \in Nat /\ waiting_var' \in Nat
    BY <1>13 DEF WaitRead, IsVar, TypeOK
  <2>3. pc' \in [Threads -> Places] /\ expired' \in [Threads -> BOOLEAN]
    BY <1>13 DEF WaitRead, Sleep, Places, Waits, Reading, Draining, TypeOK
  <2>. QED
    BY <2>1, <2>2, <2>3, <1>13 DEF WaitRead, Sleep, TypeOK
<1>14. ASSUME NEW t \in Threads, UNCHANGED use, ScanDestroyed(t) PROVE TypeOK'
  BY <1>14 DEF ScanDestroyed, Places, Locked, Results, TypeOK, qvars, tvars
<1>15. ASSUME NEW t \in Threads, UNCHANGED use, Peek(t) PROVE TypeOK'
  BY <1>15 DEF Peek, Places, Locked, Results, TypeOK, qvars, tvars
<1>16. ASSUME NEW t \in Threads, UNCHANGED use, WaitDrain(t) PROVE TypeOK'
  BY <1>16 DEF WaitDrain, Sleep, Places, Waits, Reading, Draining, TypeOK, qvars, tvars
<1>17. ASSUME NEW t \in Threads, UNCHANGED use, Put(t) PROVE TypeOK'
  <2>1. pc' \in [Threads -> Places]
    <3>1. PICK S : pc' = Woken(t, "release", S)
      BY <1>17 DEF Put
    <3>. QED
      BY <3>1, WokenPlaces DEF Places, Locked, TypeOK
  <2>2. sequence_next' \in Nat /\ queue' \in Seq([id : Nat, term : Terms])
    <3>1. sequence_next + 1 \in Nat
      BY DEF TypeOK
    <3>2. arg[t] \in Terms
      BY <1>17 DEF Put, Roles, Role
    <3>3. [id |-> sequence_next + 1, term |-> arg[t]] \in [id : Nat, term : Terms]
      BY <3>1, <3>2
    <3>. QED
      BY <3>1, <3>3, <1>17 DEF Put, NextId, TypeOK
  <2>3. rc' \in [Threads -> Results]
    BY <1>17 DEF Put, Results, TypeOK
  <2>. QED
    BY <2>1, <2>2, <2>3, <1>17 DEF Put, TypeOK
<1>18. ASSUME NEW t \in Threads, UNCHANGED use, Destroy(t) PROVE TypeOK'
  <2>1. pc' \in [Threads -> Places]
    <3>. DEFINE S == Asleep("wait_read") \cup Asleep("wait_drain")
    <3>1. pc' = Woken(t, "release", S)
      BY <1>18 DEF Destroy
    <3>. HIDE DEF S
    <3>. QED
      BY <3>1, WokenPlaces DEF Places, Locked, TypeOK
  <2>2. rc' \in [Threads -> Results]
    BY <1>18 DEF Destroy, Results, TypeOK
  <2>. QED
    BY <2>1, <2>2, <1>18 DEF Destroy, TypeOK
<1>19. ASSUME NEW t \in Threads, UNCHANGED use, DestroyRefused(t) PROVE TypeOK'
  BY <1>19 DEF DestroyRefused, Places, Locked, Results, TypeOK, qvars, tvars
<1>20. ASSUME NEW t \in Threads, UNCHANGED use, Release(t) PROVE TypeOK'
  BY <1>20 DEF Release, Places, TypeOK, qvars, tvars
<1>21. ASSUME NEW t \in Threads, UNCHANGED use, Delete(t) PROVE TypeOK'
  BY <1>21 DEF Delete, Places, Remains, TypeOK, qvars, tvars
<1>22. ASSUME NEW t \in Threads, UNCHANGED use, Return(t) PROVE TypeOK'
  BY <1>22 DEF Return, Resume, Places, Locked, Results, Patterns, TypeOK, qvars, tvars
<1>. QED
  BY <1>1, <1>2, <1>3, <1>4, <1>5, <1>6, <1>7, <1>8, <1>9, <1>10, <1>11, <1>12, <1>13, <1>14, <1>15, <1>16, <1>17, <1>18, <1>19, <1>20, <1>21, <1>22
  DEF Next, Runs, Acquire, Inside, QueueMessage

-----------------------------------------------------------------------------
(* What a step of one thread leaves alone.                                  *)

\* A step of thread t.
Step(t) == Call(t) \/ Signal(t) \/ Expire(t) \/ Runs(t)

\* Thread u is where it was, or has been woken up.
Rests(u) == \/ pc'[u] = pc[u]
            \/ pc[u] = "wait_read" /\ pc'[u] = "relock_read"
            \/ pc[u] = "wait_drain" /\ pc'[u] = "relock_drain"

\* The other threads rest, and what they hold is theirs.
Frame(t) ==
  \A u \in Threads \ {t} :
    /\ Rests(u)
    /\ arg'[u] = arg[u] /\ rc'[u] = rc[u] /\ seen'[u] = seen[u]

\* A step of one thread leaves the others where they are, but for those it
\* wakes.
LEMMA StepFrame ==
  ASSUME Base, NEW t \in Threads, Step(t)
  PROVE  Frame(t)
<1>. USE DEF Base
<1>1. CASE Call(t)
  BY <1>1 DEF Call, Frame, Rests, TypeOK, tvars
<1>2. CASE Signal(t)
  BY <1>2 DEF Signal, Frame, Rests, TypeOK, tvars
<1>3. CASE Expire(t)
  <2>1. pc' = Woken(NoThread, "", {t})
    BY <1>3 DEF Expire
  <2>2. \A u \in Threads \ {t} : pc'[u] = pc[u]
    BY <2>1, ThreadAssumption DEF Woken, Rests
  <2>. QED
    BY <1>3, <2>2 DEF Expire, Frame, Rests, TypeOK, tvars
<1>4. CASE Poll(t)
  <2>1. pc' = Woken(NoThread, "", {t})
    BY <1>4 DEF Poll
  <2>2. \A u \in Threads \ {t} : pc'[u] = pc[u]
    BY <2>1, ThreadAssumption DEF Woken, Rests
  <2>. QED
    BY <1>4, <2>2 DEF Poll, Frame, Rests, TypeOK, tvars
<1>5. CASE Lookup(t)
  BY <1>5 DEF Lookup, Frame, Rests, TypeOK, tvars
<1>6. CASE Lock(t)
  BY <1>6 DEF Lock, Frame, Rests, TypeOK, tvars
<1>7. CASE RelockRead(t)
  BY <1>7 DEF RelockRead, Frame, Rests, TypeOK, tvars
<1>8. CASE RelockDrain(t)
  BY <1>8 DEF RelockDrain, Frame, Rests, TypeOK, tvars
<1>9. CASE ExitBegin(t)
  BY <1>9 DEF ExitBegin, Frame, Rests, TypeOK, tvars
<1>10. CASE ExitLoop(t)
  <2>1. UNCHANGED <<arg, rc, seen>>
    BY <1>10 DEF ExitLoop, tvars
  <2>2. CASE SomebodyWaits
    <3>1. PICK S : pc' = Woken(NoThread, "", S)
      BY <1>10, <2>2 DEF ExitLoop
    <3>2. \A u \in Threads \ {t} : Rests(u)
      BY <3>1, ThreadAssumption DEF Woken, Rests
    <3>. QED
      BY <2>1, <3>2 DEF Frame
  <2>3. CASE ~SomebodyWaits
    BY <1>10, <2>1, <2>3 DEF ExitLoop, Frame, Rests, TypeOK
  <2>. QED
    BY <2>2, <2>3
<1>11. CASE Take(t)
  <2>1. PICK S : pc' = Woken(t, "release", S)
    BY <1>11 DEF Take
  <2>2. \A u \in Threads \ {t} : Rests(u)
    BY <2>1 DEF Woken, Rests
  <2>. QED
    BY <1>11, <2>2 DEF Take, Frame, Rests, TypeOK
<1>12. CASE WaitRead(t)
  BY <1>12 DEF WaitRead, Sleep, Frame, Rests, TypeOK, tvars
<1>13. CASE ScanDestroyed(t)
  BY <1>13 DEF ScanDestroyed, Frame, Rests, TypeOK, tvars
<1>14. CASE Peek(t)
  BY <1>14 DEF Peek, Frame, Rests, TypeOK, tvars
<1>15. CASE WaitDrain(t)
  BY <1>15 DEF WaitDrain, Sleep, Frame, Rests, TypeOK, tvars
<1>16. CASE Put(t)
  <2>1. PICK S : pc' = Woken(t, "release", S)
    BY <1>16 DEF Put
  <2>2. \A u \in Threads \ {t} : Rests(u)
    BY <2>1 DEF Woken, Rests
  <2>. QED
    BY <1>16, <2>2 DEF Put, Frame, Rests, TypeOK
<1>17. CASE Destroy(t)
  <2>1. PICK S : pc' = Woken(t, "release", S)
    BY <1>17 DEF Destroy
  <2>2. \A u \in Threads \ {t} : Rests(u)
    BY <2>1 DEF Woken, Rests
  <2>. QED
    BY <1>17, <2>2 DEF Destroy, Frame, Rests, TypeOK
<1>18. CASE DestroyRefused(t)
  BY <1>18 DEF DestroyRefused, Frame, Rests, TypeOK, tvars
<1>19. CASE Release(t)
  BY <1>19 DEF Release, Frame, Rests, TypeOK, tvars
<1>20. CASE Delete(t)
  BY <1>20 DEF Delete, Frame, Rests, TypeOK, tvars
<1>21. CASE Return(t)
  BY <1>21 DEF Return, Frame, Rests, TypeOK, tvars
<1>. QED
  BY <1>1, <1>2, <1>3, <1>4, <1>5, <1>6, <1>7, <1>8, <1>9, <1>10, <1>11, <1>12, <1>13, <1>14, <1>15, <1>16, <1>17, <1>18, <1>19, <1>20, <1>21
  DEF Step, Runs, Acquire, Inside, QueueMessage

-----------------------------------------------------------------------------
(* Roles and counters.                                                      *)

\* The thread that takes a step stays in its role, and so do the others.
LEMMA RolesKept == 
  ASSUME Base, NEW t \in Threads, Step(t), UNCHANGED use
  PROVE  Roles'
<1>. USE DEF Base
<1>. SUFFICES Role(t)'
  <2>1. \A u \in Threads \ {t} : Role(u)'
    BY StepFrame DEF Frame, Rests, Roles, Role, Reading, Draining
  <2>. QED
    BY <2>1 DEF Roles
<1>0. Role(t)
  BY DEF Roles
<1>1. CASE Call(t)
  BY <1>0, <1>1, ScenarioFields, RoleAssumption DEF Call, Entry, Args, Patterns, Role, Reading, Draining, TypeOK
<1>2. CASE Signal(t)
  BY <1>0, <1>2 DEF Signal, Role, Reading, Draining, TypeOK
<1>3. CASE Expire(t)
  BY <1>0, <1>3, ThreadAssumption DEF Expire, Woken, Role, Reading, Draining, TypeOK
<1>4. CASE Poll(t)
  BY <1>0, <1>4, ThreadAssumption DEF Poll, Woken, tvars, Role, Reading, Draining, TypeOK
<1>5. CASE Lookup(t)
  BY <1>0, <1>5 DEF Lookup, Role, Reading, Draining, TypeOK
<1>6. CASE Lock(t)
  BY <1>0, <1>6, RoleAssumption DEF Lock, Body, Threads, Role, Reading, Draining, TypeOK
<1>7. CASE RelockRead(t)
  BY <1>0, <1>7, RoleAssumption DEF RelockRead, WaitOutcome, Role, Reading, Draining, TypeOK
<1>8. CASE RelockDrain(t)
  BY <1>0, <1>8, RoleAssumption DEF RelockDrain, DrainOutcome, WaitOutcome, Role, Reading, Draining, TypeOK
<1>9. CASE ExitBegin(t)
  BY <1>0, <1>9 DEF ExitBegin, tvars, Role, Reading, Draining, TypeOK
<1>10. CASE ExitLoop(t)
  BY <1>0, <1>10, ThreadAssumption DEF ExitLoop, Woken, tvars, Role, Reading, Draining, TypeOK
<1>11. CASE Take(t)
  BY <1>0, <1>11 DEF Take, Woken, Role, Reading, Draining, TypeOK
<1>12. CASE WaitRead(t)
  BY <1>0, <1>12 DEF WaitRead, Sleep, Role, Reading, Draining, TypeOK
<1>13. CASE ScanDestroyed(t)
  BY <1>0, <1>13 DEF ScanDestroyed, Role, Reading, Draining, TypeOK
<1>14. CASE Peek(t)
  BY <1>0, <1>14 DEF Peek, Role, Reading, Draining, TypeOK
<1>15. CASE WaitDrain(t)
  BY <1>0, <1>15 DEF WaitDrain, Sleep, Role, Reading, Draining, TypeOK
<1>16. CASE Put(t)
  BY <1>0, <1>16 DEF Put, Woken, Role, Reading, Draining, TypeOK
<1>17. CASE Destroy(t)
  BY <1>0, <1>17 DEF Destroy, Woken, Role, Reading, Draining, TypeOK
<1>18. CASE DestroyRefused(t)
  BY <1>0, <1>18 DEF DestroyRefused, Role, Reading, Draining, TypeOK
<1>19. CASE Release(t)
  BY <1>0, <1>19 DEF Release, tvars, Role, Reading, Draining, TypeOK
<1>20. CASE Delete(t)
  BY <1>0, <1>20 DEF Delete, tvars, Role, Reading, Draining, TypeOK
<1>21. CASE Return(t)
  BY <1>0, <1>21, RoleAssumption DEF Return, Resume, Threads, Role, Reading, Draining, TypeOK
<1>. QED
  BY <1>1, <1>2, <1>3, <1>4, <1>5, <1>6, <1>7, <1>8, <1>9, <1>10, <1>11, <1>12, <1>13, <1>14, <1>15, <1>16, <1>17, <1>18, <1>19, <1>20, <1>21
  DEF Step, Runs, Acquire, Inside, QueueMessage

\* A step that takes nobody into a wait or out of it keeps the counters.
LEMMA CountersStay ==
  ASSUME Base, NEW t \in Threads, Frame(t),
         UNCHANGED <<waiting, waiting_var, wait_for_drain>>,
         pc'[t] \in Reading <=> pc[t] \in Reading,
         pc'[t] \in Draining <=> pc[t] \in Draining,
         pc[t] \in Reading => arg'[t] = arg[t]
  PROVE  CountersExact'
<1>1. At(Reading)' = At(Reading) /\ At(Draining)' = At(Draining)
  BY DEF At, Frame, Rests, Reading, Draining
<1>2. \A u \in At(Reading) : arg'[u] = arg[u]
  BY DEF At, Frame
<1>3. {u \in At(Reading) : arg[u] = Unbound}' = {u \in At(Reading) : arg[u] = Unbound}
  BY <1>1, <1>2
<1>. QED
  BY <1>1, <1>3 DEF Base, CountersExact

\* The counters stay exact, however a wait begins and ends.
LEMMA CountersKept ==
  ASSUME Base, NEW t \in Threads, Step(t), UNCHANGED use
  PROVE  CountersExact'
<1>. USE DEF Base
<1>0. Frame(t) /\ pc \in [Threads -> Places] /\ arg \in [Threads -> Patterns]
  BY StepFrame DEF TypeOK
<1>1. CASE Call(t)
  <2>1. /\ UNCHANGED <<waiting, waiting_var, wait_for_drain>>
        /\ pc'[t] \in Reading <=> pc[t] \in Reading
        /\ pc'[t] \in Draining <=> pc[t] \in Draining
        /\ pc[t] \in Reading => arg'[t] = arg[t]
    BY <1>0, <1>1 DEF Call, Entry, qvars, Reading, Draining
  <2>. QED
    BY <1>0, <2>1, CountersStay
<1>2. CASE Signal(t)
  <2>1. /\ UNCHANGED <<waiting, waiting_var, wait_for_drain>>
        /\ pc'[t] \in Reading <=> pc[t] \in Reading
        /\ pc'[t] \in Draining <=> pc[t] \in Draining
        /\ pc[t] \in Reading => arg'[t] = arg[t]
    BY <1>0, <1>2 DEF Signal, qvars, Reading, Draining
  <2>. QED
    BY <1>0, <2>1, CountersStay
<1>3. CASE Expire(t)
  <2>1. /\ UNCHANGED <<waiting, waiting_var, wait_for_drain>>
        /\ pc'[t] \in Reading <=> pc[t] \in Reading
        /\ pc'[t] \in Draining <=> pc[t] \in Draining
        /\ pc[t] \in Reading => arg'[t] = arg[t]
    BY <1>0, <1>3, ThreadAssumption DEF Expire, Woken, qvars, Reading, Draining
  <2>. QED
    BY <1>0, <2>1, CountersStay
<1>4. CASE Poll(t)
  <2>1. /\ UNCHANGED <<waiting, waiting_var, wait_for_drain>>
        /\ pc'[t] \in Reading <=> pc[t] \in Reading
        /\ pc'[t] \in Draining <=> pc[t] \in Draining
        /\ pc[t] \in Reading => arg'[t] = arg[t]
    BY <1>0, <1>4, ThreadAssumption DEF Poll, Woken, qvars, tvars, Reading, Draining
  <2>. QED
    BY <1>0, <2>1, CountersStay
<1>5. CASE Lookup(t)
  <2>1. /\ UNCHANGED <<waiting, waiting_var, wait_for_drain>>
        /\ pc'[t] \in Reading <=> pc[t] \in Reading
        /\ pc'[t] \in Draining <=> pc[t] \in Draining
        /\ pc[t] \in Reading => arg'[t] = arg[t]
    BY <1>0, <1>5 DEF Lookup, qvars, Reading, Draining
  <2>. QED
    BY <1>0, <2>1, CountersStay
<1>6. CASE Lock(t)
  <2>1. /\ UNCHANGED <<waiting, waiting_var, wait_for_drain>>
        /\ pc'[t] \in Reading <=> pc[t] \in Reading
        /\ pc'[t] \in Draining <=> pc[t] \in Draining
        /\ pc[t] \in Reading => arg'[t] = arg[t]
    BY <1>0, <1>6, RoleAssumption DEF Lock, Body, qvars, Threads, Reading, Draining
  <2>. QED
    BY <1>0, <2>1, CountersStay
<1>7. CASE ExitBegin(t)
  <2>1. /\ UNCHANGED <<waiting, waiting_var, wait_for_drain>>
        /\ pc'[t] \in Reading <=> pc[t] \in Reading
        /\ pc'[t] \in Draining <=> pc[t] \in Draining
        /\ pc[t] \in Reading => arg'[t] = arg[t]
    BY <1>0, <1>7 DEF ExitBegin, qvars, tvars, Reading, Draining
  <2>. QED
    BY <1>0, <2>1, CountersStay
<1>8. CASE ExitLoop(t)
  <2>1. /\ UNCHANGED <<waiting, waiting_var, wait_for_drain>>
        /\ pc'[t] \in Reading <=> pc[t] \in Reading
        /\ pc'[t] \in Draining <=> pc[t] \in Draining
        /\ pc[t] \in Reading => arg'[t] = arg[t]
    BY <1>0, <1>8, ThreadAssumption DEF ExitLoop, Woken, tvars, Reading, Draining
  <2>. QED
    BY <1>0, <2>1, CountersStay
<1>9. CASE Take(t)
  <2>1. /\ UNCHANGED <<waiting, waiting_var, wait_for_drain>>
        /\ pc'[t] \in Reading <=> pc[t] \in Reading
        /\ pc'[t] \in Draining <=> pc[t] \in Draining
        /\ pc[t] \in Reading => arg'[t] = arg[t]
    BY <1>0, <1>9 DEF Take, Woken, Reading, Draining
  <2>. QED
    BY <1>0, <2>1, CountersStay
<1>10. CASE ScanDestroyed(t)
  <2>1. /\ UNCHANGED <<waiting, waiting_var, wait_for_drain>>
        /\ pc'[t] \in Reading <=> pc[t] \in Reading
        /\ pc'[t] \in Draining <=> pc[t] \in Draining
        /\ pc[t] \in Reading => arg'[t] = arg[t]
    BY <1>0, <1>10 DEF ScanDestroyed, qvars, Reading, Draining
  <2>. QED
    BY <1>0, <2>1, CountersStay
<1>11. CASE Peek(t)
  <2>1. /\ UNCHANGED <<waiting, waiting_var, wait_for_drain>>
        /\ pc'[t] \in Reading <=> pc[t] \in Reading
        /\ pc'[t] \in Draining <=> pc[t] \in Draining
        /\ pc[t] \in Reading => arg'[t] = arg[t]
    BY <1>0, <1>11 DEF Peek, qvars, Reading, Draining
  <2>. QED
    BY <1>0, <2>1, CountersStay
<1>12. CASE Put(t)
  <2>1. /\ UNCHANGED <<waiting, waiting_var, wait_for_drain>>
        /\ pc'[t] \in Reading <=> pc[t] \in Reading
        /\ pc'[t] \in Draining <=> pc[t] \in Draining
        /\ pc[t] \in Reading => arg'[t] = arg[t]
    BY <1>0, <1>12 DEF Put, Woken, Reading, Draining
  <2>. QED
    BY <1>0, <2>1, CountersStay
<1>13. CASE Destroy(t)
  <2>1. /\ UNCHANGED <<waiting, waiting_var, wait_for_drain>>
        /\ pc'[t] \in Reading <=> pc[t] \in Reading
        /\ pc'[t] \in Draining <=> pc[t] \in Draining
        /\ pc[t] \in Reading => arg'[t] = arg[t]
    BY <1>0, <1>13 DEF Destroy, Woken, Reading, Draining
  <2>. QED
    BY <1>0, <2>1, CountersStay
<1>14. CASE DestroyRefused(t)
  <2>1. /\ UNCHANGED <<waiting, waiting_var, wait_for_drain>>
        /\ pc'[t] \in Reading <=> pc[t] \in Reading
        /\ pc'[t] \in Draining <=> pc[t] \in Draining
        /\ pc[t] \in Reading => arg'[t] = arg[t]
    BY <1>0, <1>14 DEF DestroyRefused, qvars, Reading, Draining
  <2>. QED
    BY <1>0, <2>1, CountersStay
<1>15. CASE Release(t)
  <2>1. /\ UNCHANGED <<waiting, waiting_var, wait_for_drain>>
        /\ pc'[t] \in Reading <=> pc[t] \in Reading
        /\ pc'[t] \in Draining <=> pc[t] \in Draining
        /\ pc[t] \in Reading => arg'[t] = arg[t]
    BY <1>0, <1>15 DEF Release, qvars, tvars, Reading, Draining
  <2>. QED
    BY <1>0, <2>1, CountersStay
<1>16. CASE Delete(t)
  <2>1. /\ UNCHANGED <<waiting, waiting_var, wait_for_drain>>
        /\ pc'[t] \in Reading <=> pc[t] \in Reading
        /\ pc'[t] \in Draining <=> pc[t] \in Draining
        /\ pc[t] \in Reading => arg'[t] = arg[t]
    BY <1>0, <1>16 DEF Delete, tvars, Reading, Draining
  <2>. QED
    BY <1>0, <2>1, CountersStay
<1>17. CASE Return(t)
  <2>1. /\ UNCHANGED <<waiting, waiting_var, wait_for_drain>>
        /\ pc'[t] \in Reading <=> pc[t] \in Reading
        /\ pc'[t] \in Draining <=> pc[t] \in Draining
        /\ pc[t] \in Reading => arg'[t] = arg[t]
    BY <1>0, <1>17 DEF Return, Resume, qvars, Reading, Draining
  <2>. QED
    BY <1>0, <2>1, CountersStay
<1>18. CASE WaitRead(t)
  <2>1. /\ At(Reading)' = At(Reading) \cup {t} /\ t \notin At(Reading)
        /\ At(Draining)' = At(Draining)
    BY <1>0, <1>18 DEF At, Frame, Rests, WaitRead, Sleep, Reading, Draining
  <2>2. arg' = arg /\ wait_for_drain' = wait_for_drain
    BY <1>18 DEF WaitRead
  <2>3. waiting' = waiting + 1 /\ waiting_var' = waiting_var + IsVar(t)
    BY <1>18 DEF WaitRead
  <2>4. waiting' = Cardinality(At(Reading)')
    BY <2>1, <2>3, OneMore, ThreadAssumption DEF CountersExact, At
  <2>. DEFINE V == {u \in At(Reading) : arg[u] = Unbound}
              W == {u \in At(Reading)' : arg'[u] = Unbound}
  <2>5. waiting_var' = Cardinality(W)
    <3>0. V \in SUBSET Threads /\ t \notin V /\ waiting_var = Cardinality(V)
      BY <2>1 DEF At, CountersExact
    <3>1. CASE arg[t] = Unbound
      <4>1. W = V \cup {t} /\ IsVar(t) = 1
        BY <2>1, <2>2, <3>1 DEF IsVar
      <4>. HIDE DEF V, W
      <4>. QED
        BY <2>3, <3>0, <4>1, OneMore, ThreadAssumption
    <3>2. CASE arg[t] # Unbound
      <4>1. W = V /\ IsVar(t) = 0
        BY <2>1, <2>2, <3>2 DEF IsVar
      <4>2. waiting_var \in Nat
        BY DEF TypeOK
      <4>. HIDE DEF V, W
      <4>. QED
        BY <2>3, <3>0, <4>1, <4>2
    <3>. QED
      BY <3>1, <3>2
  <2>. QED
    BY <2>1, <2>2, <2>4, <2>5 DEF CountersExact
<1>19. CASE RelockRead(t)
  <2>1. /\ At(Reading)' = At(Reading) \ {t} /\ t \in At(Reading)
        /\ At(Draining)' = At(Draining)
    BY <1>0, <1>19 DEF At, Frame, Rests, RelockRead, Reading, Draining
  <2>2. arg' = arg /\ wait_for_drain' = wait_for_drain
    BY <1>19 DEF RelockRead
  <2>3. waiting' = waiting - 1 /\ waiting_var' = waiting_var - IsVar(t)
    BY <1>19 DEF RelockRead, Unwait
  <2>4. waiting' = Cardinality(At(Reading)')
    BY <2>1, <2>3, OneLess, ThreadAssumption DEF CountersExact, At
  <2>. DEFINE V == {u \in At(Reading) : arg[u] = Unbound}
              W == {u \in At(Reading)' : arg'[u] = Unbound}
  <2>5. waiting_var' = Cardinality(W)
    <3>0. V \in SUBSET Threads /\ waiting_var = Cardinality(V)
      BY DEF At, CountersExact
    <3>1. CASE arg[t] = Unbound
      <4>1. W = V \ {t} /\ t \in V /\ IsVar(t) = 1
        BY <2>1, <2>2, <3>1 DEF IsVar
      <4>. HIDE DEF V, W
      <4>. QED
        BY <2>3, <3>0, <4>1, OneLess, ThreadAssumption
    <3>2. CASE arg[t] # Unbound
      <4>1. W = V /\ IsVar(t) = 0
        BY <2>1, <2>2, <3>2 DEF IsVar
      <4>2. waiting_var \in Nat
        BY DEF TypeOK
      <4>. HIDE DEF V, W
      <4>. QED
        BY <2>3, <3>0, <4>1, <4>2
    <3>. QED
      BY <3>1, <3>2
  <2>. QED
    BY <2>1, <2>2, <2>4, <2>5 DEF CountersExact
<1>20. CASE WaitDrain(t)
  <2>1. /\ At(Draining)' = At(Draining) \cup {t} /\ t \notin At(Draining)
        /\ At(Reading)' = At(Reading)
    BY <1>0, <1>20 DEF At, Frame, Rests, WaitDrain, Sleep, Reading, Draining
  <2>2. arg' = arg /\ waiting' = waiting /\ waiting_var' = waiting_var
    BY <1>20 DEF WaitDrain
  <2>3. wait_for_drain' = Cardinality(At(Draining)')
    BY <1>20, <2>1, OneMore, ThreadAssumption DEF WaitDrain, CountersExact, At
  <2>. QED
    BY <2>1, <2>2, <2>3 DEF CountersExact
<1>21. CASE RelockDrain(t)
  <2>1. /\ At(Draining)' = At(Draining) \ {t} /\ t \in At(Draining)
        /\ At(Reading)' = At(Reading)
    BY <1>0, <1>21 DEF At, Frame, Rests, RelockDrain, Reading, Draining
  <2>2. arg' = arg /\ waiting' = waiting /\ waiting_var' = waiting_var
    BY <1>21 DEF RelockDrain
  <2>3. wait_for_drain' = Cardinality(At(Draining)')
    BY <1>21, <2>1, OneLess, ThreadAssumption DEF RelockDrain, CountersExact, At
  <2>. QED
    BY <2>1, <2>2, <2>3 DEF CountersExact
<1>. QED
  BY <1>1, <1>2, <1>3, <1>4, <1>5, <1>6, <1>7, <1>8, <1>9, <1>10, <1>11, <1>12, <1>13, <1>14, <1>15, <1>16, <1>17, <1>18, <1>19, <1>20, <1>21
  DEF Step, Runs, Acquire, Inside, QueueMessage

-----------------------------------------------------------------------------
(* The numbers of messages, and what readers have seen.                     *)

\* The queue after a message was taken out: what is left was there.
LEMMA Shorter ==
  ASSUME Base, NEW t \in Threads, Take(t)
  PROVE  \A i \in DOMAIN queue' : \E j \in DOMAIN queue : queue'[i] = queue[j]
<1>. DEFINE k == Oldest(t)
<1>1. k \in 1..Len(queue) /\ queue' = RemoveAt(queue, k)
  BY TakesOne DEF Take
<1>2. queue \in Seq([id : Nat, term : Terms])
  BY DEF Base, TypeOK
<1>. HIDE DEF k
<1>3. /\ Len(queue') = Len(queue) - 1 /\ queue' \in Seq([id : Nat, term : Terms])
      /\ \A i \in 1..(Len(queue) - 1) :
           queue'[i] = IF i < k THEN queue[i] ELSE queue[i + 1]
  BY <1>1, <1>2, RemoveOne
<1>4. ASSUME NEW i \in DOMAIN queue'
      PROVE  \E j \in DOMAIN queue : queue'[i] = queue[j]
  <2>1. i \in 1..(Len(queue) - 1) /\ Len(queue) \in Nat
    BY <1>2, <1>3, SMTT(30)
  <2>2. i \in DOMAIN queue /\ i + 1 \in DOMAIN queue
    BY <1>2, <2>1
  <2>3. queue'[i] = queue[i] \/ queue'[i] = queue[i + 1]
    BY <1>3, <2>1
  <2>. QED
    BY <2>2, <2>3
<1>. QED
  BY <1>4

\* The queue after a message was appended: the new one has the highest number.
LEMMA Longer ==
  ASSUME Base, NEW t \in Threads, Put(t)
  PROVE  /\ sequence_next' = sequence_next + 1
         /\ \A i \in DOMAIN queue' :
              \/ i \in DOMAIN queue /\ queue'[i] = queue[i]
              \/ queue'[i] = [id |-> sequence_next + 1, term |-> arg[t]]
<1>1. queue' = Append(queue, [id |-> sequence_next + 1, term |-> arg[t]])
  BY DEF Put, NextId
<1>2. queue \in Seq([id : Nat, term : Terms])
  BY DEF Base, TypeOK
<1>. QED
  BY <1>1, <1>2 DEF Put, NextId

\* queue_message() numbers messages upwards, and nobody has seen a number that
\* has not been given.
LEMMA NumberedKept ==
  ASSUME Base, NEW t \in Threads, Step(t), UNCHANGED use
  PROVE  Numbered'
<1>. USE DEF Base
<1>0. /\ sequence_next \in Nat /\ seen \in [Threads -> Nat]
      /\ \A i \in DOMAIN queue : queue[i].id \in 1..sequence_next
      /\ \A u \in Threads : seen[u] <= sequence_next
  BY DEF TypeOK, Numbered
<1>1. CASE UNCHANGED <<queue, sequence_next, seen>>
  BY <1>0, <1>1 DEF Numbered
<1>2. CASE Lock(t)
  BY <1>0, <1>2 DEF Lock, qvars, Numbered
<1>3. CASE Return(t)
  BY <1>0, <1>3 DEF Return, qvars, Numbered
<1>4. CASE ExitLoop(t)
  <2>1. (queue' = queue \/ queue' = <<>>) /\ UNCHANGED <<sequence_next, seen>>
    BY <1>4 DEF ExitLoop, tvars
  <2>. QED
    BY <1>0, <2>1 DEF Numbered
<1>5. CASE Delete(t)
  BY <1>0, <1>5 DEF Delete, tvars, Numbered
<1>6. CASE Take(t)
  <2>1. UNCHANGED <<sequence_next, seen>>
    BY <1>6 DEF Take
  <2>. QED
    BY <1>0, <1>6, <2>1, Shorter DEF Numbered
<1>7. CASE WaitRead(t)
  <2>1. seen' = [seen EXCEPT ![t] = Max({seen[t]} \cup {queue[i].id : i \in DOMAIN queue})]
    BY <1>7 DEF WaitRead
  <2>2. \A u \in Threads : seen'[u] <= sequence_next
    BY <1>0, <2>1, SeesAll
  <2>3. UNCHANGED <<queue, sequence_next>>
    BY <1>7 DEF WaitRead
  <2>. QED
    BY <1>0, <2>2, <2>3 DEF Numbered
<1>8. CASE Put(t)
  <2>1. seen' = seen
    BY <1>8 DEF Put
  <2>2. \A i \in DOMAIN queue' : queue'[i].id \in 1..(sequence_next + 1)
    BY <1>0, <1>8, Longer
  <2>. QED
    BY <1>0, <1>8, <2>1, <2>2, Longer DEF Numbered
<1>9. CASE Call(t)
  BY <1>1, <1>9 DEF Call, qvars
<1>10. CASE Signal(t)
  BY <1>1, <1>10 DEF Signal, qvars
<1>11. CASE Expire(t)
  BY <1>1, <1>11 DEF Expire, qvars
<1>12. CASE Poll(t)
  BY <1>1, <1>12 DEF Poll, qvars, tvars
<1>13. CASE Lookup(t)
  BY <1>1, <1>13 DEF Lookup, qvars
<1>14. CASE RelockRead(t)
  BY <1>1, <1>14 DEF RelockRead
<1>15. CASE RelockDrain(t)
  BY <1>1, <1>15 DEF RelockDrain
<1>16. CASE ExitBegin(t)
  BY <1>1, <1>16 DEF ExitBegin, qvars, tvars
<1>17. CASE ScanDestroyed(t)
  BY <1>1, <1>17 DEF ScanDestroyed, qvars
<1>18. CASE Peek(t)
  BY <1>1, <1>18 DEF Peek, qvars
<1>19. CASE WaitDrain(t)
  BY <1>1, <1>19 DEF WaitDrain
<1>20. CASE Destroy(t)
  BY <1>1, <1>20 DEF Destroy
<1>21. CASE DestroyRefused(t)
  BY <1>1, <1>21 DEF DestroyRefused, qvars
<1>22. CASE Release(t)
  BY <1>1, <1>22 DEF Release, qvars, tvars
<1>. QED
  BY <1>1, <1>2, <1>3, <1>4, <1>5, <1>6, <1>7, <1>8, <1>9, <1>10, <1>11, <1>12, <1>13, <1>14, <1>15, <1>16, <1>17, <1>18, <1>19, <1>20, <1>21, <1>22
  DEF Step, Runs, Acquire, Inside, QueueMessage

\* What one reader knows of the messages it has seen.
Knows(t) ==
  \A i \in DOMAIN queue :
    /\ pc[t] \in Reading /\ queue[i].id <= seen[t] => ~Unifies(arg[t], queue[i].term)
    /\ pc[t] = "scan" /\ queue[i].id < seen[t] => ~Unifies(arg[t], queue[i].term)

\* What a reader has rejected, thread by thread.
LEMMA RejectedIsKnown == Rejected <=> \A t \in Threads : Knows(t)
BY DEF Rejected, SeenRejected, Knows, At, Reading

\* Threads that do nothing keep what they know: messages go, and those that
\* come have new numbers.
LEMMA OthersKnow ==
  ASSUME Base, NEW t \in Threads, Frame(t),
         \A i \in DOMAIN queue' : \/ \E j \in DOMAIN queue : queue'[i] = queue[j]
                                  \/ queue'[i].id = sequence_next + 1
  PROVE  \A u \in Threads \ {t} : Knows(u)'
<1>. SUFFICES ASSUME NEW u \in Threads \ {t}, NEW i \in DOMAIN queue'
              PROVE  /\ pc'[u] \in Reading /\ queue'[i].id <= seen'[u]
                          => ~Unifies(arg'[u], queue'[i].term)
                     /\ pc'[u] = "scan" /\ queue'[i].id < seen'[u]
                          => ~Unifies(arg'[u], queue'[i].term)
  BY DEF Knows, Reading, Unifies
<1>1. Rests(u) /\ arg'[u] = arg[u] /\ seen'[u] = seen[u]
  BY DEF Frame
<1>2. /\ pc'[u] \in Reading => pc[u] \in Reading
      /\ pc'[u] = "scan" => pc[u] = "scan"
  BY <1>1 DEF Rests, Reading
<1>3. Knows(u)
  BY RejectedIsKnown DEF Base
<1>4. CASE queue'[i].id = sequence_next + 1
  <2>1. seen[u] <= sequence_next /\ seen[u] \in Nat /\ sequence_next \in Nat
    BY DEF Base, Numbered, TypeOK
  <2>. QED
    BY <1>1, <1>4, <2>1
<1>5. CASE \E j \in DOMAIN queue : queue'[i] = queue[j]
  <2>1. PICK j \in DOMAIN queue : queue'[i] = queue[j]
    BY <1>5
  <2>. QED
    BY <1>1, <1>2, <1>3, <2>1 DEF Knows
<1>. QED
  BY <1>4, <1>5

\* Every step leaves readers right about what they have rejected: get_message()
\* moves the mark of a reader only over what does not unify.
LEMMA RejectedKept ==
  ASSUME Base, NEW t \in Threads, Step(t), UNCHANGED use
  PROVE  Rejected'
<1>. USE DEF Base
<1>0. Frame(t) /\ pc \in [Threads -> Places] /\ Knows(t) /\ seen \in [Threads -> Nat]
  BY StepFrame, RejectedIsKnown DEF TypeOK
<1>1. \A i \in DOMAIN queue' : \/ \E j \in DOMAIN queue : queue'[i] = queue[j]
                               \/ queue'[i].id = sequence_next + 1
  <2>1. CASE queue' = queue
    BY <2>1
  <2>2. CASE queue' = <<>>
    BY <2>2
  <2>3. CASE Take(t)
    BY <2>3, Shorter
  <2>4. CASE Put(t)
    BY <2>4, Longer
  <2>5. queue' = queue \/ queue' = <<>> \/ Take(t) \/ Put(t)
    BY DEF Step, Runs, Acquire, Inside, QueueMessage, Call, Signal, Expire, Poll, Lookup, Lock,
           RelockRead, RelockDrain, ExitBegin, ExitLoop, WaitRead, ScanDestroyed, Peek,
           WaitDrain, Destroy, DestroyRefused, Release, Delete, Return, qvars
  <2>. QED
    BY <2>1, <2>2, <2>3, <2>4, <2>5
<1>2. SUFFICES Knows(t)'
  <2>1. \A u \in Threads \ {t} : Knows(u)'
    BY <1>0, <1>1, OthersKnow
  <2>. QED
    BY <2>1 DEF Rejected, SeenRejected, Knows, At
<1>3. CASE pc'[t] \notin Reading \cup {"scan"}
  BY <1>3 DEF Knows
<1>4. CASE Signal(t)
  BY <1>0, <1>4 DEF Signal, qvars, Knows
<1>5. CASE Expire(t)
  BY <1>0, <1>5, ThreadAssumption DEF Expire, Woken, qvars, Knows, Reading
<1>6. CASE Poll(t)
  BY <1>0, <1>6, ThreadAssumption DEF Poll, Woken, qvars, tvars, Knows, Reading
<1>7. CASE Lock(t)
  <2>1. CASE destroyed
    <3>1. pc'[t] = "return"
      BY <1>0, <1>7, <2>1 DEF Lock
    <3>. QED
      BY <3>1 DEF Knows, Reading
  <2>2. CASE ~destroyed
    <3>1. pc'[t] \in {"scan", "peek", "queue", "destroy"} /\ seen'[t] = 0 /\ queue' = queue
      BY <1>0, <1>7, <2>2, RoleAssumption DEF Lock, Body, Threads, qvars
    <3>2. \A i \in DOMAIN queue : queue[i].id \in Nat
      BY DEF Numbered, TypeOK
    <3>. QED
      BY <3>1, <3>2 DEF Knows, Reading
  <2>. QED
    BY <2>1, <2>2
<1>8. CASE WaitRead(t)
  <2>1. UNCHANGED <<queue, arg>> /\ pc[t] = "scan" /\ pc'[t] = "wait_read"
    BY <1>0, <1>8 DEF WaitRead, Sleep
  <2>2. ASSUME NEW i \in DOMAIN queue PROVE ~Unifies(arg[t], queue[i].term)
    <3>1. queue[i].id \in Nat /\ seen[t] \in Nat /\ i \in 1..Len(queue)
      <4>1. queue \in Seq([id : Nat, term : Terms])
        BY DEF TypeOK
      <4>2. i \in 1..Len(queue)
        BY <4>1
      <4>3. queue[i].id \in Nat
        BY DEF Numbered
      <4>. QED
        BY <1>0, <4>2, <4>3
    <3>2. CASE queue[i].id < seen[t]
      BY <1>0, <2>1, <3>2 DEF Knows
    <3>3. CASE queue[i].id >= seen[t]
      BY <1>8, <3>1, <3>3 DEF WaitRead, Candidates
    <3>. QED
      BY <3>1, <3>2, <3>3
  <2>. QED
    BY <2>1, <2>2 DEF Knows
<1>9. CASE RelockRead(t)
  <2>1. UNCHANGED <<queue, arg, seen>> /\ pc[t] \in Reading /\ pc'[t] \in {"scan", "release"}
    BY <1>0, <1>9 DEF RelockRead, Reading
  <2>2. \A i \in DOMAIN queue : queue[i].id \in Nat
    BY DEF TypeOK, Numbered
  <2>3. seen[t] \in Nat
    BY <1>0
  <2>. QED
    BY <1>0, <2>1, <2>2, <2>3 DEF Knows, Reading
<1>10. CASE Call(t)
  BY <1>0, <1>3, <1>10 DEF Call, Entry, Reading
<1>11. CASE Lookup(t)
  BY <1>0, <1>3, <1>11 DEF Lookup, Reading
<1>12. CASE RelockDrain(t)
  BY <1>0, <1>3, <1>12 DEF RelockDrain, Reading
<1>13. CASE ExitBegin(t)
  BY <1>0, <1>3, <1>13 DEF ExitBegin, Reading
<1>14. CASE ExitLoop(t)
  BY <1>0, <1>3, <1>14, ThreadAssumption DEF ExitLoop, Woken, Reading
<1>15. CASE Take(t)
  BY <1>0, <1>3, <1>15 DEF Take, Woken, Reading
<1>16. CASE ScanDestroyed(t)
  BY <1>0, <1>3, <1>16 DEF ScanDestroyed, Reading
<1>17. CASE Peek(t)
  BY <1>0, <1>3, <1>17 DEF Peek, Reading
<1>18. CASE WaitDrain(t)
  BY <1>0, <1>3, <1>18 DEF WaitDrain, Sleep, Reading
<1>19. CASE Put(t)
  BY <1>0, <1>3, <1>19 DEF Put, Woken, Reading
<1>20. CASE Destroy(t)
  BY <1>0, <1>3, <1>20 DEF Destroy, Woken, Reading
<1>21. CASE DestroyRefused(t)
  BY <1>0, <1>3, <1>21 DEF DestroyRefused, Reading
<1>22. CASE Release(t)
  BY <1>0, <1>3, <1>22 DEF Release, Reading
<1>23. CASE Delete(t)
  BY <1>0, <1>3, <1>23 DEF Delete, Reading
<1>24. CASE Return(t)
  BY <1>0, <1>3, <1>24 DEF Return, Resume, Reading
<1>. QED
  BY <1>3, <1>4, <1>5, <1>6, <1>7, <1>8, <1>9, <1>10, <1>11, <1>12, <1>13, <1>14, <1>15, <1>16, <1>17, <1>18, <1>19, <1>20, <1>21, <1>22, <1>23, <1>24
  DEF Step, Runs, Acquire, Inside, QueueMessage

-----------------------------------------------------------------------------
(* What holds in every scenario.                                            *)

\* One inductive step of the invariant of all scenarios.
LEMMA BaseKept == Base /\ [Next]_vars => Base'
<1>. SUFFICES ASSUME Base, [Next]_vars PROVE Base'
  OBVIOUS
<1>1. CASE UNCHANGED vars
  BY <1>1, TypeKept DEF Base, vars, qvars, tvars, Roles, Role, CountersExact, At,
     Numbered, Rejected, SeenRejected
<1>2. ASSUME NEW t \in Threads, Step(t), UNCHANGED use PROVE Base'
  BY <1>2, TypeKept, RolesKept, CountersKept, NumberedKept, RejectedKept DEF Base
<1>. QED
  BY <1>1, <1>2 DEF Next, Step

\* In every scenario, with aliases and with senders that signal handlers resume,
\* types, roles, counters, numbers and what readers have rejected are right.
THEOREM BaseInvariant == Spec => []Base
BY InitBase, BaseKept, PTL DEF Spec

\* The state of the queue and of its threads has its types: in particular the
\* counters never go below zero, and the rest of get_message() and
\* queue_message() never runs with a place, a result or a message that the code
\* does not have.
THEOREM TypeCorrect == Spec => []TypeOK
BY BaseInvariant, PTL DEF Base

\* waiting, waiting_var and wait_for_drain are exact whatever ends a wait.
THEOREM ExactCounters == Spec => []CountersExact
BY BaseInvariant, PTL DEF Base

\* get_message() never skips a message that it could take.
THEOREM NothingSkipped == Spec => []SeenRejected
<1>1. Base => SeenRejected
  BY DEF Base, Rejected
<1>. QED
  BY BaseInvariant, <1>1, PTL

-----------------------------------------------------------------------------
(* The mutex of the queue.                                                  *)

\* The handlers of signals to senders raise an exception: one that returns
\* makes wait_queue_message() go on without the mutex.
SendersRaise == Resuming \cap Writers = {}

\* Whoever is about to append or to destroy holds a queue that is not destroyed.
Undestroyed == At({"queue", "destroy", "peek"}) # {} => ~destroyed

\* Who locks and unlocks, and who destroys.
LEMMA MutexMoves ==
  ASSUME NEW t \in Threads, Step(t)
  PROVE  /\ \/ mutex' = mutex
            \/ mutex = NoThread /\ mutex' = t
            \/ mutex = t /\ mutex' = NoThread
         /\ destroyed' = destroyed \/ mutex = NoThread \/ pc[t] = "destroy"
         /\ destroyed => (destroyed')
<1>1. CASE Call(t)
  BY <1>1 DEF Call, qvars
<1>2. CASE Signal(t)
  BY <1>2 DEF Signal, qvars
<1>3. CASE Expire(t)
  BY <1>3 DEF Expire, qvars
<1>4. CASE Poll(t)
  BY <1>4 DEF Poll, qvars
<1>5. CASE Lookup(t)
  BY <1>5 DEF Lookup, qvars
<1>6. CASE Lock(t)
  BY <1>6 DEF Lock, qvars
<1>7. CASE RelockRead(t)
  BY <1>7 DEF RelockRead, qvars
<1>8. CASE RelockDrain(t)
  BY <1>8 DEF RelockDrain, qvars
<1>9. CASE ExitBegin(t)
  BY <1>9 DEF ExitBegin, qvars
<1>10. CASE ExitLoop(t)
  BY <1>10 DEF ExitLoop, qvars
<1>11. CASE Take(t)
  BY <1>11 DEF Take, qvars
<1>12. CASE WaitRead(t)
  BY <1>12 DEF WaitRead, Sleep, qvars
<1>13. CASE ScanDestroyed(t)
  BY <1>13 DEF ScanDestroyed, qvars
<1>14. CASE Peek(t)
  BY <1>14 DEF Peek, qvars
<1>15. CASE WaitDrain(t)
  BY <1>15 DEF WaitDrain, Sleep, qvars
<1>16. CASE Put(t)
  BY <1>16 DEF Put, qvars
<1>17. CASE Destroy(t)
  BY <1>17 DEF Destroy, qvars
<1>18. CASE DestroyRefused(t)
  BY <1>18 DEF DestroyRefused, qvars
<1>19. CASE Release(t)
  BY <1>19 DEF Release, qvars
<1>20. CASE Delete(t)
  BY <1>20 DEF Delete, qvars
<1>21. CASE Return(t)
  BY <1>21 DEF Return, qvars
<1>. QED
  BY <1>1, <1>2, <1>3, <1>4, <1>5, <1>6, <1>7, <1>8, <1>9, <1>10, <1>11, <1>12, <1>13, <1>14, <1>15, <1>16, <1>17, <1>18, <1>19, <1>20, <1>21
  DEF Step, Runs, Acquire, Inside, QueueMessage

\* A thread that comes inside has the mutex, and finds out about destruction.
LEMMA ComesInside ==
  ASSUME SendersRaise, Base, MutexHeld, Undestroyed, NEW t \in Threads, Step(t)
  PROVE  /\ pc'[t] \in Locked => mutex' = t
         /\ pc'[t] \in {"queue", "destroy", "peek"} => ~destroyed'
<1>. USE DEF Base
<1>0. /\ pc \in [Threads -> Places] /\ Role(t)
      /\ pc[t] \in Locked => mutex = t
      /\ pc[t] \in {"queue", "destroy", "peek"} => ~destroyed
  BY DEF TypeOK, Roles, MutexHeld, Undestroyed, At
<1>1. CASE Call(t)
  BY <1>0, <1>1 DEF Call, Entry, Locked, qvars
<1>2. CASE Signal(t)
  BY <1>0, <1>2 DEF Signal, Locked, qvars
<1>3. CASE Expire(t)
  BY <1>0, <1>3, ThreadAssumption DEF Expire, Woken, Locked, qvars
<1>4. CASE Poll(t)
  BY <1>0, <1>4, ThreadAssumption DEF Poll, Woken, Locked, qvars
<1>5. CASE Lookup(t)
  BY <1>0, <1>5 DEF Lookup, Locked, qvars
<1>6. CASE Lock(t)
  BY <1>0, <1>6, RoleAssumption DEF Lock, Body, Threads, Locked, qvars
<1>7. CASE RelockRead(t)
  BY <1>0, <1>7 DEF RelockRead, Locked, qvars
<1>8. CASE RelockDrain(t)
  BY <1>0, <1>8 DEF RelockDrain, DrainOutcome, WaitOutcome, Locked, qvars
<1>9. CASE ExitBegin(t)
  BY <1>0, <1>9 DEF ExitBegin, Locked, qvars
<1>10. CASE ExitLoop(t)
  BY <1>0, <1>10, ThreadAssumption DEF ExitLoop, Woken, Locked, qvars
<1>11. CASE Take(t)
  BY <1>0, <1>11 DEF Take, Woken, Locked, qvars
<1>12. CASE WaitRead(t)
  BY <1>0, <1>12 DEF WaitRead, Sleep, Locked, qvars
<1>13. CASE ScanDestroyed(t)
  BY <1>0, <1>13 DEF ScanDestroyed, Locked, qvars
<1>14. CASE Peek(t)
  BY <1>0, <1>14 DEF Peek, Locked, qvars
<1>15. CASE WaitDrain(t)
  BY <1>0, <1>15 DEF WaitDrain, Sleep, Locked, qvars
<1>16. CASE Put(t)
  BY <1>0, <1>16 DEF Put, Woken, Locked, qvars
<1>17. CASE Destroy(t)
  BY <1>0, <1>17 DEF Destroy, Woken, Locked, qvars
<1>18. CASE DestroyRefused(t)
  BY <1>0, <1>18 DEF DestroyRefused, Locked, qvars
<1>19. CASE Release(t)
  BY <1>0, <1>19 DEF Release, Locked, qvars
<1>20. CASE Delete(t)
  BY <1>0, <1>20 DEF Delete, Locked, qvars
<1>21. CASE Return(t)
  BY <1>0, <1>21 DEF Return, Resume, Role, SendersRaise, Threads, Locked, qvars
<1>. QED
  BY <1>1, <1>2, <1>3, <1>4, <1>5, <1>6, <1>7, <1>8, <1>9, <1>10, <1>11, <1>12, <1>13, <1>14, <1>15, <1>16, <1>17, <1>18, <1>19, <1>20, <1>21
  DEF Step, Runs, Acquire, Inside, QueueMessage

\* The threads that rest are inside when they were.
LEMMA Elsewhere ==
  ASSUME Base, NEW t \in Threads, Frame(t),
         NEW X \in {Waits, Locked, {"queue", "destroy", "peek"}, {"delete"}, {"lock"}, {"exit_loop"}, {"exit"}}
  PROVE  At(X)' \ {t} = At(X) \ {t}
BY DEF Base, TypeOK, At, Frame, Rests, Waits, Reading, Draining, Locked

\* A step of one thread keeps the mutex with the thread that is inside, and
\* lets no thread be inside a destroyed queue where it must not be.
LEMMA MutexKept ==
  ASSUME SendersRaise, Base, MutexHeld, Undestroyed, NEW t \in Threads, Step(t)
  PROVE  MutexHeld' /\ Undestroyed'
<1>1. /\ At(Locked)' \ {t} = At(Locked) \ {t}
      /\ At({"queue", "destroy", "peek"})' \ {t} = At({"queue", "destroy", "peek"}) \ {t}
  BY StepFrame, Elsewhere
<1>2. /\ t \in At(Locked)' => mutex' = t
      /\ t \in At({"queue", "destroy", "peek"})' => ~destroyed'
  BY ComesInside DEF At
<1>3. \A u \in At(Locked) \ {t} : mutex' = u
  BY MutexMoves, ThreadAssumption DEF MutexHeld, At
<1>4. ASSUME NEW u \in At({"queue", "destroy", "peek"}) \ {t} PROVE ~destroyed'
  <2>1. mutex = u /\ u # t /\ u # NoThread /\ ~destroyed
    BY ThreadAssumption DEF MutexHeld, Undestroyed, At, Locked
  <2>2. pc[t] # "destroy"
    BY <2>1 DEF MutexHeld, At, Locked
  <2>. QED
    BY <2>1, <2>2, MutexMoves
<1>. QED
  BY <1>1, <1>2, <1>3, <1>4 DEF MutexHeld, Undestroyed

\* The same of every step of the system.
LEMMA MutexInductive ==
  ASSUME SendersRaise
  PROVE  Base /\ MutexHeld /\ Undestroyed /\ [Next]_vars => MutexHeld' /\ Undestroyed'
<1>. SUFFICES ASSUME Base, MutexHeld, Undestroyed, [Next]_vars
              PROVE  MutexHeld' /\ Undestroyed'
  OBVIOUS
<1>1. CASE UNCHANGED vars
  BY <1>1 DEF vars, qvars, MutexHeld, Undestroyed, At
<1>2. CASE Next
  BY <1>2, MutexKept DEF Next, Step
<1>. QED
  BY <1>1, <1>2

\* get_message(), queue_message() and what follows them up to
\* release_message_queue() run with the mutex of the queue held, and nobody
\* appends to a queue that is destroyed, as long as senders do not go on after a
\* signal.
THEOREM MutexInvariant == SendersRaise => (Spec => [](MutexHeld /\ Undestroyed))
<1>. SUFFICES ASSUME SendersRaise PROVE Spec => [](MutexHeld /\ Undestroyed)
  OBVIOUS
<1>1. Init => MutexHeld /\ Undestroyed
  BY DEF Init, MutexHeld, Undestroyed, At, Locked
<1>. QED
  BY BaseInvariant, MutexInductive, <1>1, PTL DEF Spec

\* Wherever the comments of the code say so the mutex is held.
COROLLARY MutexIsHeld == SendersRaise => (Spec => []MutexHeld)
<1>. SUFFICES ASSUME SendersRaise PROVE Spec => []MutexHeld
  OBVIOUS
<1>1. Spec => [](MutexHeld /\ Undestroyed)
  BY MutexInvariant
<1>. QED
  BY <1>1, PTL

-----------------------------------------------------------------------------
(* Destroying and deleting.                                                 *)

\* No queue has an alias: get_message_queue__LD() finds a named queue in
\* queueTable, and message_queue_destroy/1 deletes it although others have
\* found it.
NoAlias == \A s \in Scenarios : s.kind # "named"

\* Somebody is to delete the queue, or has done so.
Gone == memory # "live" \/ At({"delete"}) # {}

\* What deleting relies on.  A queue that is gone is destroyed and empty of
\* threads, so that nobody comes in again; only the thread that left it last
\* deletes it.  The queue of a thread is found, and freed, under L_THREAD.
Deletion ==
  /\ Gone => destroyed /\ At(Waits) = {} /\ At(Locked) = {}
  /\ \A t \in At({"delete"}) :
        memory = "live" /\ At({"delete"}) = {t} /\ use.kind = "anonymous"
  /\ use.kind # "anonymous" => \A t \in At({"lock"}) \cup At({"exit_loop"}) : L_THREAD = t
  /\ At({"exit"}) \cup At({"exit_loop"}) # {} => use.kind = "thread"
  /\ memory = "freed" => use.kind # "anonymous" /\ ~listed /\ At({"lock"}) = {}

\* Nobody waits when the counters say so.
LEMMA NobodyWaits ==
  ASSUME Base
  PROVE  ~SomebodyWaits <=> At(Waits) = {}
<1>1. At(Waits) = At(Reading) \cup At(Draining)
  BY DEF At, Waits
<1>2. IsFiniteSet(At(Reading)) /\ IsFiniteSet(At(Draining))
  BY ThreadAssumption, FS_Subset DEF At
<1>3. waiting = 0 <=> At(Reading) = {}
  BY <1>2, FS_EmptySet DEF Base, CountersExact
<1>4. wait_for_drain = 0 <=> At(Draining) = {}
  BY <1>2, FS_EmptySet DEF Base, CountersExact
<1>5. waiting \in Nat /\ wait_for_drain \in Nat
  BY DEF Base, TypeOK
<1>. QED
  BY <1>1, <1>3, <1>4, <1>5 DEF SomebodyWaits

\* A step inside the queue, or one that does not come near it.
LEMMA DeletionStays ==
  ASSUME Base, Deletion, NEW t \in Threads, Frame(t),
         UNCHANGED <<use, memory, L_THREAD>>,
         destroyed => destroyed', listed' => listed,
         pc'[t] \in Waits \cup Locked => pc[t] \in Waits \cup Locked,
         pc'[t] \notin {"delete", "lock", "exit_loop"},
         pc'[t] = "exit" => use.kind = "thread"
  PROVE  Deletion'
<1>1. /\ At(Waits)' \ {t} = At(Waits) \ {t} /\ At(Locked)' \ {t} = At(Locked) \ {t}
      /\ At({"delete"})' \ {t} = At({"delete"}) \ {t}
      /\ At({"lock"})' \ {t} = At({"lock"}) \ {t}
      /\ At({"exit_loop"})' \ {t} = At({"exit_loop"}) \ {t}
      /\ At({"exit"})' \ {t} = At({"exit"}) \ {t}
  BY Elsewhere
<1>2. /\ t \notin At({"delete"})' /\ t \notin At({"lock"})' /\ t \notin At({"exit_loop"})'
      /\ t \in At({"exit"})' => use.kind = "thread"
      /\ t \in At(Waits)' \/ t \in At(Locked)' => t \in At(Waits) \/ t \in At(Locked)
  BY DEF At
<1>3. Gone' => Gone
  BY <1>1, <1>2 DEF Gone
<1>4. Gone' => destroyed' /\ At(Waits)' = {} /\ At(Locked)' = {}
  BY <1>1, <1>2, <1>3 DEF Deletion
<1>. QED
  BY <1>1, <1>2, <1>4 DEF Deletion

\* A step of one thread keeps the order of deletion: the memory goes when nobody
\* is inside or waits, and one thread at most is about to delete it.
LEMMA DeletionKept ==
  ASSUME SendersRaise, NoAlias, Base, MutexHeld, Deletion,
         NEW t \in Threads, Step(t), UNCHANGED use
  PROVE  Deletion'
<1>0. /\ Frame(t) /\ pc \in [Threads -> Places] /\ Role(t)
  BY StepFrame DEF Base, TypeOK, Roles
<1>a. /\ At(Waits)' \ {t} = At(Waits) \ {t} /\ At(Locked)' \ {t} = At(Locked) \ {t}
      /\ At({"delete"})' \ {t} = At({"delete"}) \ {t}
      /\ At({"lock"})' \ {t} = At({"lock"}) \ {t}
      /\ At({"exit_loop"})' \ {t} = At({"exit_loop"}) \ {t}
      /\ At({"exit"})' \ {t} = At({"exit"}) \ {t}
  BY <1>0, Elsewhere
<1>1. CASE Signal(t)
  BY <1>1 DEF Signal, qvars, Deletion, Gone, At
<1>2. CASE Lookup(t)
  <2>1. UNCHANGED <<destroyed, listed, memory>>
    BY <1>2 DEF Lookup, qvars
  <2>2. CASE pc'[t] = "return" /\ UNCHANGED L_THREAD
    BY <1>0, <2>1, <2>2, DeletionStays DEF Waits, Reading, Draining, Locked
  <2>3. CASE /\ pc'[t] = "lock"
             /\ \/ use.kind = "anonymous" /\ UNCHANGED L_THREAD
                \/ listed /\ L_THREAD = NoThread /\ L_THREAD' = t /\ use.kind # "anonymous"
    <3>1. /\ t \notin At(Waits)' /\ t \notin At(Locked)' /\ t \notin At({"delete"})'
          /\ t \notin At({"exit"})' /\ t \notin At({"exit_loop"})'
      BY <2>3 DEF At, Waits, Reading, Draining, Locked
    <3>2. Gone' => Gone
      BY <1>a, <2>1, <3>1 DEF Gone
    <3>3. Gone' => destroyed' /\ At(Waits)' = {} /\ At(Locked)' = {}
      BY <1>a, <2>1, <3>1, <3>2 DEF Deletion
    <3>4. use'.kind # "anonymous" =>
            \A u \in At({"lock"})' \cup At({"exit_loop"})' : L_THREAD' = u
      <4>1. SUFFICES ASSUME use.kind # "anonymous"
                     PROVE  \A u \in At({"lock"})' \cup At({"exit_loop"})' : L_THREAD' = u
        OBVIOUS
      <4>2. L_THREAD = NoThread /\ L_THREAD' = t
        BY <2>3, <4>1
      <4>3. At({"lock"}) \cup At({"exit_loop"}) = {}
        BY <4>1, <4>2, ThreadAssumption DEF Deletion, At
      <4>. QED
        BY <1>a, <3>1, <4>2, <4>3
    <3>5. memory' # "freed"
      BY <2>1, <2>3 DEF Deletion
    <3>. QED
      BY <1>a, <2>1, <3>1, <3>3, <3>4, <3>5 DEF Deletion
  <2>. QED
    BY <1>0, <1>2, <2>2, <2>3 DEF Lookup
<1>3. CASE Lock(t)
  <2>1. /\ UNCHANGED <<destroyed, listed, memory>> /\ pc[t] = "lock"
        /\ L_THREAD' = IF L_THREAD = t THEN NoThread ELSE L_THREAD
        /\ pc'[t] \in Locked \cup {"return"}
        /\ destroyed => pc'[t] = "return"
    BY <1>0, <1>3, RoleAssumption DEF Lock, qvars, Body, Threads, Locked
  <2>2. /\ t \notin At({"lock"})' /\ t \notin At({"delete"})' /\ t \notin At({"exit_loop"})'
        /\ t \notin At({"exit"})' /\ t \notin At(Waits)'
        /\ destroyed => t \notin At(Locked)'
    BY <2>1 DEF At, Locked, Waits, Reading, Draining
  <2>3. Gone' => Gone
    BY <1>a, <2>1, <2>2 DEF Gone
  <2>4. Gone' => destroyed' /\ At(Waits)' = {} /\ At(Locked)' = {}
    BY <1>a, <2>1, <2>2, <2>3 DEF Deletion
  <2>5. use'.kind # "anonymous" =>
          \A u \in At({"lock"})' \cup At({"exit_loop"})' : L_THREAD' = u
    BY <1>a, <2>1, <2>2 DEF Deletion
  <2>. QED
    BY <1>a, <2>1, <2>2, <2>4, <2>5 DEF Deletion
<1>4. CASE ExitBegin(t)
  <2>1. /\ UNCHANGED <<destroyed, listed, memory>> /\ pc[t] = "exit" /\ pc'[t] = "exit_loop"
        /\ L_THREAD = NoThread /\ L_THREAD' = t
    BY <1>0, <1>4 DEF ExitBegin, qvars
  <2>2. /\ t \notin At({"lock"})' /\ t \notin At({"delete"})' /\ t \notin At({"exit"})'
        /\ t \notin At(Waits)' /\ t \notin At(Locked)' /\ use.kind = "thread"
    BY <2>1 DEF At, Locked, Waits, Reading, Draining, Deletion
  <2>3. Gone' => Gone
    BY <1>a, <2>1, <2>2 DEF Gone
  <2>4. Gone' => destroyed' /\ At(Waits)' = {} /\ At(Locked)' = {}
    BY <1>a, <2>1, <2>2, <2>3 DEF Deletion
  <2>5. At({"lock"}) \cup At({"exit_loop"}) = {}
    BY <2>1, <2>2, ThreadAssumption DEF Deletion, At
  <2>. QED
    BY <1>a, <2>1, <2>2, <2>4, <2>5 DEF Deletion
<1>5. CASE ExitLoop(t)
  <2>1. /\ pc[t] = "exit_loop" /\ t \in At({"exit_loop"}) /\ use.kind = "thread" /\ destroyed' = TRUE
    BY <1>5 DEF ExitLoop, Deletion, At
  <2>2. L_THREAD = t
    BY <2>1 DEF Deletion
  <2>3. CASE SomebodyWaits
    <3>1. /\ UNCHANGED <<listed, memory, L_THREAD>> /\ pc'[t] = "exit_loop"
      BY <1>0, <1>5, <2>1, <2>3, ThreadAssumption DEF ExitLoop, Woken
    <3>2. /\ t \notin At({"lock"})' /\ t \notin At({"delete"})' /\ t \notin At({"exit"})'
          /\ t \notin At(Waits)' /\ t \notin At(Locked)' /\ t \in At({"exit_loop"})'
      BY <3>1 DEF At, Locked, Waits, Reading, Draining
    <3>3. Gone' => Gone
      BY <1>a, <3>1, <3>2 DEF Gone
    <3>4. Gone' => destroyed' /\ At(Waits)' = {} /\ At(Locked)' = {}
      BY <1>a, <2>1, <3>2, <3>3 DEF Deletion
    <3>. QED
      BY <1>a, <2>1, <2>2, <3>1, <3>2, <3>4 DEF Deletion
  <2>4. CASE ~SomebodyWaits
    <3>1. pc'[t] = "idle" /\ mutex = NoThread /\ listed' = FALSE
      BY <1>0, <1>5, <2>4 DEF ExitLoop
    <3>2. /\ t \notin At({"lock"})' /\ t \notin At({"delete"})' /\ t \notin At({"exit"})'
          /\ t \notin At(Waits)' /\ t \notin At(Locked)' /\ t \notin At({"exit_loop"})'
      BY <3>1 DEF At, Locked, Waits, Reading, Draining
    <3>3. At(Waits)' = {}
      BY <1>a, <2>4, <3>2, NobodyWaits
    <3>4. At(Locked)' = {}
      BY <1>a, <3>1, <3>2, ThreadAssumption DEF MutexHeld, At
    <3>5. At({"delete"})' = {}
      BY <1>a, <2>1, <3>2 DEF Deletion
    <3>6. At({"lock"})' = {} /\ At({"exit_loop"})' = {}
      BY <1>a, <2>1, <2>2, <3>2 DEF Deletion
    <3>. QED
      BY <2>1, <3>1, <3>3, <3>4, <3>5, <3>6 DEF Deletion
  <2>. QED
    BY <2>3, <2>4
<1>6. CASE Release(t)
  <2>1. UNCHANGED <<destroyed, listed, memory, L_THREAD>> /\ pc[t] = "release"
    BY <1>6 DEF Release, qvars
  <2>2. CASE ~Deletes
    <3>1. pc'[t] = "return"
      BY <1>0, <1>6, <2>2 DEF Release
    <3>. QED
      BY <1>0, <2>1, <3>1, DeletionStays DEF Waits, Reading, Draining, Locked
  <2>3. CASE Deletes
    <3>1. pc'[t] = "delete"
      BY <1>0, <1>6, <2>3 DEF Release
    <3>2. /\ t \notin At({"lock"})' /\ t \notin At({"exit"})'
          /\ t \notin At(Waits)' /\ t \notin At(Locked)' /\ t \notin At({"exit_loop"})'
      BY <3>1 DEF At, Locked, Waits, Reading, Draining
    <3>3. t \in At(Locked) /\ mutex = t
      BY <2>1 DEF At, Locked, MutexHeld
    <3>4. memory = "live" /\ At({"delete"}) = {}
      BY <3>3 DEF Deletion, Gone
    <3>5. At({"delete"})' = {t}
      BY <1>a, <3>1, <3>4 DEF At
    <3>6. At(Locked)' = {}
      BY <1>a, <3>2, <3>3 DEF MutexHeld
    <3>7. At(Waits)' = {}
      BY <1>a, <2>3, <3>2, NobodyWaits DEF Deletes
    <3>8. use.kind = "anonymous"
      BY <2>3, ScenarioFields DEF Deletes, NoAlias, Base, Kinds
    <3>9. destroyed'
      BY <2>1, <2>3 DEF Deletes
    <3>. QED
      BY <1>a, <2>1, <3>2, <3>4, <3>5, <3>6, <3>7, <3>8, <3>9 DEF Deletion
  <2>. QED
    BY <2>2, <2>3
<1>7. CASE Delete(t)
  <2>1. /\ UNCHANGED <<destroyed, listed, L_THREAD>> /\ pc[t] = "delete" /\ pc'[t] = "return"
        /\ memory' = Remains
    BY <1>0, <1>7 DEF Delete
  <2>2. /\ t \notin At({"lock"})' /\ t \notin At({"exit"})' /\ t \notin At({"delete"})'
        /\ t \notin At(Waits)' /\ t \notin At(Locked)' /\ t \notin At({"exit_loop"})'
    BY <2>1 DEF At, Locked, Waits, Reading, Draining
  <2>3. t \in At({"delete"})
    BY <2>1 DEF At
  <2>4. At({"delete"}) = {t} /\ use.kind = "anonymous" /\ Gone
    BY <2>3 DEF Deletion, Gone
  <2>5. memory' = "cleared"
    BY <2>1, <2>4 DEF Remains
  <2>6. destroyed' /\ At(Waits)' = {} /\ At(Locked)' = {}
    BY <1>a, <2>1, <2>2, <2>4 DEF Deletion
  <2>. QED
    BY <1>a, <2>1, <2>2, <2>4, <2>5, <2>6 DEF Deletion
<1>8. CASE Call(t)
  <2>1. /\ UNCHANGED <<memory, L_THREAD>> /\ (destroyed => destroyed') /\ (listed' => listed)
    BY <1>8 DEF Call, qvars
  <2>2. /\ pc'[t] \in Waits \cup Locked => pc[t] \in Waits \cup Locked
        /\ pc'[t] \notin {"delete", "lock", "exit_loop"}
        /\ pc'[t] = "exit" => use.kind = "thread"
    BY <1>0, <1>8 DEF Call, Entry, Waits, Reading, Draining, Locked
  <2>. QED
    BY <1>0, <2>1, <2>2, DeletionStays
<1>9. CASE Expire(t)
  <2>1. /\ UNCHANGED <<memory, L_THREAD>> /\ (destroyed => destroyed') /\ (listed' => listed)
    BY <1>9 DEF Expire, qvars
  <2>2. /\ pc'[t] \in Waits \cup Locked => pc[t] \in Waits \cup Locked
        /\ pc'[t] \notin {"delete", "lock", "exit_loop"}
        /\ pc'[t] = "exit" => use.kind = "thread"
    BY <1>0, <1>9, ThreadAssumption DEF Expire, Woken, Waits, Reading, Draining, Locked
  <2>. QED
    BY <1>0, <2>1, <2>2, DeletionStays
<1>10. CASE Poll(t)
  <2>1. /\ UNCHANGED <<memory, L_THREAD>> /\ (destroyed => destroyed') /\ (listed' => listed)
    BY <1>10 DEF Poll, qvars
  <2>2. /\ pc'[t] \in Waits \cup Locked => pc[t] \in Waits \cup Locked
        /\ pc'[t] \notin {"delete", "lock", "exit_loop"}
        /\ pc'[t] = "exit" => use.kind = "thread"
    BY <1>0, <1>10, ThreadAssumption DEF Poll, Woken, Waits, Reading, Draining, Locked
  <2>. QED
    BY <1>0, <2>1, <2>2, DeletionStays
<1>11. CASE RelockRead(t)
  <2>1. /\ UNCHANGED <<memory, L_THREAD>> /\ (destroyed => destroyed') /\ (listed' => listed)
    BY <1>11 DEF RelockRead, qvars
  <2>2. /\ pc'[t] \in Waits \cup Locked => pc[t] \in Waits \cup Locked
        /\ pc'[t] \notin {"delete", "lock", "exit_loop"}
        /\ pc'[t] = "exit" => use.kind = "thread"
    BY <1>0, <1>11 DEF RelockRead, Waits, Reading, Draining, Locked
  <2>. QED
    BY <1>0, <2>1, <2>2, DeletionStays
<1>12. CASE RelockDrain(t)
  <2>1. /\ UNCHANGED <<memory, L_THREAD>> /\ (destroyed => destroyed') /\ (listed' => listed)
    BY <1>12 DEF RelockDrain, qvars
  <2>2. /\ pc'[t] \in Waits \cup Locked => pc[t] \in Waits \cup Locked
        /\ pc'[t] \notin {"delete", "lock", "exit_loop"}
        /\ pc'[t] = "exit" => use.kind = "thread"
    BY <1>0, <1>12 DEF RelockDrain, Waits, Reading, Draining, Locked
  <2>. QED
    BY <1>0, <2>1, <2>2, DeletionStays
<1>13. CASE Take(t)
  <2>1. /\ UNCHANGED <<memory, L_THREAD>> /\ (destroyed => destroyed') /\ (listed' => listed)
    BY <1>13 DEF Take, qvars
  <2>2. /\ pc'[t] \in Waits \cup Locked => pc[t] \in Waits \cup Locked
        /\ pc'[t] \notin {"delete", "lock", "exit_loop"}
        /\ pc'[t] = "exit" => use.kind = "thread"
    BY <1>0, <1>13 DEF Take, Woken, Waits, Reading, Draining, Locked
  <2>. QED
    BY <1>0, <2>1, <2>2, DeletionStays
<1>14. CASE WaitRead(t)
  <2>1. /\ UNCHANGED <<memory, L_THREAD>> /\ (destroyed => destroyed') /\ (listed' => listed)
    BY <1>14 DEF WaitRead, qvars
  <2>2. /\ pc'[t] \in Waits \cup Locked => pc[t] \in Waits \cup Locked
        /\ pc'[t] \notin {"delete", "lock", "exit_loop"}
        /\ pc'[t] = "exit" => use.kind = "thread"
    BY <1>0, <1>14 DEF WaitRead, Sleep, Waits, Reading, Draining, Locked
  <2>. QED
    BY <1>0, <2>1, <2>2, DeletionStays
<1>15. CASE ScanDestroyed(t)
  <2>1. /\ UNCHANGED <<memory, L_THREAD>> /\ (destroyed => destroyed') /\ (listed' => listed)
    BY <1>15 DEF ScanDestroyed, qvars
  <2>2. /\ pc'[t] \in Waits \cup Locked => pc[t] \in Waits \cup Locked
        /\ pc'[t] \notin {"delete", "lock", "exit_loop"}
        /\ pc'[t] = "exit" => use.kind = "thread"
    BY <1>0, <1>15 DEF ScanDestroyed, Waits, Reading, Draining, Locked
  <2>. QED
    BY <1>0, <2>1, <2>2, DeletionStays
<1>16. CASE Peek(t)
  <2>1. /\ UNCHANGED <<memory, L_THREAD>> /\ (destroyed => destroyed') /\ (listed' => listed)
    BY <1>16 DEF Peek, qvars
  <2>2. /\ pc'[t] \in Waits \cup Locked => pc[t] \in Waits \cup Locked
        /\ pc'[t] \notin {"delete", "lock", "exit_loop"}
        /\ pc'[t] = "exit" => use.kind = "thread"
    BY <1>0, <1>16 DEF Peek, Waits, Reading, Draining, Locked
  <2>. QED
    BY <1>0, <2>1, <2>2, DeletionStays
<1>17. CASE WaitDrain(t)
  <2>1. /\ UNCHANGED <<memory, L_THREAD>> /\ (destroyed => destroyed') /\ (listed' => listed)
    BY <1>17 DEF WaitDrain, qvars
  <2>2. /\ pc'[t] \in Waits \cup Locked => pc[t] \in Waits \cup Locked
        /\ pc'[t] \notin {"delete", "lock", "exit_loop"}
        /\ pc'[t] = "exit" => use.kind = "thread"
    BY <1>0, <1>17 DEF WaitDrain, Sleep, Waits, Reading, Draining, Locked
  <2>. QED
    BY <1>0, <2>1, <2>2, DeletionStays
<1>18. CASE Put(t)
  <2>1. /\ UNCHANGED <<memory, L_THREAD>> /\ (destroyed => destroyed') /\ (listed' => listed)
    BY <1>18 DEF Put, qvars
  <2>2. /\ pc'[t] \in Waits \cup Locked => pc[t] \in Waits \cup Locked
        /\ pc'[t] \notin {"delete", "lock", "exit_loop"}
        /\ pc'[t] = "exit" => use.kind = "thread"
    BY <1>0, <1>18 DEF Put, Woken, Waits, Reading, Draining, Locked
  <2>. QED
    BY <1>0, <2>1, <2>2, DeletionStays
<1>19. CASE Destroy(t)
  <2>1. /\ UNCHANGED <<memory, L_THREAD>> /\ (destroyed => destroyed') /\ (listed' => listed)
    BY <1>19 DEF Destroy, qvars
  <2>2. /\ pc'[t] \in Waits \cup Locked => pc[t] \in Waits \cup Locked
        /\ pc'[t] \notin {"delete", "lock", "exit_loop"}
        /\ pc'[t] = "exit" => use.kind = "thread"
    BY <1>0, <1>19 DEF Destroy, Woken, Waits, Reading, Draining, Locked
  <2>. QED
    BY <1>0, <2>1, <2>2, DeletionStays
<1>20. CASE DestroyRefused(t)
  <2>1. /\ UNCHANGED <<memory, L_THREAD>> /\ (destroyed => destroyed') /\ (listed' => listed)
    BY <1>20 DEF DestroyRefused, qvars
  <2>2. /\ pc'[t] \in Waits \cup Locked => pc[t] \in Waits \cup Locked
        /\ pc'[t] \notin {"delete", "lock", "exit_loop"}
        /\ pc'[t] = "exit" => use.kind = "thread"
    BY <1>0, <1>20 DEF DestroyRefused, Waits, Reading, Draining, Locked
  <2>. QED
    BY <1>0, <2>1, <2>2, DeletionStays
<1>21. CASE Return(t)
  <2>1. /\ UNCHANGED <<memory, L_THREAD>> /\ (destroyed => destroyed') /\ (listed' => listed)
    BY <1>21 DEF Return, qvars
  <2>2. /\ pc'[t] \in Waits \cup Locked => pc[t] \in Waits \cup Locked
        /\ pc'[t] \notin {"delete", "lock", "exit_loop"}
        /\ pc'[t] = "exit" => use.kind = "thread"
    BY <1>0, <1>21 DEF Return, Resume, Role, SendersRaise, Threads, Waits, Reading, Draining, Locked
  <2>. QED
    BY <1>0, <2>1, <2>2, DeletionStays
<1>. QED
  BY <1>1, <1>2, <1>3, <1>4, <1>5, <1>6, <1>7, <1>8, <1>9, <1>10, <1>11, <1>12, <1>13, <1>14, <1>15, <1>16, <1>17, <1>18, <1>19, <1>20, <1>21
  DEF Step, Runs, Acquire, Inside, QueueMessage

\* The same of every step of the system.
LEMMA DeletionInductive ==
  ASSUME SendersRaise, NoAlias
  PROVE  Base /\ MutexHeld /\ Deletion /\ [Next]_vars => Deletion'
<1>. SUFFICES ASSUME Base, MutexHeld, Deletion, [Next]_vars PROVE Deletion'
  OBVIOUS
<1>1. CASE UNCHANGED vars
  BY <1>1 DEF vars, qvars, Deletion, Gone, At
<1>2. CASE Next
  BY <1>2, DeletionKept DEF Next, Step
<1>. QED
  BY <1>1, <1>2

\* A queue without an alias is deleted by one thread at most, when nobody waits
\* for it, and nobody is inside it, on its way into it or asleep in it when its
\* memory is given back.
THEOREM DeletedSafely ==
  SendersRaise /\ NoAlias => (Spec => [](NoUseAfterFree /\ DeletedOnce))
<1>. SUFFICES ASSUME SendersRaise, NoAlias PROVE Spec => [](NoUseAfterFree /\ DeletedOnce)
  OBVIOUS
<1>1. Init => Deletion
  BY DEF Init, Deletion, Gone, At
<1>2. Base /\ Deletion => NoUseAfterFree /\ DeletedOnce
  <2>. SUFFICES ASSUME Base, Deletion PROVE NoUseAfterFree /\ DeletedOnce
    OBVIOUS
  <2>1. At(Waits \cup Locked) = At(Waits) \cup At(Locked)
    BY DEF At
  <2>2. NoUseAfterFree
    BY <2>1 DEF NoUseAfterFree, Deletion, Gone
  <2>3. At({"delete"}) # {} => waiting = 0 /\ wait_for_drain = 0
    BY NobodyWaits DEF Deletion, Gone, SomebodyWaits, Base, TypeOK
  <2>. QED
    BY <2>2, <2>3 DEF DeletedOnce, Deletion
<1>3. Spec => [](MutexHeld /\ Undestroyed)
  BY MutexInvariant
<1>. QED
  BY BaseInvariant, DeletionInductive, <1>1, <1>2, <1>3, PTL DEF Spec

\* Of those who leave a destroyed queue, one deletes it.
COROLLARY DeletedByOne == SendersRaise /\ NoAlias => (Spec => []DeletedOnce)
<1>. SUFFICES ASSUME SendersRaise, NoAlias PROVE Spec => []DeletedOnce
  OBVIOUS
<1>1. Spec => [](NoUseAfterFree /\ DeletedOnce)
  BY DeletedSafely
<1>. QED
  BY <1>1, PTL

-----------------------------------------------------------------------------
(* The queue implements the mailbox.                                        *)

\* Only a destroyed queue is deleted.
Destroying == At({"delete"}) # {} => destroyed

\* release_message_queue() deletes only what has been destroyed.
LEMMA DestroyingKept == Base /\ Destroying /\ [Next]_vars => Destroying'
<1>. SUFFICES ASSUME Base, Destroying, [Next]_vars PROVE Destroying'
  OBVIOUS
<1>1. CASE UNCHANGED vars
  BY <1>1 DEF vars, qvars, Destroying, At
<1>2. ASSUME NEW t \in Threads, Step(t), UNCHANGED use PROVE Destroying'
  <2>0. Frame(t) /\ pc \in [Threads -> Places]
    BY <1>2, StepFrame DEF Base, TypeOK
  <2>1. At({"delete"})' \ {t} = At({"delete"}) \ {t}
    BY <2>0, Elsewhere
  <2>2. destroyed => destroyed'
    BY <1>2, MutexMoves
  <2>3. pc'[t] = "delete" => pc[t] = "delete" \/ (destroyed')
    <3>1. CASE Call(t)
      BY <2>0, <3>1 DEF Call, Entry
    <3>2. CASE Signal(t)
      BY <2>0, <3>2 DEF Signal
    <3>3. CASE Expire(t)
      BY <2>0, <3>3, ThreadAssumption DEF Expire, Woken
    <3>4. CASE Poll(t)
      BY <2>0, <3>4, ThreadAssumption DEF Poll, Woken
    <3>5. CASE Lookup(t)
      BY <2>0, <3>5 DEF Lookup
    <3>6. CASE Lock(t)
      BY <2>0, <3>6, RoleAssumption DEF Lock, Body, Threads
    <3>7. CASE RelockRead(t)
      BY <2>0, <3>7 DEF RelockRead
    <3>8. CASE RelockDrain(t)
      BY <2>0, <3>8 DEF RelockDrain
    <3>9. CASE ExitBegin(t)
      BY <2>0, <3>9 DEF ExitBegin
    <3>10. CASE ExitLoop(t)
      BY <2>0, <3>10, ThreadAssumption DEF ExitLoop, Woken
    <3>11. CASE Take(t)
      BY <2>0, <3>11 DEF Take, Woken
    <3>12. CASE WaitRead(t)
      BY <2>0, <3>12 DEF WaitRead, Sleep
    <3>13. CASE ScanDestroyed(t)
      BY <2>0, <3>13 DEF ScanDestroyed
    <3>14. CASE Peek(t)
      BY <2>0, <3>14 DEF Peek
    <3>15. CASE WaitDrain(t)
      BY <2>0, <3>15 DEF WaitDrain, Sleep
    <3>16. CASE Put(t)
      BY <2>0, <3>16 DEF Put, Woken
    <3>17. CASE Destroy(t)
      BY <2>0, <3>17 DEF Destroy, Woken
    <3>18. CASE DestroyRefused(t)
      BY <2>0, <3>18 DEF DestroyRefused
    <3>19. CASE Release(t)
      BY <2>0, <3>19 DEF Release, Deletes, qvars
    <3>20. CASE Delete(t)
      BY <2>0, <3>20 DEF Delete
    <3>21. CASE Return(t)
      BY <2>0, <3>21 DEF Return, Resume
    <3>. QED
      BY <1>2, <3>1, <3>2, <3>3, <3>4, <3>5, <3>6, <3>7, <3>8, <3>9, <3>10, <3>11, <3>12, <3>13, <3>14, <3>15, <3>16, <3>17, <3>18, <3>19, <3>20, <3>21
      DEF Step, Runs, Acquire, Inside, QueueMessage
  <2>. QED
    BY <2>1, <2>2, <2>3 DEF Destroying, At
<1>. QED
  BY <1>1, <1>2 DEF Next, Step

\* A call that has succeeded is about to return.
Answered == \A t \in Threads : rc[t] = "true" => pc[t] \in {"release", "delete", "return"}

\* A call succeeds in one step, after which it only leaves the queue.
LEMMA AnsweredKept == Base /\ Answered /\ [Next]_vars => Answered'
<1>. SUFFICES ASSUME Base, Answered, [Next]_vars PROVE Answered'
  OBVIOUS
<1>1. CASE UNCHANGED vars
  BY <1>1 DEF vars, tvars, Answered
<1>2. ASSUME NEW t \in Threads, Step(t), UNCHANGED use PROVE Answered'
  <2>0. /\ Frame(t) /\ pc \in [Threads -> Places] /\ rc \in [Threads -> Results]
        /\ rc[t] = "true" => pc[t] \in {"release", "delete", "return"}
    BY <1>2, StepFrame DEF Base, TypeOK, Answered
  <2>1. \A u \in Threads \ {t} : rc'[u] = "true" => pc'[u] \in {"release", "delete", "return"}
    BY <2>0 DEF Frame, Rests, Answered
  <2>2. rc'[t] = "true" => pc'[t] \in {"release", "delete", "return"}
    <3>1. CASE Call(t)
      BY <2>0, <3>1 DEF Call, Entry
    <3>2. CASE Signal(t)
      BY <2>0, <3>2 DEF Signal
    <3>3. CASE Expire(t)
      BY <2>0, <3>3, ThreadAssumption DEF Expire, Woken
    <3>4. CASE Poll(t)
      BY <2>0, <3>4, ThreadAssumption DEF Poll, Woken, tvars
    <3>5. CASE Lookup(t)
      BY <2>0, <3>5 DEF Lookup
    <3>6. CASE Lock(t)
      BY <2>0, <3>6 DEF Lock, Body
    <3>7. CASE RelockRead(t)
      BY <2>0, <3>7 DEF RelockRead, WaitOutcome
    <3>8. CASE RelockDrain(t)
      BY <2>0, <3>8 DEF RelockDrain, DrainOutcome, WaitOutcome
    <3>9. CASE ExitBegin(t)
      BY <2>0, <3>9 DEF ExitBegin, tvars
    <3>10. CASE ExitLoop(t)
      BY <2>0, <3>10, ThreadAssumption DEF ExitLoop, Woken, tvars
    <3>11. CASE Take(t)
      BY <2>0, <3>11 DEF Take, Woken
    <3>12. CASE WaitRead(t)
      BY <2>0, <3>12 DEF WaitRead, Sleep
    <3>13. CASE ScanDestroyed(t)
      BY <2>0, <3>13 DEF ScanDestroyed
    <3>14. CASE Peek(t)
      BY <2>0, <3>14 DEF Peek
    <3>15. CASE WaitDrain(t)
      BY <2>0, <3>15 DEF WaitDrain, Sleep
    <3>16. CASE Put(t)
      BY <2>0, <3>16 DEF Put, Woken
    <3>17. CASE Destroy(t)
      BY <2>0, <3>17 DEF Destroy, Woken
    <3>18. CASE DestroyRefused(t)
      BY <2>0, <3>18 DEF DestroyRefused
    <3>19. CASE Release(t)
      BY <2>0, <3>19 DEF Release, tvars
    <3>20. CASE Delete(t)
      BY <2>0, <3>20 DEF Delete, tvars
    <3>21. CASE Return(t)
      BY <2>0, <3>21 DEF Return
    <3>. QED
      BY <1>2, <3>1, <3>2, <3>3, <3>4, <3>5, <3>6, <3>7, <3>8, <3>9, <3>10, <3>11, <3>12, <3>13, <3>14, <3>15, <3>16, <3>17, <3>18, <3>19, <3>20, <3>21
      DEF Step, Runs, Acquire, Inside, QueueMessage
  <2>. QED
    BY <2>1, <2>2 DEF Answered
<1>. QED
  BY <1>1, <1>2 DEF Next, Step

\* The mailbox that the queue stands for.
Contents == IF destroyed THEN <<>> ELSE [i \in DOMAIN queue |-> queue[i].term]

\* The mailbox holds the terms of the queue in their order.
LEMMA ContentsType ==
  ASSUME queue \in Seq([id : Nat, term : Terms]), ~destroyed
  PROVE  /\ Contents \in Seq(Terms) /\ Len(Contents) = Len(queue)
         /\ \A i \in 1..Len(queue) : Contents[i] = queue[i].term
<1>1. Contents = [i \in 1..Len(queue) |-> queue[i].term]
  BY DEF Contents
<1>2. \A i \in 1..Len(queue) : queue[i].term \in Terms
  <2>. DEFINE R == [id : Nat, term : Terms]
  <2>1. \A r \in R : r.term \in Terms
    OBVIOUS
  <2>2. queue \in Seq(R)
    OBVIOUS
  <2>. HIDE DEF R
  <2>. QED
    BY <2>1, <2>2
<1>3. Len(queue) \in Nat
  OBVIOUS
<1>. QED
  BY <1>1, <1>2, <1>3

\* The threads that use the mailbox, what they ask and who has been served.
Users == Readers \cup Writers
Asks == [t \in Users |-> arg[t]]
Done == {t \in Users : rc[t] = "true"}

\* When these stay, the mailbox sees nothing.
LEMMA MBStill ==
  ASSUME UNCHANGED <<Contents, Asks, Done>>, destroyed' <=> destroyed
  PROVE  UNCHANGED MB!vars
BY DEF MB!vars, Contents, Asks, Done, Users

\* What a step does to the mailbox's view of its users.
LEMMA UsersSeen ==
  ASSUME Base, NEW t \in Threads, Frame(t)
  PROVE  /\ arg'[t] = arg[t] => Asks' = Asks
         /\ (rc'[t] = "true" <=> rc[t] = "true") => Done' = Done
         /\ t \in Users /\ rc'[t] = "true" => Done' = Done \cup {t}
         /\ rc'[t] # "true" => Done' = Done \ {t}
         /\ t \in Users => Asks' = [Asks EXCEPT ![t] = arg'[t]]
         /\ t \notin Users => Asks' = Asks /\ Done' = Done
<1>1. \A u \in Users : u \in Threads
  BY DEF Users, Threads
<1>2. \A u \in Users \ {t} : arg'[u] = arg[u] /\ rc'[u] = rc[u]
  BY <1>1 DEF Frame
<1>3. /\ Asks' = [u \in Users |-> arg'[u]] /\ Asks = [u \in Users |-> arg[u]]
      /\ Done' = {u \in Users : rc'[u] = "true"} /\ Done = {u \in Users : rc[u] = "true"}
  BY DEF Asks, Done
<1>4. arg'[t] = arg[t] => Asks' = Asks
  BY <1>2, <1>3
<1>5. (rc'[t] = "true" <=> rc[t] = "true") => Done' = Done
  BY <1>2, <1>3
<1>6. t \in Users /\ rc'[t] = "true" => Done' = Done \cup {t}
  BY <1>2, <1>3
<1>7. rc'[t] # "true" => Done' = Done \ {t}
  BY <1>2, <1>3
<1>8. t \in Users => Asks' = [Asks EXCEPT ![t] = arg'[t]]
  BY <1>2, <1>3
<1>9. t \notin Users => Asks' = Asks /\ Done' = Done
  BY <1>2, <1>3
<1>. QED
  BY <1>4, <1>5, <1>6, <1>7, <1>8, <1>9

\* Appending to the queue is sending.
LEMMA PutSends ==
  ASSUME Base, Undestroyed, Answered, NEW t \in Threads, Put(t)
  PROVE  t \in Writers /\ MB!Send(t)
<1>1. ~destroyed /\ ~destroyed'
  BY DEF Put, Undestroyed, At
<1>2. arg[t] \in Terms
  BY DEF Put, Base, Roles, Role
<1>3. queue \in Seq([id : Nat, term : Terms]) /\ sequence_next \in Nat
  BY DEF Base, TypeOK
<1>4. queue' = Append(queue, [id |-> sequence_next + 1, term |-> arg[t]])
  BY DEF Put, NextId
<1>5. queue' \in Seq([id : Nat, term : Terms])
  <2>1. [id |-> sequence_next + 1, term |-> arg[t]] \in [id : Nat, term : Terms]
    BY <1>2, <1>3
  <2>. QED
    BY <1>3, <1>4, <2>1
<1>6. /\ Contents \in Seq(Terms) /\ Len(Contents) = Len(queue)
      /\ \A i \in 1..Len(queue) : Contents[i] = queue[i].term
  BY <1>1, <1>3, ContentsType
<1>7. Contents' = [i \in 1..Len(queue') |-> queue'[i].term]
  BY <1>1, <1>5 DEF Contents
<1>8. /\ Len(queue') = Len(queue) + 1
      /\ \A i \in 1..Len(queue) : queue'[i] = queue[i]
      /\ queue'[Len(queue) + 1].term = arg[t]
  BY <1>3, <1>4
<1>9. Contents' = Append(Contents, arg[t])
  BY <1>2, <1>3, <1>6, <1>7, <1>8
<1>10. MaxSize = 0 \/ Len(Contents) < MaxSize
  BY <1>3, <1>6, BoundAssumption DEF Put, Full
<1>11. t \in Writers /\ t \in Users
  BY DEF Put, Base, Roles, Role, Users
<1>12. Frame(t)
  BY StepFrame DEF Step, Runs, Inside, QueueMessage
<1>13. rc[t] # "true" /\ rc'[t] = "true" /\ UNCHANGED arg
  BY DEF Put, Base, TypeOK, Answered
<1>14. t \notin Done /\ Done' = Done \cup {t} /\ Asks' = Asks /\ Asks[t] = arg[t]
  BY <1>11, <1>12, <1>13, UsersSeen DEF Done, Asks
<1>. QED
  BY <1>1, <1>9, <1>10, <1>11, <1>14
  DEF MB!Send, MB!Succeed, Contents, Asks, Done, Users

\* Taking a message out is receiving the oldest that unifies.
LEMMA TakeReceives ==
  ASSUME Base, Answered, NEW t \in Threads, Take(t)
  PROVE  t \in Readers /\ MB!Receive(t)
<1>. DEFINE k == Oldest(t)
<1>1. ~destroyed /\ ~destroyed' /\ pc[t] = "scan" /\ queue' = RemoveAt(queue, k)
  BY DEF Take
<1>2. /\ k \in Candidates(t) /\ k \in 1..Len(queue)
      /\ \A i \in Candidates(t) : k <= i
  BY TakesOne DEF Take
<1>3. queue \in Seq([id : Nat, term : Terms]) /\ arg[t] \in Patterns /\ seen[t] \in Nat
  BY DEF Base, TypeOK
<1>4. /\ Contents \in Seq(Terms) /\ Len(Contents) = Len(queue)
      /\ \A i \in 1..Len(queue) : Contents[i] = queue[i].term
  BY <1>1, <1>3, ContentsType
<1>5. MB!Matches(Contents, arg[t]) = Candidates(t)
  <2>1. ASSUME NEW i \in 1..Len(queue), Unifies(arg[t], queue[i].term)
        PROVE  queue[i].id >= seen[t]
    <3>1. Knows(t) /\ i \in DOMAIN queue
      BY <1>3, RejectedIsKnown DEF Base
    <3>2. ~(queue[i].id < seen[t])
      BY <1>1, <2>1, <3>1 DEF Knows
    <3>3. queue[i].id \in Nat
      BY <3>1 DEF Base, Numbered, TypeOK
    <3>. QED
      BY <1>3, <3>2, <3>3
  <2>. QED
    BY <1>4, <2>1 DEF MB!Matches, MB!Unifies, Unifies, Candidates
<1>. HIDE DEF k
<1>6. /\ queue' \in Seq([id : Nat, term : Terms]) /\ Len(queue') = Len(queue) - 1
      /\ \A i \in 1..(Len(queue) - 1) :
           queue'[i] = IF i < k THEN queue[i] ELSE queue[i + 1]
  BY <1>1, <1>2, <1>3, RemoveOne
<1>7. Contents' = [i \in 1..Len(queue') |-> queue'[i].term]
  BY <1>1, <1>6 DEF Contents
<1>8. /\ RemoveAt(Contents, k) \in Seq(Terms)
      /\ Len(RemoveAt(Contents, k)) = Len(queue) - 1
      /\ \A i \in 1..(Len(queue) - 1) :
           RemoveAt(Contents, k)[i] = IF i < k THEN Contents[i] ELSE Contents[i + 1]
  BY <1>2, <1>4, RemoveOne
<1>9. ASSUME NEW i \in 1..(Len(queue) - 1)
      PROVE  queue'[i].term = RemoveAt(Contents, k)[i]
  <2>1. i \in 1..Len(queue) /\ i + 1 \in 1..Len(queue)
    BY <1>3
  <2>2. CASE i < k
    BY <1>4, <1>6, <1>8, <2>1, <2>2
  <2>3. CASE ~(i < k)
    BY <1>4, <1>6, <1>8, <2>1, <2>3
  <2>. QED
    BY <2>2, <2>3
<1>10. Contents' = RemoveAt(Contents, k)
  <2>1. RemoveAt(Contents, k) = [i \in 1..(Len(queue) - 1) |-> RemoveAt(Contents, k)[i]]
    BY <1>8
  <2>. QED
    BY <1>6, <1>7, <1>9, <2>1
<1>11. Contents' = SubSeq(Contents, 1, k - 1) \o SubSeq(Contents, k + 1, Len(Contents))
  BY <1>10 DEF RemoveAt
<1>12. t \in Readers /\ t \in Users
  BY DEF Take, Base, Roles, Role, Users
<1>13. Frame(t)
  BY StepFrame DEF Step, Runs, Inside
<1>14. rc[t] # "true" /\ rc'[t] = "true" /\ UNCHANGED arg
  BY DEF Take, Base, TypeOK, Answered
<1>15. t \notin Done /\ Done' = Done \cup {t} /\ Asks' = Asks /\ Asks[t] = arg[t]
  BY <1>12, <1>13, <1>14, UsersSeen DEF Done, Asks
<1>16. /\ k \in MB!Matches(Contents, Asks[t])
       /\ \A j \in MB!Matches(Contents, Asks[t]) : k <= j
  BY <1>2, <1>5, <1>15
<1>. QED
  BY <1>1, <1>11, <1>12, <1>15, <1>16
  DEF MB!Receive, MB!Succeed, Contents, Asks, Done, Users

\* Peeking is looking, or finding nothing.
LEMMA PeekLooks ==
  ASSUME Base, Undestroyed, Answered, NEW t \in Threads, Peek(t)
  PROVE  t \in Readers /\ (MB!Look(t) \/ UNCHANGED MB!vars)
<1>1. ~destroyed /\ ~destroyed' /\ Contents' = Contents /\ queue' = queue
  BY DEF Peek, Undestroyed, At, qvars, Contents
<1>2. t \in Readers /\ t \in Users
  BY DEF Peek, Base, Roles, Role, Users
<1>3. Frame(t)
  BY StepFrame DEF Step, Runs, Inside
<1>4. rc[t] # "true" /\ UNCHANGED arg
  BY DEF Peek, Answered
<1>5. Asks' = Asks /\ Asks[t] = arg[t] /\ t \notin Done
  BY <1>2, <1>3, <1>4, UsersSeen DEF Done, Asks
<1>6. CASE rc'[t] = "true"
  <2>1. PICK i \in DOMAIN queue : Unifies(arg[t], queue[i].term)
    BY <1>6 DEF Peek, Base, TypeOK
  <2>2. queue \in Seq([id : Nat, term : Terms])
    BY DEF Base, TypeOK
  <2>3. Len(Contents) = Len(queue) /\ Contents[i] = queue[i].term /\ i \in 1..Len(queue)
    BY <1>1, <2>1, <2>2, ContentsType
  <2>4. i \in MB!Matches(Contents, Asks[t])
    BY <1>5, <2>1, <2>3 DEF MB!Matches, MB!Unifies, Unifies
  <2>5. Done' = Done \cup {t}
    BY <1>2, <1>3, <1>6, UsersSeen
  <2>. QED
    BY <1>1, <1>2, <1>5, <2>4, <2>5
    DEF MB!Look, MB!Succeed, Contents, Asks, Done, Users
<1>7. CASE rc'[t] # "true"
  <2>1. Done' = Done
    BY <1>3, <1>4, <1>7, UsersSeen
  <2>. QED
    BY <1>1, <1>2, <1>5, <2>1, MBStill
<1>. QED
  BY <1>2, <1>6, <1>7

\* A call, or a return: the mailbox is asked, unless by one who destroys it.
LEMMA CallAsks ==
  ASSUME Base, NEW t \in Threads, Call(t) \/ Return(t), Answered, use \in Scenarios
  PROVE  (t \in Users /\ MB!Ask(t)) \/ UNCHANGED MB!vars
<1>1. Frame(t)
  BY StepFrame DEF Step, Runs, Inside
<1>2. Contents' = Contents /\ destroyed' = destroyed
  BY DEF Call, Return, qvars, Contents
<1>3. CASE t \notin Users
  BY <1>1, <1>2, <1>3, UsersSeen, MBStill
<1>4. CASE t \in Users
  <2>1. arg'[t] \in Patterns
    BY ScenarioFields DEF Call, Return, Args, Patterns, Base, TypeOK
  <2>2. rc'[t] # "true"
    BY DEF Call, Return, Base, TypeOK, Answered
  <2>3. Asks' = [Asks EXCEPT ![t] = arg'[t]] /\ Done' = Done \ {t}
    BY <1>1, <1>4, <2>2, UsersSeen
  <2>. QED
    BY <1>2, <1>4, <2>1, <2>3
    DEF MB!Ask, MB!Patterns, Patterns, Contents, Asks, Done, Users
<1>. QED
  BY <1>3, <1>4

\* What the other steps change is not what the mailbox knows of its users.
LEMMA OthersQuiet ==
  ASSUME Base, Answered, NEW t \in Threads, Step(t),
         ~Put(t), ~Take(t), ~Peek(t), ~Call(t), ~Return(t)
  PROVE  Asks' = Asks /\ Done' = Done
<1>1. Frame(t)
  BY StepFrame
<1>2. UNCHANGED arg
  BY DEF Step, Runs, Acquire, Inside, QueueMessage, Signal, Expire, Poll, Lookup, Lock,
         RelockRead, RelockDrain, ExitBegin, ExitLoop, WaitRead, ScanDestroyed, WaitDrain,
         Destroy, DestroyRefused, Release, Delete, tvars
<1>3. CASE Destroy(t) \/ DestroyRefused(t)
  <2>1. t \notin Users
    BY <1>3, RoleAssumption DEF Destroy, DestroyRefused, Base, Roles, Role, Users
  <2>. QED
    BY <1>1, <2>1, UsersSeen
<1>4. CASE ~(Destroy(t) \/ DestroyRefused(t))
  <2>1. rc'[t] = rc[t] \/ (pc[t] \notin {"release", "delete", "return"} /\ rc'[t] # "true")
    BY <1>4
    DEF Step, Runs, Acquire, Inside, QueueMessage, Signal, Expire, Poll, Lookup, Lock,
        RelockRead, RelockDrain, DrainOutcome, WaitOutcome, ExitBegin, ExitLoop, WaitRead,
        ScanDestroyed, WaitDrain, Release, Delete, tvars, Base, TypeOK
  <2>2. rc'[t] = "true" <=> rc[t] = "true"
    BY <2>1 DEF Answered
  <2>. QED
    BY <1>1, <1>2, <2>2, UsersSeen
<1>. QED
  BY <1>3, <1>4

\* Every other step destroys the queue, or the mailbox does not see it.
LEMMA OthersStutter ==
  ASSUME Base, Answered, Destroying, NEW t \in Threads, Step(t),
         ~Put(t), ~Take(t), ~Peek(t), ~Call(t), ~Return(t)
  PROVE  MB!Close \/ UNCHANGED MB!vars
<1>0. Asks' = Asks /\ Done' = Done
  BY OthersQuiet
<1>1. CASE destroyed'
  <2>1. Contents' = <<>>
    BY <1>1 DEF Contents
  <2>2. MB!Close
    BY <1>0, <1>1, <2>1 DEF MB!Close, Contents, Asks, Done, Users
  <2>. QED
    BY <2>2
<1>2. CASE ~destroyed'
  <2>1. ~destroyed
    BY <1>2, MutexMoves
  <2>2. ~Delete(t) /\ ~ExitLoop(t)
    BY <1>2, <2>1 DEF Delete, ExitLoop, Destroying, At
  <2>3. queue' = queue
    BY <2>2 DEF Step, Runs, Acquire, Inside, QueueMessage, Signal, Expire, Poll, Lookup, Lock,
           RelockRead, RelockDrain, ExitBegin, WaitRead, ScanDestroyed,
           WaitDrain, Destroy, DestroyRefused, Release, qvars
  <2>4. Contents' = Contents /\ (destroyed' <=> destroyed)
    BY <1>2, <2>1, <2>3 DEF Contents
  <2>. QED
    BY <1>0, <2>4, MBStill
<1>. QED
  BY <1>1, <1>2

\* Whatever the threads do, and however their waits end, what they see is a
\* mailbox: bounded, each reader given the oldest message for it, nothing lost,
\* invented or delivered twice, no effect of a call that is given up, and closed
\* for good once it is destroyed.
THEOREM Refinement == SendersRaise => (Spec => ImplementsMailbox)
<1>. SUFFICES ASSUME SendersRaise PROVE Spec => ImplementsMailbox
  OBVIOUS
<1>1. Init => MB!Init /\ Destroying /\ Answered
  <2>. SUFFICES ASSUME Init PROVE MB!Init /\ Destroying /\ Answered
    OBVIOUS
  <2>1. Contents = <<>> /\ ~destroyed
    BY DEF Init, Contents
  <2>2. Asks = [u \in Users |-> Unbound] /\ Done = {}
    BY DEF Init, Asks, Done, Users, Threads
  <2>3. MB!Init
    BY <2>1, <2>2 DEF MB!Init, MB!Users, Contents, Asks, Done, Users
  <2>. QED
    BY <2>3 DEF Init, Destroying, Answered, At
<1>2. Base /\ Undestroyed /\ Destroying /\ Answered /\ [Next]_vars => [MB!Next]_(MB!vars)
  <2>. SUFFICES ASSUME Base, Undestroyed, Destroying, Answered, [Next]_vars
                PROVE  MB!Next \/ UNCHANGED MB!vars
    OBVIOUS
  <2>1. CASE UNCHANGED vars
    BY <2>1, MBStill DEF vars, qvars, tvars, Contents, Asks, Done
  <2>2. ASSUME NEW t \in Threads, Step(t) PROVE MB!Next \/ UNCHANGED MB!vars
    <3>1. CASE Put(t)
      BY <3>1, PutSends DEF MB!Next
    <3>2. CASE Take(t)
      BY <3>2, TakeReceives DEF MB!Next
    <3>3. CASE Peek(t)
      BY <3>3, PeekLooks DEF MB!Next
    <3>4. CASE Call(t) \/ Return(t)
      BY <3>4, CallAsks DEF MB!Next, MB!Users, Users, Base
    <3>5. CASE ~Put(t) /\ ~Take(t) /\ ~Peek(t) /\ ~Call(t) /\ ~Return(t)
      BY <2>2, <3>5, OthersStutter DEF MB!Next
    <3>. QED
      BY <3>1, <3>2, <3>3, <3>4, <3>5
  <2>. QED
    BY <2>1, <2>2 DEF Next, Step
<1>3. Spec => [](MutexHeld /\ Undestroyed)
  BY MutexInvariant
<1>. QED
  BY BaseInvariant, DestroyingKept, AnsweredKept, <1>1, <1>2, <1>3, PTL
  DEF Spec, ImplementsMailbox, MB!Spec
=============================================================================
