--------------------------- MODULE ClauseGCProofs ---------------------------
(***************************************************************************)
(* Proofs about ClauseGC, for any number of threads and clauses: the chain  *)
(* stays whole, and a goal whose generation marking finds in time neither   *)
(* loses memory it holds on to nor a clause of its generation.              *)
(***************************************************************************)
EXTENDS ClauseGC, DataLemmas

\* Where a caller is while it has no clause yet, and from its first access on.
Outside == {"idle", "gen", "store", "activate", "verify", "publish"}
Inside == {"first", "walk", "choose", "answer", "last", "done"}
Steps == {"idle", "start", "reset", "mark", "clean", "grab", "inuse"}

\* TypeOK with the fields of the records.
Typed ==
  /\ TypeOK
  /\ cgc \in [pc : Steps, start : 0..MaxGen, active : 0..MaxGen,
              cur : Clauses \cup {Nil}, todo : SUBSET Callers, inuse : BOOLEAN]
  /\ cur \in [Callers -> Clauses \cup {Nil}] /\ chp \in [Callers -> Clauses \cup {Nil}]
  /\ exec \in [Callers -> Clauses \cup {Nil}]
  /\ entered \in [Callers -> SUBSET Clauses]
  /\ job \in [Writers -> [op : {"none", "assert", "erase", "register"},
                          c : Clauses \cup {Nil}, g : 0..MaxGen]]

\* A writer between linking or flagging a clause and stamping it has L_PREDICATE,
\* and the generation does not change until it has stamped.
Changing(t) == job[t].op \in {"assert", "erase"}
Writing == \A t \in Writers :
  /\ L_PREDICATE = t <=> Changing(t)
  /\ Changing(t) =>
       /\ job[t].c \in Linked
       /\ settled[job[t].c] <=> job[t].op = "erase"
       /\ CL_ERASED[job[t].c] <=> job[t].op = "erase"
       /\ erased[job[t].c] = GEN_MAX
       /\ IF job[t].g = 0 THEN generation < MaxGen ELSE job[t].g = generation

\* What the stamps say about a clause.  One that was taken out of the chain has
\* been erased in a generation that is over.
Gone(c) == where[c] \in {"lingering", "grabbed", "freed"}
Stamped == \A c \in Clauses :
  /\ where[c] = "unused" => ~settled[c] /\ next[c] = Nil
  /\ ~settled[c] => ~CL_ERASED[c]
  /\ ~CL_ERASED[c] => erased[c] = GEN_MAX
  /\ ~settled[c] /\ where[c] # "unused" =>
       L_PREDICATE # NoThread /\ job[L_PREDICATE].c = c
  /\ Gone(c) => CL_ERASED[c] /\ erased[c] < generation

\* The chain: no clause has two that precede it, and from one that is out of the
\* chain its old successors can still be reached.
Existing(c) == where[c] \in {"linked", "lingering", "grabbed"}
Chained ==
  /\ ChainSound
  /\ \A c, d \in Linked : next[c] = next[d] /\ next[c] # Nil => c = d
  /\ \A c \in Linked : next[c] # Nil => next[c] # first
  /\ \A c \in Clauses : Existing(c) => next[c] = Nil \/ Existing(next[c])

\* The collector is at a clause of the chain, and takes all lingering clauses
\* before it asks who is in the chain.
Collecting ==
  /\ cgc.cur \in Linked \cup {Nil}
  /\ cgc.start <= generation
  /\ cgc.pc = "clean" => cgc.active <= cgc.start
  /\ \A c \in Clauses : where[c] # IF cgc.pc = "inuse" THEN "lingering" ELSE "grabbed"

\* A caller that is choosing its generation has no clause yet.
Entering(t) == pc[t] \in Outside \cup {"first"} =>
  /\ cur[t] = Nil /\ chp[t] = Nil /\ exec[t] = Nil
  /\ pc[t] \in {"activate", "verify"} => published[t] = early[t]
  /\ pc[t] = "publish" => ~early[t]

\* A goal whose generation marking could find before it was chosen.
Known(t) == early[t] /\ pc[t] \in Inside

\* The collector knows of the generation of such a goal, or began before it.
Sheltered(t) == Known(t) =>
  /\ published[t] /\ gen[t] <= generation
  /\ cgc.pc = "clean" => cgc.active <= gen[t]
  /\ cgc.pc = "mark" /\ t \notin cgc.todo =>
       cgc.start <= gen[t] \/ oldest_generation <= gen[t]
  /\ \A c \in Clauses : Gone(c) => erased[c] < gen[t]

\* The clause in its choice point and the one it executes are kept by their
\* generation; the one at its cursor, which may be erased, by acquire_def().
Kept(t, c) == c # Nil => c \in Linked /\ erased[c] >= gen[t]
Holding(t) == Known(t) =>
  /\ Kept(t, chp[t]) /\ Kept(t, exec[t])
  /\ pc[t] \in {"walk", "choose"} => access[t]
  /\ pc[t] \notin {"walk", "choose"} => cur[t] = Nil
  /\ cur[t] # Nil => Existing(cur[t])
  /\ cur[t] # Nil /\ cgc.pc = "inuse" /\ t \notin cgc.todo /\ ~cgc.inuse => cur[t] \in Linked

\* The clauses it still has to answer are ahead of it.
Due(t) == (entered[t] \cap VisibleAt(gen[t])) \ answers[t]
Answering(t) == Known(t) =>
  /\ \A c \in entered[t] : settled[c]
  /\ pc[t] \in {"walk", "choose"} => Due(t) \subseteq Visits(cur[t])
  /\ pc[t] = "answer" => Due(t) \subseteq Visits(chp[t])
  /\ pc[t] \in {"last", "done"} => Due(t) = {}

IInv ==
  /\ Typed /\ Writing /\ Stamped /\ Chained /\ Collecting
  /\ \A t \in Callers : Entering(t) /\ Sheltered(t) /\ Holding(t) /\ Answering(t)

-----------------------------------------------------------------------------
(* Types.                                                                   *)

\* The type of each variable.
LEMMA Fields ==
  ASSUME Typed
  PROVE  /\ MaxGen \in Nat /\ generation \in Nat /\ generation >= 1 /\ generation <= MaxGen
         /\ first \in Clauses \cup {Nil} /\ last \in Clauses \cup {Nil}
         /\ next \in [Clauses -> Clauses \cup {Nil}]
         /\ where \in [Clauses -> {"unused", "linked", "lingering", "grabbed", "freed"}]
         /\ created \in [Clauses -> Nat] /\ erased \in [Clauses -> Nat]
         /\ \A c \in Clauses : erased[c] <= GEN_MAX
         /\ settled \in [Clauses -> BOOLEAN] /\ CL_ERASED \in [Clauses -> BOOLEAN]
         /\ oldest_generation \in Nat /\ erased_clauses \in Nat
         /\ cgc.pc \in Steps /\ cgc.start \in Nat /\ cgc.active \in Nat
         /\ cgc.cur \in Clauses \cup {Nil} /\ cgc.todo \in SUBSET Callers
         /\ cgc.inuse \in BOOLEAN
         /\ pc \in [Callers -> Outside \cup Inside]
         /\ cur \in [Callers -> Clauses \cup {Nil}] /\ chp \in [Callers -> Clauses \cup {Nil}]
         /\ exec \in [Callers -> Clauses \cup {Nil}]
         /\ gen \in [Callers -> Nat] /\ \A t \in Callers : gen[t] <= MaxGen
         /\ published \in [Callers -> BOOLEAN] /\ early \in [Callers -> BOOLEAN]
         /\ access \in [Callers -> BOOLEAN]
         /\ entered \in [Callers -> SUBSET Clauses] /\ answers \in [Callers -> SUBSET Clauses]
         /\ GEN_MAX = MaxGen + 1
<1>1. MaxGen \in Nat
  BY GenAssumption
<1>2. cgc.pc \in Steps /\ cgc.start \in Nat /\ cgc.active \in Nat
      /\ cgc.cur \in Clauses \cup {Nil} /\ cgc.todo \in SUBSET Callers
      /\ cgc.inuse \in BOOLEAN
  BY <1>1 DEF Typed
<1>3. pc \in [Callers -> Outside \cup Inside]
  BY DEF Typed, TypeOK, Outside, Inside
<1>4. erased_clauses \in Nat
  <2>1. Cardinality(Clauses) \in Nat
    BY GenAssumption, FS_CardinalityType
  <2>. QED
    BY <2>1 DEF Typed, TypeOK
<1>5. created \in [Clauses -> Nat] /\ erased \in [Clauses -> Nat]
      /\ \A c \in Clauses : erased[c] <= GEN_MAX
  BY <1>1 DEF Typed, TypeOK, GEN_MAX
<1>6. gen \in [Callers -> Nat] /\ \A t \in Callers : gen[t] <= MaxGen
  BY <1>1 DEF Typed, TypeOK
<1>. QED
  BY <1>1, <1>2, <1>3, <1>4, <1>5, <1>6 DEF Typed, TypeOK, GEN_MAX

\* set_min_generation() gives the smaller one.
LEMMA LeastOfTwo ==
  ASSUME NEW a \in Nat, NEW b \in Nat
  PROVE  /\ Least({a, b}) \in {a, b}
         /\ Least({a, b}) <= a /\ Least({a, b}) <= b
<1>1. CASE a <= b
  <2>1. \E x \in {a, b} : \A y \in {a, b} : x <= y
    BY <1>1
  <2>. QED
    BY <2>1 DEF Least
<1>2. CASE b <= a
  <2>1. \E x \in {a, b} : \A y \in {a, b} : x <= y
    BY <1>2
  <2>. QED
    BY <2>1 DEF Least
<1>. QED
  BY <1>1, <1>2

-----------------------------------------------------------------------------
(* What is visited from a clause.                                           *)

\* A closed set that holds a clause holds all that is visited from it.
LEMMA VisitsWithin ==
  ASSUME NEW c, NEW S \in SUBSET Clauses, c \in S \cup {Nil}, Closed(S)
  PROVE  Visits(c) \subseteq S
BY DEF Visits

\* Nothing is visited from the end.
LEMMA VisitsNil == Visits(Nil) = {}
<1>1. Closed({})
  BY DEF Closed
<1>. QED
  BY <1>1, VisitsWithin

\* From a clause that clause is visited, and what is visited from the next one.
LEMMA VisitsStep ==
  ASSUME NEW c \in Clauses
  PROVE  c \in Visits(c) /\ Visits(c) \subseteq {c} \cup Visits(next[c])
<1>1. c \in Visits(c)
  BY NilAssumption DEF Visits
<1>2. ASSUME NEW d \in Visits(c), d # c
      PROVE  d \in Visits(next[c])
  <2>1. SUFFICES ASSUME NEW S \in SUBSET Clauses, next[c] \in S \cup {Nil}, Closed(S)
                 PROVE  d \in S
    BY DEF Visits
  <2>2. Closed(S \cup {c})
    BY <2>1 DEF Closed
  <2>. QED
    BY <1>2, <2>2 DEF Visits
<1>. QED
  BY <1>1, <1>2

\* What is visited is closed.
LEMMA VisitsClosed ==
  ASSUME NEW c, next \in [Clauses -> Clauses \cup {Nil}]
  PROVE  Visits(c) \in SUBSET Clauses /\ Closed(Visits(c))
<1>. SUFFICES ASSUME NEW d \in Visits(c), next[d] # Nil
              PROVE  next[d] \in Visits(c)
  BY DEF Closed, Visits
<1>1. next[d] \in Clauses
  BY DEF Visits
<1>. QED
  BY <1>1 DEF Visits, Closed

\* The chain is closed and starts at its first clause.
LEMMA LinkedClosed ==
  ASSUME Typed, ChainSound
  PROVE  /\ Closed(Linked) /\ first \in Linked \cup {Nil}
         /\ \A c \in Linked : next[c] \in Linked \cup {Nil}
<1>1. Closed(Linked)
  BY VisitsClosed, Fields DEF ChainSound
<1>2. first # Nil => first \in Linked
  BY VisitsStep, Fields DEF ChainSound
<1>. QED
  BY <1>1, <1>2 DEF Closed

\* Nothing changes for whoever is in the chain as long as no link does.
LEMMA VisitsSame ==
  ASSUME next' = next, NEW c
  PROVE  Visits(c)' = Visits(c)
BY DEF Visits, Closed

-----------------------------------------------------------------------------
(* The chain.                                                               *)

\* How assertProcedure() links clause c, at whichever end.
Adds(c) ==
  /\ where[c] = "unused" /\ where' = [where EXCEPT ![c] = "linked"]
  /\ \/ first = Nil /\ first' = c /\ last' = c /\ next' = next
     \/ first # Nil /\ next' = [next EXCEPT ![c] = first] /\ first' = c /\ last' = last
     \/ first # Nil /\ next' = [next EXCEPT ![last] = c] /\ last' = c /\ first' = first

\* The clause is new, and the chain has one clause more.
LEMMA AssertEffect ==
  ASSUME Typed, NEW t \in Writers, AssertLink(t)
  PROVE  \E c \in Clauses :
           /\ Adds(c) /\ Linked' = Linked \cup {c} /\ c \notin Linked
           /\ job' = [job EXCEPT ![t] = [op |-> "assert", c |-> c, g |-> 0]]
<1>1. PICK c \in Clauses :
        /\ Adds(c)
        /\ job' = [job EXCEPT ![t] = [op |-> "assert", c |-> c, g |-> 0]]
  BY DEF AssertLink, Adds
<1>2. Linked' = Linked \cup {c} /\ c \notin Linked
  BY <1>1, Fields DEF Linked, Adds
<1>. QED
  BY <1>1, <1>2

\* Whatever could be visited still can when a clause is added.
LEMMA VisitsGrow ==
  ASSUME Typed, Chained, NEW c \in Clauses, Adds(c),
         NEW d \in Clauses \cup {Nil}, d # Nil => Existing(d)
  PROVE  Visits(d) \subseteq Visits(d)'
<1>. DEFINE E == {e \in Clauses : Existing(e)}
<1>2. SUFFICES ASSUME NEW S \in SUBSET Clauses, d \in S \cup {Nil}, Closed(S)'
               PROVE  Visits(d) \subseteq S
  BY DEF Visits
<1>3. \A e \in E : next'[e] = next[e] \/ next[e] = Nil
  <2>1. next[last] = Nil \/ last = Nil
    BY DEF Chained, ChainSound
  <2>2. \A e \in E : e # c
    BY DEF Existing, Adds
  <2>3. \A e \in Clauses : e # c => next'[e] = next[e] \/ e = last
    BY Fields DEF Adds
  <2>. QED
    BY <2>1, <2>2, <2>3, NilAssumption
<1>4. \A e \in E : next[e] \in E \cup {Nil}
  BY Fields DEF Chained
<1>5. Closed(S \cap E)
  BY <1>2, <1>3, <1>4 DEF Closed
<1>6. d \in (S \cap E) \cup {Nil}
  BY <1>2
<1>7. Visits(d) \subseteq S \cap E
  <2>. HIDE DEF E
  <2>. QED
    BY <1>5, <1>6, VisitsWithin
<1>. QED
  BY <1>7

\* assertProcedure() keeps the chain whole.
LEMMA ChainedAssert ==
  ASSUME Typed, Stamped, Chained, NEW t \in Writers, AssertLink(t)
  PROVE  Chained'
<1>1. PICK c \in Clauses : Adds(c) /\ Linked' = Linked \cup {c} /\ c \notin Linked
  BY AssertEffect
<1>2. erased_clauses' = erased_clauses /\ CL_ERASED' = CL_ERASED /\ settled' = settled
  BY DEF AssertLink, stamps
<1>3. ~CL_ERASED[c] /\ ~settled[c] /\ next[c] = Nil
  BY <1>1 DEF Stamped, Adds
<1>4. Closed(Linked) /\ first \in Linked \cup {Nil}
      /\ \A d \in Linked : next[d] \in Linked \cup {Nil}
  BY LinkedClosed DEF Chained
<1>5. c # Nil /\ \A d \in Linked : d # Nil /\ d \in Clauses
  BY NilAssumption DEF Linked
<1>6. IF first = Nil THEN last = Nil /\ Linked = {} ELSE last \in Linked /\ next[last] = Nil
  BY VisitsNil DEF Chained, ChainSound
<1>7. /\ first' \in Linked' /\ last' \in Linked' /\ next'[last'] = Nil
      /\ \A d \in Linked' : next'[d] \in Linked' \cup {Nil}
      /\ \A d, e \in Linked' : next'[d] = next'[e] /\ next'[d] # Nil => d = e
      /\ \A d \in Linked' : next'[d] # Nil => next'[d] # first'
  <2>1. CASE first = Nil
    BY <1>1, <1>3, <1>5, <1>6, <2>1 DEF Adds
  <2>2. CASE first # Nil /\ next' = [next EXCEPT ![c] = first] /\ first' = c /\ last' = last
    BY <1>1, <1>3, <1>4, <1>5, <1>6, <2>2, Fields DEF Chained
  <2>3. CASE first # Nil /\ next' = [next EXCEPT ![last] = c] /\ last' = c /\ first' = first
    BY <1>1, <1>3, <1>4, <1>5, <1>6, <2>3, Fields DEF Chained
  <2>. QED
    BY <1>1, <2>1, <2>2, <2>3 DEF Adds
<1>8. Linked' \in SUBSET Clauses
  BY DEF Linked
<1>9. Visits(first)' = Linked'
  <2>1. Visits(first)' \subseteq Linked'
    BY <1>7, <1>8 DEF Visits, Closed
  <2>2. ASSUME NEW S \in SUBSET Clauses, first' \in S, Closed(S)'
        PROVE  Linked' \subseteq S
    <3>1. CASE first = Nil
      BY <1>1, <1>6, <2>2, <3>1 DEF Adds
    <3>2. CASE first # Nil
      <4>1. (first \in S /\ c \in S) \/ (first' = first /\ next'[last] = c)
        BY <1>1, <1>4, <1>5, <1>6, <2>2, <3>2, Fields DEF Adds, Closed
      <4>2. first \in S \cap Linked
        BY <1>4, <2>2, <3>2, <4>1
      <4>3. \A d \in Linked : next'[d] = next[d] \/ next[d] = Nil
        BY <1>1, <1>6, <3>2, Fields DEF Adds, Linked
      <4>4. Closed(S \cap Linked)
        BY <1>4, <2>2, <4>3 DEF Closed
      <4>5. Linked \subseteq S \cap Linked
        BY <1>5, <4>2, <4>4, VisitsWithin DEF Chained, ChainSound
      <4>6. c \in S
        BY <1>5, <1>6, <2>2, <3>2, <4>1, <4>5 DEF Closed
      <4>. QED
        BY <1>1, <4>5, <4>6
    <3>. QED
      BY <3>1, <3>2
  <2>3. Linked' \subseteq Visits(first)'
    BY <1>5, <1>7, <1>8, <2>2, NilAssumption DEF Visits
  <2>. QED
    BY <2>1, <2>3
<1>10. \A d \in Clauses : settled'[d] /\ ~CL_ERASED'[d] => d \in Linked'
  BY <1>1, <1>2 DEF Chained, ChainSound
<1>11. {d \in Linked' : CL_ERASED'[d]} = {d \in Linked : CL_ERASED[d]}
  BY <1>1, <1>2, <1>3
<1>12. ASSUME NEW d \in Clauses, Existing(d)'
       PROVE  next'[d] = Nil \/ Existing(next[d])'
  <2>1. CASE d \in Linked'
    BY <1>7, <2>1 DEF Linked, Existing
  <2>2. CASE d \notin Linked'
    <3>1. Existing(d) /\ next'[d] = next[d]
      BY <1>1, <1>6, <1>12, <2>2, Fields DEF Adds, Existing, Linked
    <3>2. CASE next[d] # Nil
      <4>1. next[d] \in Clauses /\ Existing(next[d])
        BY <3>1, <3>2, Fields DEF Chained
      <4>. QED
        BY <1>1, <3>1, <4>1, Fields DEF Adds, Existing
    <3>. QED
      BY <3>1, <3>2
  <2>. QED
    BY <2>1, <2>2
<1>13. ChainSound'
  BY <1>2, <1>5, <1>7, <1>9, <1>10, <1>11, <1>8, NilAssumption DEF Chained, ChainSound
<1>. QED
  BY <1>7, <1>12, <1>13 DEF Chained

\* The clause that cleanDefinition() takes out, and the link that passes it.
Removes(x) ==
  /\ where' = [where EXCEPT ![x] = "lingering"] /\ Linked' = Linked \ {x}
  /\ erased_clauses' = erased_clauses - 1
  /\ \/ first = x /\ first' = next[x] /\ next' = next
        /\ last' = IF next[x] = Nil THEN Nil ELSE last
     \/ /\ first # x /\ first' = first
        /\ \E p \in Linked : /\ next[p] = x /\ next' = [next EXCEPT ![p] = next[x]]
                             /\ last' = IF next[x] = Nil THEN p ELSE last

\* One clause leaves the chain.
LEMMA UnlinkEffect ==
  ASSUME Typed, NEW x \in Linked, Unlink(x)
  PROVE  Removes(x)
<1>1. where' = [where EXCEPT ![x] = "lingering"] /\ erased_clauses' = erased_clauses - 1
  BY DEF Unlink
<1>2. Linked' = Linked \ {x}
  BY <1>1, Fields DEF Linked
<1>3. CASE first = x
  BY <1>1, <1>2, <1>3 DEF Unlink, Removes
<1>4. CASE first # x
  BY <1>1, <1>2, <1>4 DEF Unlink, Removes, Previous, Linked
<1>. QED
  BY <1>3, <1>4

\* Whatever could be visited still can, except for the clause itself.
LEMMA VisitsCut ==
  ASSUME Typed, NEW x \in Linked, Removes(x), NEW d \in Clauses \cup {Nil}
  PROVE  Visits(d) \ {x} \subseteq Visits(d)'
<1>. SUFFICES ASSUME NEW S \in SUBSET Clauses, d \in S \cup {Nil}, Closed(S)'
              PROVE  Visits(d) \subseteq S \cup {x}
  BY DEF Visits
<1>1. x \in Clauses
  BY DEF Linked
<1>2. CASE next' = next
  <2>1. Closed(S)
    BY <1>2 DEF Closed
  <2>. QED
    BY <2>1, VisitsWithin
<1>3. ASSUME NEW p \in Linked, next[p] = x, next' = [next EXCEPT ![p] = next[x]]
      PROVE  Visits(d) \subseteq S \cup {x}
  <2>1. /\ \A y \in Clauses : y # p => next'[y] = next[y]
        /\ p \in Clauses /\ next'[p] = next[x]
    BY <1>3, Fields DEF Linked
  <2>2. CASE p \in S
    <3>1. Closed(S \cup {x})
      BY <1>3, <2>1, <2>2 DEF Closed
    <3>. QED
      BY <1>1, <3>1, VisitsWithin
  <2>3. CASE p \notin S
    <3>1. Closed(S)
      BY <2>1, <2>3 DEF Closed
    <3>. QED
      BY <3>1, VisitsWithin
  <2>. QED
    BY <2>2, <2>3
<1>. QED
  BY <1>2, <1>3 DEF Removes

\* No clause is followed by itself.
LEMMA NoLoop ==
  ASSUME Typed, Chained, NEW x \in Linked
  PROVE  next[x] # x
<1>1. x \in Clauses /\ x # Nil
  BY NilAssumption DEF Linked
<1>2. Closed(Linked) /\ first \in Linked \cup {Nil}
      /\ \A d \in Linked : next[d] \in Linked \cup {Nil}
  BY LinkedClosed DEF Chained
<1>3. first # x => ~Closed(Linked \ {x})
  BY <1>1, <1>2, VisitsWithin DEF Chained, ChainSound, Linked
<1>4. CASE first = x
  BY <1>1, <1>4 DEF Chained
<1>5. CASE first # x
  <2>1. SUFFICES ASSUME next[x] = x PROVE FALSE
    OBVIOUS
  <2>2. \A d \in Linked \ {x} : next[d] # x
    BY <1>1, <2>1 DEF Chained
  <2>. QED
    BY <1>2, <1>3, <1>5, <2>2 DEF Closed
<1>. QED
  BY <1>4, <1>5

\* cleanDefinition() keeps the chain whole, although others may have added
\* clauses since it began to walk it.
LEMMA ChainedUnlink ==
  ASSUME Typed, Chained, NEW x \in Linked, CL_ERASED[x], Unlink(x),
         UNCHANGED stamps
  PROVE  Chained'
<1>1. Removes(x) /\ x \in Clauses /\ x # Nil
  BY UnlinkEffect, NilAssumption DEF Linked
<1>2. CL_ERASED' = CL_ERASED /\ settled' = settled
  BY DEF stamps
<1>3. Closed(Linked) /\ first \in Linked \cup {Nil} /\ first # Nil
      /\ \A d \in Linked : next[d] \in Linked \cup {Nil}
  BY LinkedClosed, VisitsNil DEF Chained, ChainSound
<1>4. last \in Linked /\ next[last] = Nil
  BY <1>3 DEF Chained, ChainSound
<1>6. next[x] # x
  BY NoLoop
<1>7. /\ first' \in Linked' \cup {Nil}
      /\ IF first' = Nil THEN last' = Nil ELSE last' \in Linked' /\ next'[last'] = Nil
      /\ \A d \in Linked' : next'[d] \in Linked' \cup {Nil}
      /\ \A d, e \in Linked' : next'[d] = next'[e] /\ next'[d] # Nil => d = e
      /\ \A d \in Linked' : next'[d] # Nil => next'[d] # first'
  <2>1. CASE first = x
    <3>1. first' = next[x] /\ next' = next /\ last' = IF next[x] = Nil THEN Nil ELSE last
      BY <1>1, <2>1 DEF Removes
    <3>2. Linked' = Linked \ {x}
      BY <1>1 DEF Removes
    <3>3. \A d \in Linked : next[d] # x
      BY <1>1, <2>1 DEF Chained
    <3>4. \A d, e \in Linked : next[d] = next[e] /\ next[d] # Nil => d = e
      BY DEF Chained
    <3>. QED
      BY <1>3, <1>4, <3>1, <3>2, <3>3, <3>4
  <2>2. CASE first # x
    <3>1. PICK p \in Linked : /\ next[p] = x /\ next' = [next EXCEPT ![p] = next[x]]
                              /\ last' = IF next[x] = Nil THEN p ELSE last
      BY <1>1, <2>2 DEF Removes
    <3>2. Linked' = Linked \ {x} /\ first' = first
      BY <1>1, <2>2 DEF Removes
    <3>3. /\ \A d \in Linked : d # p => next'[d] = next[d] /\ next[d] # x
          /\ next'[p] = next[x] /\ p # x
      BY <1>1, <1>6, <3>1, Fields DEF Chained, Linked
    <3>4. /\ \A d, e \in Linked : next[d] = next[e] /\ next[d] # Nil => d = e
          /\ \A d \in Linked : next[d] # Nil => next[d] # first
      BY DEF Chained
    <3>. QED
      BY <1>1, <1>3, <1>4, <1>6, <2>2, <3>1, <3>2, <3>3, <3>4
  <2>. QED
    BY <2>1, <2>2
<1>8. Linked' \in SUBSET Clauses /\ Linked' = Linked \ {x}
  BY <1>1 DEF Linked, Removes
<1>9. Visits(first)' = Linked'
  <2>1. Visits(first)' \subseteq Linked'
    BY <1>7, <1>8 DEF Visits, Closed
  <2>2. Linked = Visits(first)
    BY DEF Chained, ChainSound
  <2>3. CASE first # x
    <3>1. Visits(first) \ {x} \subseteq Visits(first)'
      <4>1. PICK f \in Clauses : f = first /\ f = first'
        BY <1>1, <1>3, <2>3, Fields DEF Removes
      <4>2. Visits(f) \ {x} \subseteq Visits(f)'
        BY <1>1, VisitsCut
      <4>. QED
        BY <4>1, <4>2 DEF Visits
    <3>. QED
      BY <1>8, <2>1, <2>2, <3>1
  <2>4. CASE first = x
    <3>1. PICK f \in Clauses \cup {Nil} : f = next[x] /\ f = first'
      BY <1>1, <2>4, Fields DEF Removes
    <3>2. Linked \subseteq {x} \cup Visits(f)
      BY <1>1, <2>2, <2>4, <3>1, VisitsStep
    <3>3. Visits(f) \ {x} \subseteq Visits(f)'
      BY <1>1, VisitsCut
    <3>4. Visits(f)' = Visits(first)'
      BY <3>1 DEF Visits
    <3>. QED
      BY <1>8, <2>1, <3>2, <3>3, <3>4
  <2>. QED
    BY <2>3, <2>4
<1>10. \A d \in Clauses : settled'[d] /\ ~CL_ERASED'[d] => d \in Linked'
  BY <1>2, <1>8 DEF Chained, ChainSound
<1>11. erased_clauses' = Cardinality({d \in Linked' : CL_ERASED'[d]})
  <2>. DEFINE A == {d \in Linked : CL_ERASED[d]}
  <2>1. A \in SUBSET Clauses /\ x \in A
    BY DEF Linked
  <2>2. Cardinality(A \ {x}) = Cardinality(A) - 1
    <3>. HIDE DEF A
    <3>. QED
      BY <2>1, GenAssumption, OneLess
  <2>3. {d \in Linked' : CL_ERASED'[d]} = A \ {x}
    BY <1>2, <1>8
  <2>4. erased_clauses = Cardinality(A)
    BY DEF Chained, ChainSound
  <2>. QED
    BY <1>1, <2>2, <2>3, <2>4 DEF Removes
<1>12. ASSUME NEW d \in Clauses, Existing(d)'
       PROVE  next'[d] = Nil \/ Existing(next[d])'
  <2>1. \A e \in Clauses : Existing(e)' <=> Existing(e)
    BY <1>1, Fields DEF Removes, Existing, Linked
  <2>2. next'[d] = next[d] \/ next'[d] = next[x]
    BY <1>1, Fields DEF Removes
  <2>3. (next[d] = Nil \/ Existing(next[d])) /\ (next[x] = Nil \/ Existing(next[x]))
    BY <1>1, <1>12, <2>1 DEF Chained, Existing, Linked
  <2>4. PICK e : e = next'[d]
    OBVIOUS
  <2>5. e = Nil \/ (e \in Clauses /\ Existing(e))
    BY <1>1, <2>2, <2>3, <2>4, Fields
  <2>. QED
    BY <2>1, <2>4, <2>5 DEF Existing
<1>13. ChainSound'
  BY <1>7, <1>9, <1>10, <1>11 DEF ChainSound
<1>. QED
  BY <1>7, <1>12, <1>13 DEF Chained

\* A clause is flagged and counted.
LEMMA ChainedErase ==
  ASSUME Typed, Chained, NEW t \in Writers, EraseFlag(t)
  PROVE  Chained'
<1>1. PICK c \in Clauses : where[c] = "linked" /\ ~CL_ERASED[c]
                           /\ CL_ERASED' = [CL_ERASED EXCEPT ![c] = TRUE]
  BY DEF EraseFlag
<1>2. /\ erased_clauses' = erased_clauses + 1 /\ first' = first /\ next' = next
      /\ last' = last /\ where' = where /\ settled' = settled
  BY DEF EraseFlag
<1>3. Linked' = Linked /\ Visits(first)' = Visits(first)
  BY <1>2 DEF Linked, Visits, Closed
<1>4. erased_clauses' = Cardinality({d \in Linked' : CL_ERASED'[d]})
  <2>. DEFINE A == {d \in Linked : CL_ERASED[d]}
  <2>1. A \in SUBSET Clauses /\ c \notin A
    BY <1>1 DEF Linked
  <2>2. Cardinality(A \cup {c}) = Cardinality(A) + 1
    <3>. HIDE DEF A
    <3>. QED
      BY <2>1, GenAssumption, OneMore
  <2>3. {d \in Linked' : CL_ERASED'[d]} = A \cup {c}
    BY <1>1, <1>3, Fields DEF Linked
  <2>4. erased_clauses = Cardinality(A)
    BY DEF Chained, ChainSound
  <2>. QED
    BY <1>2, <2>2, <2>3, <2>4
<1>5. \A d \in Clauses : settled'[d] /\ ~CL_ERASED'[d] => d \in Linked'
  BY <1>1, <1>2, <1>3, Fields DEF Chained, ChainSound
<1>6. ChainSound'
  BY <1>2, <1>3, <1>4, <1>5 DEF Chained, ChainSound
<1>7. \A d \in Clauses : Existing(d)' => next'[d] = Nil \/ Existing(next[d])'
  BY <1>2 DEF Chained, Existing
<1>. QED
  BY <1>2, <1>3, <1>6, <1>7 DEF Chained

\* A step that stamps no clause but a linked one, and neither links nor unlinks.
LEMMA ChainedStay ==
  ASSUME Typed, Chained,
         first' = first, next' = next, last' = last, erased_clauses' = erased_clauses,
         CL_ERASED' = CL_ERASED,
         \A c \in Clauses : settled'[c] => settled[c] \/ c \in Linked,
         \A c \in Clauses : where'[c] = "linked" <=> where[c] = "linked",
         \A c \in Clauses : Existing(c)' => Existing(c) /\ (next[c] = Nil \/ Existing(next[c])')
  PROVE  Chained'
<1>1. Linked' = Linked /\ Visits(first)' = Visits(first)
  BY DEF Linked, Visits, Closed
<1>2. ChainSound'
  BY <1>1 DEF Chained, ChainSound
<1>. QED
  BY <1>1, <1>2 DEF Chained

\* The chain stays whole, whoever does what.
LEMMA ChainedKept ==
  ASSUME IInv, [Next]_vars
  PROVE  Chained'
<1>. USE DEF IInv
<1>1. ASSUME chain' = chain, CL_ERASED' = CL_ERASED, settled' = settled
      PROVE  Chained'
  <2>1. \A c \in Clauses : Existing(c)' <=> Existing(c)
    BY <1>1 DEF chain, Existing
  <2>2. \A c \in Clauses : Existing(c) => next[c] = Nil \/ (next[c] \in Clauses /\ Existing(next[c]))
    BY Fields DEF Chained
  <2>3. \A c \in Clauses : Existing(c)' => Existing(c) /\ (next[c] = Nil \/ Existing(next[c])')
    BY <1>1, <2>1, <2>2 DEF chain, Existing
  <2>. QED
    BY ONLY Typed, Chained, <1>1, <2>3, ChainedStay DEF chain
<1>2. CASE UNCHANGED vars
  BY <1>1, <1>2 DEF vars, stamps
<1>3. ASSUME NEW t \in Callers, Call(t)
      PROVE  Chained'
  BY <1>1, <1>3 DEF Call, ReadGen, Store, Activate, Verify, PublishLate, Enter, Walk,
     WalkEnd, Choose, Leave, stamps
<1>4. ASSUME NEW t \in Writers, AssertLink(t)
      PROVE  Chained'
  BY <1>4, ChainedAssert
<1>5. ASSUME NEW t \in Writers, EraseFlag(t)
      PROVE  Chained'
  BY <1>5, ChainedErase
<1>6. ASSUME NEW t \in Writers, NextGeneration(t) \/ Register(t)
      PROVE  Chained'
  BY <1>1, <1>6 DEF NextGeneration, Register, stamps
<1>7. ASSUME NEW t \in Writers, Stamp(t)
      PROVE  Chained'
  <2>1. chain' = chain /\ CL_ERASED' = CL_ERASED
    BY <1>7 DEF Stamp
  <2>2. \A c \in Clauses : settled'[c] => settled[c] \/ c \in Linked
    BY <1>7, Fields DEF Stamp, Writing, Changing
  <2>3. \A c \in Clauses : Existing(c) => next[c] = Nil \/ (next[c] \in Clauses /\ Existing(next[c]))
    BY Fields DEF Chained
  <2>4. \A c \in Clauses : Existing(c)' => Existing(c) /\ (next[c] = Nil \/ Existing(next[c])')
    BY <2>1, <2>3 DEF chain, Existing
  <2>. QED
    BY ONLY Typed, Chained, <2>1, <2>2, <2>4, ChainedStay DEF chain
<1>8. CASE CgcSweep
  <2>1. CASE Collectable(cgc.cur)
    <3>1. cgc.cur \in Linked /\ CL_ERASED[cgc.cur] /\ Unlink(cgc.cur) /\ UNCHANGED stamps
      BY <1>8, <2>1 DEF CgcSweep, Collectable, Collecting
    <3>. QED
      BY <3>1, ChainedUnlink
  <2>2. CASE ~Collectable(cgc.cur)
    BY <1>1, <1>8, <2>2 DEF CgcSweep, stamps
  <2>. QED
    BY <2>1, <2>2
<1>9. CASE CgcGrab \/ CgcFree
  <2>1. /\ first' = first /\ next' = next /\ last' = last /\ erased_clauses' = erased_clauses
        /\ CL_ERASED' = CL_ERASED /\ settled' = settled
    BY <1>9 DEF CgcGrab, CgcFree, stamps
  <2>2. \A c \in Clauses : where'[c] = "linked" <=> where[c] = "linked"
    BY <1>9, Fields DEF CgcGrab, CgcFree, FateOfGrabbed
  <2>3. ASSUME NEW c \in Clauses, Existing(c)'
        PROVE  Existing(c) /\ (next[c] = Nil \/ Existing(next[c])')
    <3>1. Existing(c)
      BY <1>9, <2>3, Fields DEF CgcGrab, CgcFree, Existing
    <3>2. next[c] # Nil => next[c] \in Clauses /\ Existing(next[c])
      BY <3>1, Fields DEF Chained
    <3>3. CASE CgcGrab
      BY <3>1, <3>2, <3>3, Fields DEF CgcGrab, Existing
    <3>4. CASE CgcFree /\ cgc.inuse
      BY <3>1, <3>2, <3>4, Fields DEF CgcFree, FateOfGrabbed, Existing
    <3>5. CASE CgcFree /\ ~cgc.inuse
      <4>1. c \in Linked
        BY <2>3, <3>1, <3>5, Fields DEF CgcFree, FateOfGrabbed, Existing, Linked, Collecting
      <4>2. next[c] \in Linked \cup {Nil}
        BY <4>1, LinkedClosed DEF Chained
      <4>. QED
        BY <2>1, <2>2, <3>1, <4>2 DEF Existing, Linked
    <3>. QED
      BY <1>9, <3>3, <3>4, <3>5
  <2>. QED
    BY ONLY Typed, Chained, <2>1, <2>2, <2>3, ChainedStay
<1>10. CASE CgcStart \/ CgcStartGen \/ CgcReset \/ CgcClean \/ CgcSwept
            \/ \E t \in Callers : CgcMark(t) \/ CgcInUse(t)
  BY <1>1, <1>10 DEF CgcStart, CgcStartGen, CgcReset, CgcClean, CgcSwept, CgcMark, CgcInUse,
     stamps
<1>. QED
  BY <1>2, <1>3, <1>4, <1>5, <1>6, <1>7, <1>8, <1>9, <1>10 DEF Next, Change, Finish, Collect

-----------------------------------------------------------------------------
(* Types, step by step.                                                     *)

\* The counter of erased clauses is bounded by their number.
LEMMA CountBounded ==
  ASSUME NEW A \in SUBSET Clauses
  PROVE  Cardinality(A) \in 0..Cardinality(Clauses)
<1>1. /\ Cardinality(A) \in Nat /\ Cardinality(Clauses) \in Nat
      /\ Cardinality(A) <= Cardinality(Clauses)
  BY GenAssumption, FS_Subset, FS_CardinalityType
<1>. QED
  BY <1>1

\* The steps of a caller keep the types.
LEMMA TypedCall ==
  ASSUME Typed, NEW t \in Callers, Call(t)
  PROVE  Typed'
<1>. USE DEF Typed, TypeOK, chain, stamps, marks, local
<1>1. CASE ReadGen(t)
  <2>1. generation \in 0..MaxGen
    BY GenAssumption
  <2>. QED
    BY <1>1, <2>1, SMTT(30) DEF ReadGen
<1>2. CASE Store(t)
  BY <1>2 DEF Store
<1>3. CASE Activate(t)
  <2>1. oldest_generation' \in 0..GEN_MAX
    <3>1. Least({oldest_generation, gen[t]}) \in {oldest_generation, gen[t]}
      BY LeastOfTwo, Fields
    <3>. QED
      BY <1>3, <3>1, GenAssumption DEF Activate, GEN_MAX
  <2>. QED
    BY <1>3, <2>1 DEF Activate
<1>4. CASE Verify(t)
  <2>1. VisibleAt(gen[t]) \in SUBSET Clauses
    BY DEF VisibleAt
  <2>. QED
    BY <1>4, <2>1, SMTT(30) DEF Verify
<1>5. CASE PublishLate(t)
  BY <1>5 DEF PublishLate
<1>6. CASE Enter(t)
  <2>1. cur' \in [Callers -> Clauses \cup {Nil}]
    BY ONLY Typed, <1>6, Fields DEF Enter, RetryAt
  <2>. QED
    BY <1>6, <2>1 DEF Enter
<1>7. CASE Walk(t)
  <2>1. cur[t] \in Clauses /\ next[cur[t]] \in Clauses \cup {Nil}
    BY <1>7 DEF Walk
  <2>2. /\ cur' \in [Callers -> Clauses \cup {Nil}] /\ exec' \in [Callers -> Clauses \cup {Nil}]
        /\ answers' \in [Callers -> SUBSET Clauses] /\ pc' \in [Callers -> Outside \cup Inside]
    <3>1. cur' = [cur EXCEPT ![t] = next[cur[t]]]
      BY <1>7 DEF Walk
    <3>2. \/ /\ exec' = [exec EXCEPT ![t] = cur[t]] /\ pc' = [pc EXCEPT ![t] = "choose"]
             /\ answers' = [answers EXCEPT ![t] = answers[t] \cup {cur[t]}]
          \/ exec' = exec /\ pc' = pc /\ answers' = answers
      BY <1>7 DEF Walk
    <3>3. /\ pc \in [Callers -> Outside \cup Inside] /\ "choose" \in Inside
          /\ cur \in [Callers -> Clauses \cup {Nil}] /\ exec \in [Callers -> Clauses \cup {Nil}]
          /\ answers \in [Callers -> SUBSET Clauses]
      BY DEF Outside, Inside
    <3>. QED
      BY ONLY <2>1, <3>1, <3>2, <3>3
  <2>. QED
    BY <1>7, <2>2 DEF Walk, Outside, Inside
<1>8. CASE WalkEnd(t)
  BY <1>8 DEF WalkEnd
<1>9. CASE Choose(t)
  <2>1. cur[t] # Nil => cur[t] \in Clauses /\ next[cur[t]] \in Clauses \cup {Nil}
    OBVIOUS
  <2>2. /\ cur' \in [Callers -> Clauses \cup {Nil}] /\ chp' \in [Callers -> Clauses \cup {Nil}]
        /\ access' \in [Callers -> BOOLEAN] /\ pc' \in [Callers -> Outside \cup Inside]
    <3>1. \/ /\ cur' = [cur EXCEPT ![t] = next[cur[t]]] /\ cur[t] # Nil
             /\ chp' = chp /\ access' = access /\ pc' = pc
          \/ /\ chp' = [chp EXCEPT ![t] = cur[t]] /\ cur' = [cur EXCEPT ![t] = Nil]
             /\ access' = [access EXCEPT ![t] = FALSE]
             /\ \E p \in {"last", "answer"} : pc' = [pc EXCEPT ![t] = p]
      BY <1>9 DEF Choose
    <3>2. /\ pc \in [Callers -> Outside \cup Inside] /\ {"last", "answer"} \subseteq Inside
          /\ cur \in [Callers -> Clauses \cup {Nil}] /\ chp \in [Callers -> Clauses \cup {Nil}]
          /\ access \in [Callers -> BOOLEAN] /\ cur[t] \in Clauses \cup {Nil}
      BY DEF Outside, Inside
    <3>3. CASE cur' = [cur EXCEPT ![t] = next[cur[t]]] /\ cur[t] # Nil
               /\ chp' = chp /\ access' = access /\ pc' = pc
      BY ONLY <2>1, <3>2, <3>3
    <3>4. CASE /\ chp' = [chp EXCEPT ![t] = cur[t]] /\ cur' = [cur EXCEPT ![t] = Nil]
               /\ access' = [access EXCEPT ![t] = FALSE]
               /\ \E p \in {"last", "answer"} : pc' = [pc EXCEPT ![t] = p]
      BY ONLY <3>2, <3>4
    <3>. QED
      BY ONLY <3>1, <3>3, <3>4
  <2>. QED
    BY <1>9, <2>2 DEF Choose, Outside, Inside
<1>10. CASE Leave(t)
  BY <1>10, GenAssumption DEF Leave
<1>. QED
  BY <1>1, <1>2, <1>3, <1>4, <1>5, <1>6, <1>7, <1>8, <1>9, <1>10 DEF Call

\* A writer, and the end of its change, keep the types; the count of erased
\* clauses is bounded because it is exact.
LEMMA TypedChange ==
  ASSUME IInv, NEW t \in Writers, Change(t) \/ Finish(t), Chained'
  PROVE  Typed'
<1>. USE DEF IInv, Typed, TypeOK, chain, stamps, marks, local
<1>1. erased_clauses' \in 0..Cardinality(Clauses)
  <2>1. {d \in Linked' : CL_ERASED'[d]} \in SUBSET Clauses
    BY DEF Linked
  <2>. QED
    BY <2>1, CountBounded DEF Chained, ChainSound
<1>2. CASE AssertLink(t)
  <2>1. PICK c \in Clauses :
          /\ Adds(c) /\ job' = [job EXCEPT ![t] = [op |-> "assert", c |-> c, g |-> 0]]
    BY <1>2, AssertEffect
  <2>2. /\ first' \in Clauses \cup {Nil} /\ last' \in Clauses \cup {Nil}
        /\ next' \in [Clauses -> Clauses \cup {Nil}]
        /\ where' \in [Clauses -> {"unused", "linked", "lingering", "grabbed", "freed"}]
    <3>1. where' \in [Clauses -> {"unused", "linked", "lingering", "grabbed", "freed"}]
      BY <2>1 DEF Adds
    <3>2. /\ first \in Clauses \cup {Nil} /\ last \in Clauses \cup {Nil}
          /\ next \in [Clauses -> Clauses \cup {Nil}]
      OBVIOUS
    <3>. QED
      BY ONLY c \in Clauses, <2>1, <3>1, <3>2 DEF Adds
  <2>. QED
    BY <1>1, <1>2, <2>1, <2>2, GenAssumption DEF AssertLink
<1>3. CASE EraseFlag(t)
  BY <1>1, <1>3, GenAssumption DEF EraseFlag
<1>4. CASE NextGeneration(t)
  <2>1. generation + 1 \in 1..MaxGen
    BY <1>4, GenAssumption DEF NextGeneration, Writing, Changing
  <2>. QED
    BY <1>1, <1>4, <2>1, GenAssumption DEF NextGeneration
<1>5. CASE Stamp(t)
  <2>1. job[t].c \in Clauses /\ job[t].g \in 0..MaxGen /\ job[t].g \in 0..GEN_MAX
    BY <1>5, GenAssumption DEF Stamp, Writing, Changing, Linked, GEN_MAX
  <2>2. created' \in [Clauses -> 0..MaxGen] /\ erased' \in [Clauses -> 0..GEN_MAX]
        /\ settled' \in [Clauses -> BOOLEAN]
    <3>1. created \in [Clauses -> 0..MaxGen] /\ erased \in [Clauses -> 0..GEN_MAX]
          /\ settled \in [Clauses -> BOOLEAN]
      OBVIOUS
    <3>2. CASE job[t].op = "assert"
      BY ONLY <1>5, <2>1, <3>1, <3>2 DEF Stamp
    <3>3. CASE job[t].op # "assert"
      BY ONLY <1>5, <2>1, <3>1, <3>3 DEF Stamp
    <3>. QED
      BY ONLY <3>2, <3>3
  <2>. DEFINE Jobs == [op : {"none", "assert", "erase", "register"},
                       c : Clauses \cup {Nil}, g : 0..MaxGen]
  <2>3. job' \in [Writers -> Jobs]
    <3>1. NoJob \in Jobs
      BY GenAssumption DEF NoJob
    <3>2. job \in [Writers -> Jobs] /\ [job[t] EXCEPT !.op = "register"] \in Jobs
      OBVIOUS
    <3>3. job' = [job EXCEPT ![t] = NoJob]
          \/ job' = [job EXCEPT ![t] = [job[t] EXCEPT !.op = "register"]]
      BY <1>5 DEF Stamp
    <3>. QED
      BY ONLY <3>1, <3>2, <3>3
  <2>4. \A u \in Writers : job'[u].c \in Clauses \cup {Nil} /\ job'[u].g \in 0..MaxGen
    BY ONLY <2>3
  <2>. QED
    BY <1>1, <1>5, <2>2, <2>3, <2>4 DEF Stamp
<1>6. CASE Register(t)
  BY <1>1, <1>6, GenAssumption DEF Register, NoJob, GEN_MAX
<1>. QED
  BY <1>2, <1>3, <1>4, <1>5, <1>6 DEF Change, Finish

\* So do the steps of the collector.
LEMMA TypedCollect ==
  ASSUME IInv, Collect, Chained'
  PROVE  Typed'
<1>. USE DEF IInv, Typed, TypeOK, chain, stamps, marks, local
<1>1. erased_clauses' \in 0..Cardinality(Clauses)
  <2>1. {d \in Linked' : CL_ERASED'[d]} \in SUBSET Clauses
    BY DEF Linked
  <2>. QED
    BY <2>1, CountBounded DEF Chained, ChainSound
<1>2. CASE CgcStart
  BY <1>1, <1>2 DEF CgcStart, Steps
<1>3. CASE CgcStartGen
  <2>1. generation \in 0..MaxGen
    BY GenAssumption
  <2>. QED
    BY <1>1, <1>3, <2>1 DEF CgcStartGen, Steps
<1>4. CASE CgcReset
  <2>1. GEN_MAX \in 0..GEN_MAX
    BY GenAssumption DEF GEN_MAX
  <2>. QED
    BY <1>1, <1>4, <2>1 DEF CgcReset, ResetOldest, Steps
<1>5. CASE CgcClean
  <2>1. Least({cgc.start, oldest_generation}) \in 0..MaxGen
    <3>1. cgc.start \in 0..MaxGen /\ oldest_generation \in Nat /\ MaxGen \in Nat
      BY GenAssumption
    <3>2. Least({cgc.start, oldest_generation}) \in Nat
          /\ Least({cgc.start, oldest_generation}) <= cgc.start
      BY ONLY <3>1, LeastOfTwo, MaxGen \in Nat
    <3>. QED
      BY ONLY <3>1, <3>2
  <2>. QED
    BY <1>1, <1>5, <2>1 DEF CgcClean, Steps
<1>6. CASE CgcSweep
  <2>1. cgc.cur \in Clauses /\ next[cgc.cur] \in Clauses \cup {Nil}
    BY <1>6 DEF CgcSweep
  <2>2. /\ first' \in Clauses \cup {Nil} /\ last' \in Clauses \cup {Nil}
        /\ next' \in [Clauses -> Clauses \cup {Nil}]
        /\ where' \in [Clauses -> {"unused", "linked", "lingering", "grabbed", "freed"}]
    <3>1. CASE Collectable(cgc.cur)
      <4>1. Removes(cgc.cur)
        BY <1>6, <2>1, <3>1, UnlinkEffect, NilAssumption DEF CgcSweep, Collecting
      <4>. QED
        BY <2>1, <4>1, SMTT(30) DEF Removes, Linked
    <3>2. CASE ~Collectable(cgc.cur)
      BY <1>6, <3>2 DEF CgcSweep
    <3>. QED
      BY <3>1, <3>2
  <2>. QED
    BY <1>1, <1>6, <2>1, <2>2 DEF CgcSweep, Steps
<1>7. CASE CgcSwept
  BY <1>1, <1>7 DEF CgcSwept, Steps
<1>8. CASE CgcGrab
  BY <1>1, <1>8 DEF CgcGrab, Steps
<1>9. CASE CgcFree
  <2>1. IdleCgc \in [pc : Steps, start : 0..MaxGen, active : 0..MaxGen,
                     cur : Clauses \cup {Nil}, todo : SUBSET Callers, inuse : BOOLEAN]
    BY GenAssumption DEF IdleCgc, Steps
  <2>2. where' \in [Clauses -> {"unused", "linked", "lingering", "grabbed", "freed"}]
    BY <1>9 DEF CgcFree, FateOfGrabbed
  <2>3. cgc' \in [pc : Steps, start : 0..MaxGen, active : 0..MaxGen,
                  cur : Clauses \cup {Nil}, todo : SUBSET Callers, inuse : BOOLEAN]
    BY ONLY <1>9, <2>1 DEF CgcFree
  <2>4. /\ cgc'.pc \in Steps
        /\ cgc'.start \in 0..MaxGen /\ cgc'.active \in 0..MaxGen
        /\ cgc'.cur \in Clauses \cup {Nil} /\ cgc'.todo \subseteq Callers
    BY ONLY <2>3
  <2>5. cgc_active' = FALSE
    BY ONLY <1>9 DEF CgcFree
  <2>. HIDE DEF IdleCgc
  <2>6. TypeOK'
    BY <1>1, <1>9, <2>2, <2>4, <2>5 DEF CgcFree, Steps
  <2>. QED
    BY <1>9, <2>3, <2>6 DEF CgcFree
<1>10. ASSUME NEW t \in Callers, CgcMark(t)
       PROVE  Typed'
  <2>1. oldest_generation' \in 0..GEN_MAX
    <3>1. Least({oldest_generation, gen[t]}) \in {oldest_generation, gen[t]}
      BY LeastOfTwo, Fields
    <3>. QED
      BY <1>10, <3>1, GenAssumption DEF CgcMark, GEN_MAX
  <2>. QED
    BY <1>1, <1>10, <2>1 DEF CgcMark, Steps
<1>11. ASSUME NEW t \in Callers, CgcInUse(t)
       PROVE  Typed'
  BY <1>1, <1>11 DEF CgcInUse, Steps
<1>. QED
  BY <1>2, <1>3, <1>4, <1>5, <1>6, <1>7, <1>8, <1>9, <1>10, <1>11 DEF Collect

\* Every variable keeps its type.
LEMMA TypedKept ==
  ASSUME IInv, [Next]_vars
  PROVE  Typed'
<1>1. CASE UNCHANGED vars
  BY <1>1 DEF IInv, Typed, TypeOK, vars, chain, stamps, marks, local
<1>. QED
  BY <1>1, TypedCall, TypedChange, TypedCollect, ChainedKept DEF Next, IInv

-----------------------------------------------------------------------------
(* Writers and stamps.                                                      *)

\* Writers exclude each other.
LEMMA OneWriter ==
  ASSUME Writing, NEW t \in Writers, NEW u \in Writers, Changing(t), Changing(u)
  PROVE  t = u
BY DEF Writing

\* A step of the collector either leaves the chain as it is or takes out a clause
\* that was erased in a generation that is over, when nobody changes the predicate.
LEMMA CollectEffect ==
  ASSUME IInv, Collect
  PROVE  \/ /\ first' = first /\ next' = next /\ Linked' = Linked
            /\ \A c \in Clauses : /\ where'[c] = "unused" <=> where[c] = "unused"
                                  /\ Gone(c)' <=> Gone(c)
         \/ /\ CgcSweep /\ L_PREDICATE = NoThread /\ cgc.cur \in Linked
            /\ Collectable(cgc.cur) /\ Removes(cgc.cur)
<1>. USE DEF IInv
<1>1. CASE CgcSweep /\ Collectable(cgc.cur)
  <2>1. cgc.cur \in Linked /\ L_PREDICATE = NoThread /\ Unlink(cgc.cur)
    BY <1>1 DEF CgcSweep, Collecting
  <2>. QED
    BY <1>1, <2>1, UnlinkEffect
<1>2. CASE CgcGrab
  BY <1>2, Fields DEF CgcGrab, Linked, Gone
<1>3. CASE CgcFree
  BY <1>3, Fields DEF CgcFree, FateOfGrabbed, Linked, Gone
<1>4. ASSUME chain' = chain
      PROVE  /\ first' = first /\ next' = next /\ Linked' = Linked
             /\ \A c \in Clauses : /\ where'[c] = "unused" <=> where[c] = "unused"
                                   /\ Gone(c)' <=> Gone(c)
  BY <1>4 DEF chain, Linked, Gone
<1>5. CASE CgcSweep /\ ~Collectable(cgc.cur)
  BY <1>4, <1>5 DEF CgcSweep
<1>6. CASE CgcStart \/ CgcStartGen \/ CgcReset \/ CgcClean \/ CgcSwept
            \/ \E t \in Callers : CgcMark(t) \/ CgcInUse(t)
  BY <1>4, <1>6 DEF CgcStart, CgcStartGen, CgcReset, CgcClean, CgcSwept, CgcMark, CgcInUse
<1>. QED
  BY <1>1, <1>2, <1>3, <1>5, <1>6 DEF Collect

\* The collector changes nothing that belongs to writers.
LEMMA CollectFrame ==
  ASSUME Collect
  PROVE  /\ job' = job /\ L_PREDICATE' = L_PREDICATE /\ generation' = generation
         /\ created' = created /\ settled' = settled /\ CL_ERASED' = CL_ERASED
         /\ erased' = erased /\ pc' = pc /\ UNCHANGED local
BY DEF Collect, CgcStart, CgcStartGen, CgcReset, CgcClean, CgcSweep, CgcSwept, CgcGrab,
   CgcFree, CgcMark, CgcInUse, stamps

\* A caller changes nothing that others read, except for oldest_generation.
LEMMA CallFrame ==
  ASSUME NEW t \in Callers, Call(t)
  PROVE  /\ job' = job /\ L_PREDICATE' = L_PREDICATE /\ generation' = generation
         /\ created' = created /\ settled' = settled /\ CL_ERASED' = CL_ERASED
         /\ erased' = erased /\ chain' = chain /\ cgc' = cgc
BY DEF Call, ReadGen, Store, Activate, Verify, PublishLate, Enter, Walk, WalkEnd, Choose,
   Leave, stamps

\* L_PREDICATE is held from linking or flagging a clause until it is stamped.
LEMMA WritingKept ==
  ASSUME IInv, [Next]_vars
  PROVE  Writing'
<1>. USE DEF IInv
<1>1. ASSUME job' = job, L_PREDICATE' = L_PREDICATE, generation' = generation,
             settled' = settled, CL_ERASED' = CL_ERASED, erased' = erased, Linked' = Linked
      PROVE  Writing'
  BY <1>1 DEF Writing, Changing
<1>2. CASE UNCHANGED vars
  <2>1. Linked' = Linked
    BY <1>2 DEF vars, chain, Linked
  <2>. QED
    BY <1>1, <1>2, <2>1 DEF vars, stamps
<1>3. ASSUME NEW t \in Callers, Call(t)
      PROVE  Writing'
  <2>1. Linked' = Linked
    BY <1>3, CallFrame DEF chain, Linked
  <2>. QED
    BY <1>1, <1>3, <2>1, CallFrame
<1>4. CASE Collect
  <2>1. CASE Linked' = Linked
    BY <1>1, <1>4, <2>1, CollectFrame
  <2>2. CASE L_PREDICATE = NoThread
    <3>1. \A u \in Writers : ~Changing(u)
      BY <2>2, NilAssumption DEF Writing, Threads
    <3>2. job' = job /\ L_PREDICATE' = L_PREDICATE
      BY <1>4, CollectFrame
    <3>. QED
      BY <2>2, <3>1, <3>2, NilAssumption DEF Writing, Changing, Threads
  <2>. QED
    BY <1>4, <2>1, <2>2, CollectEffect
<1>5. ASSUME NEW t \in Writers, AssertLink(t)
      PROVE  Writing'
  <2>1. PICK c \in Clauses :
          /\ Adds(c) /\ Linked' = Linked \cup {c}
          /\ job' = [job EXCEPT ![t] = [op |-> "assert", c |-> c, g |-> 0]]
    BY <1>5, AssertEffect
  <2>2. /\ L_PREDICATE = NoThread /\ L_PREDICATE' = t /\ generation' = generation
        /\ generation < MaxGen
        /\ settled' = settled /\ CL_ERASED' = CL_ERASED /\ erased' = erased
    BY <1>5 DEF AssertLink, stamps
  <2>3. \A u \in Writers : ~Changing(u)
    BY <2>2, NilAssumption DEF Writing, Threads
  <2>4. ~settled[c] /\ ~CL_ERASED[c] /\ erased[c] = GEN_MAX
    BY <2>1 DEF Stamped, Adds
  <2>5. \A u \in Writers : u # t => job'[u] = job[u]
    BY <2>1, Fields DEF Typed
  <2>6. job'[t] = [op |-> "assert", c |-> c, g |-> 0]
    BY <2>1 DEF Typed
  <2>. QED
    BY <2>1, <2>2, <2>3, <2>4, <2>5, <2>6 DEF Writing, Changing
<1>6. ASSUME NEW t \in Writers, EraseFlag(t)
      PROVE  Writing'
  <2>1. PICK c \in Clauses :
          /\ where[c] = "linked" /\ ~CL_ERASED[c] /\ CL_ERASED' = [CL_ERASED EXCEPT ![c] = TRUE]
          /\ job' = [job EXCEPT ![t] = [op |-> "erase", c |-> c, g |-> 0]]
    BY <1>6 DEF EraseFlag
  <2>2. /\ L_PREDICATE = NoThread /\ L_PREDICATE' = t /\ generation' = generation
        /\ generation < MaxGen
        /\ settled' = settled /\ where' = where /\ erased' = erased
    BY <1>6 DEF EraseFlag
  <2>3. \A u \in Writers : ~Changing(u)
    BY <2>2, NilAssumption DEF Writing, Threads
  <2>4. settled[c] /\ CL_ERASED'[c] /\ erased[c] = GEN_MAX /\ c \in Linked'
    BY <2>1, <2>2, Fields DEF Stamped, Linked
  <2>5. \A u \in Writers : u # t => job'[u] = job[u]
    BY <2>1 DEF Typed
  <2>6. job'[t] = [op |-> "erase", c |-> c, g |-> 0]
    BY <2>1 DEF Typed
  <2>. QED
    BY <2>2, <2>3, <2>4, <2>5, <2>6 DEF Writing, Changing
<1>7. ASSUME NEW t \in Writers, NextGeneration(t)
      PROVE  Writing'
  <2>1. /\ Changing(t) /\ job[t].g = 0 /\ generation' = generation + 1
        /\ job' = [job EXCEPT ![t].g = generation + 1] /\ L_PREDICATE' = L_PREDICATE
        /\ settled' = settled /\ CL_ERASED' = CL_ERASED /\ erased' = erased /\ where' = where
    BY <1>7 DEF NextGeneration, Changing, stamps, chain
  <2>2. /\ job'[t].op = job[t].op /\ job'[t].c = job[t].c /\ job'[t].g = generation'
        /\ generation' # 0
    BY <2>1, Fields DEF Typed
  <2>3. \A u \in Writers : u # t => job'[u] = job[u] /\ ~Changing(u)
    BY <2>1, OneWriter DEF Typed
  <2>4. Linked' = Linked
    BY <2>1 DEF Linked
  <2>. QED
    BY <2>1, <2>2, <2>3, <2>4 DEF Writing, Changing
<1>8. ASSUME NEW t \in Writers, Stamp(t)
      PROVE  Writing'
  <2>1. Changing(t) /\ L_PREDICATE' = NoThread
    BY <1>8 DEF Stamp, Changing
  <2>2. ~Changing(t)'
    BY <1>8 DEF Stamp, Changing, NoJob, Typed
  <2>3. \A u \in Writers : u # t => job'[u] = job[u] /\ ~Changing(u)
    BY <1>8, <2>1, OneWriter DEF Typed, Stamp
  <2>. QED
    BY <2>1, <2>2, <2>3, NilAssumption DEF Writing, Changing, Threads
<1>9. ASSUME NEW t \in Writers, Register(t)
      PROVE  Writing'
  <2>1. /\ ~Changing(t) /\ ~Changing(t)' /\ \A u \in Writers : u # t => job'[u] = job[u]
        /\ L_PREDICATE' = L_PREDICATE /\ generation' = generation
        /\ settled' = settled /\ CL_ERASED' = CL_ERASED /\ erased' = erased /\ where' = where
    BY <1>9 DEF Register, Changing, NoJob, Typed, stamps, chain
  <2>2. Linked' = Linked
    BY <2>1 DEF Linked
  <2>. QED
    BY <2>1, <2>2 DEF Writing, Changing
<1>. QED
  BY <1>2, <1>3, <1>4, <1>5, <1>6, <1>7, <1>8, <1>9 DEF Next, Change, Finish

\* What the stamps say stays true.
LEMMA StampedKept ==
  ASSUME IInv, [Next]_vars
  PROVE  Stamped'
<1>. USE DEF IInv
<1>1. ASSUME settled' = settled, CL_ERASED' = CL_ERASED, erased' = erased,
             L_PREDICATE' = L_PREDICATE, generation' = generation, job' = job,
             next' = next,
             \A c \in Clauses : /\ where'[c] = "unused" <=> where[c] = "unused"
                                /\ Gone(c)' <=> Gone(c)
      PROVE  Stamped'
  BY <1>1 DEF Stamped
<1>2. ASSUME chain' = chain
      PROVE  /\ next' = next
             /\ \A c \in Clauses : /\ where'[c] = "unused" <=> where[c] = "unused"
                                   /\ Gone(c)' <=> Gone(c)
  BY <1>2 DEF chain, Gone
<1>3. CASE UNCHANGED vars
  BY <1>1, <1>2, <1>3 DEF vars, stamps
<1>4. ASSUME NEW t \in Callers, Call(t)
      PROVE  Stamped'
  BY <1>1, <1>2, <1>4, CallFrame
<1>5. CASE Collect
  <2>1. CASE /\ next' = next
             /\ \A c \in Clauses : /\ where'[c] = "unused" <=> where[c] = "unused"
                                   /\ Gone(c)' <=> Gone(c)
    BY <1>1, <1>5, <2>1, CollectFrame
  <2>2. ASSUME CgcSweep, NEW x \in Linked, x = cgc.cur, Collectable(x), Removes(x)
        PROVE  Stamped'
    <3>1. CL_ERASED[x] /\ erased[x] < generation /\ x \in Clauses
      BY <2>2, Fields DEF CgcSweep, Collectable, Collecting, Linked
    <3>2. \A c \in Clauses : where[c] = "unused" => next'[c] = next[c]
      BY <2>2, Fields DEF Removes, Linked
    <3>3. \A c \in Clauses : c # x => where'[c] = where[c] /\ (Gone(c)' <=> Gone(c))
      BY <2>2, Fields DEF Removes, Gone
    <3>4. where'[x] = "lingering"
      BY <2>2, <3>1, Fields DEF Removes
    <3>5. /\ settled' = settled /\ CL_ERASED' = CL_ERASED /\ erased' = erased
          /\ L_PREDICATE' = L_PREDICATE /\ generation' = generation /\ job' = job
      BY <1>5, CollectFrame
    <3>6. x \in Clauses /\ where[x] = "linked"
      BY DEF Linked
    <3>7. ASSUME NEW c \in Clauses
          PROVE  /\ where'[c] = "unused" => ~settled'[c] /\ next'[c] = Nil
                 /\ ~settled'[c] => ~CL_ERASED'[c]
                 /\ ~CL_ERASED'[c] => erased'[c] = GEN_MAX
                 /\ ~settled'[c] /\ where'[c] # "unused" =>
                      L_PREDICATE' # NoThread /\ job'[L_PREDICATE'].c = c
                 /\ Gone(c)' => CL_ERASED'[c] /\ erased'[c] < generation'
      BY <3>1, <3>2, <3>3, <3>4, <3>5, <3>6 DEF Stamped
    <3>. QED
      BY <3>7 DEF Stamped
  <2>. QED
    BY <1>5, <2>1, <2>2, CollectEffect
<1>6. ASSUME NEW t \in Writers, AssertLink(t)
      PROVE  Stamped'
  <2>1. PICK c \in Clauses :
          /\ Adds(c) /\ Linked' = Linked \cup {c}
          /\ job' = [job EXCEPT ![t] = [op |-> "assert", c |-> c, g |-> 0]]
    BY <1>6, AssertEffect
  <2>2. /\ L_PREDICATE = NoThread /\ L_PREDICATE' = t /\ generation' = generation
        /\ settled' = settled /\ CL_ERASED' = CL_ERASED /\ erased' = erased
    BY <1>6 DEF AssertLink, stamps
  <2>3. job'[t].c = c /\ t # NoThread
    BY <2>1, NilAssumption DEF Typed, Threads
  <2>4. where'[c] = "linked" /\ \A d \in Clauses : d # c => where'[d] = where[d]
    BY <2>1, Fields DEF Adds
  <2>5. \A d \in Clauses : where[d] = "unused" /\ d # c => next'[d] = next[d]
    <3>1. first # Nil => last \in Linked
      BY DEF Chained, ChainSound
    <3>. QED
      BY <2>1, <3>1, Fields DEF Adds, Linked
  <2>6. \A d \in Clauses : Gone(d)' => Gone(d)
    BY <2>4 DEF Gone
  <2>. QED
    BY <2>2, <2>3, <2>4, <2>5, <2>6 DEF Stamped
<1>7. ASSUME NEW t \in Writers, EraseFlag(t)
      PROVE  Stamped'
  <2>1. PICK c \in Clauses :
          where[c] = "linked" /\ ~CL_ERASED[c] /\ CL_ERASED' = [CL_ERASED EXCEPT ![c] = TRUE]
    BY <1>7 DEF EraseFlag
  <2>2. /\ L_PREDICATE = NoThread /\ generation' = generation
        /\ settled' = settled /\ where' = where /\ erased' = erased /\ next' = next
    BY <1>7 DEF EraseFlag
  <2>3. CL_ERASED'[c] /\ settled[c] /\ \A d \in Clauses : d # c => CL_ERASED'[d] = CL_ERASED[d]
    BY <2>1, <2>2, Fields DEF Stamped
  <2>4. \A d \in Clauses : Gone(d)' <=> Gone(d)
    BY <2>2 DEF Gone
  <2>5. ~Gone(c)
    BY <2>1 DEF Gone
  <2>. QED
    BY <2>2, <2>3, <2>4, <2>5 DEF Stamped
<1>8. ASSUME NEW t \in Writers, NextGeneration(t)
      PROVE  Stamped'
  <2>1. /\ generation' = generation + 1 /\ job' = [job EXCEPT ![t].g = generation + 1]
        /\ settled' = settled /\ CL_ERASED' = CL_ERASED /\ erased' = erased
        /\ where' = where /\ next' = next /\ L_PREDICATE' = L_PREDICATE
    BY <1>8 DEF NextGeneration, stamps, chain
  <2>2. L_PREDICATE # NoThread => job'[L_PREDICATE].c = job[L_PREDICATE].c
    <3>1. L_PREDICATE \in Writers \cup {NoThread}
      BY DEF Typed, TypeOK
    <3>. QED
      BY <2>1, <3>1 DEF Typed
  <2>3. \A d \in Clauses : Gone(d)' <=> Gone(d)
    BY <2>1 DEF Gone
  <2>4. \A d \in Clauses : erased[d] < generation => erased'[d] < generation'
    BY <2>1, Fields
  <2>. QED
    BY <2>1, <2>2, <2>3, <2>4 DEF Stamped
<1>9. ASSUME NEW t \in Writers, Stamp(t)
      PROVE  Stamped'
  <2>. DEFINE c == job[t].c
  <2>1. Changing(t) /\ L_PREDICATE = t /\ t # NoThread
    BY <1>9, NilAssumption DEF Stamp, Changing, Writing, Threads
  <2>2. c \in Clauses /\ where[c] = "linked" /\ erased[c] = GEN_MAX
        /\ (settled[c] <=> job[t].op = "erase") /\ (CL_ERASED[c] <=> job[t].op = "erase")
    BY <2>1 DEF Writing, Linked
  <2>3. /\ generation' = generation /\ CL_ERASED' = CL_ERASED
        /\ where' = where /\ next' = next
    BY <1>9 DEF Stamp, chain
  <2>4. settled'[c] /\ \A d \in Clauses : d # c => settled'[d] = settled[d] /\ erased'[d] = erased[d]
    BY <1>9, <2>1, <2>2, Fields DEF Stamp, Changing
  <2>5. job[t].op = "assert" => erased' = erased
    BY <1>9 DEF Stamp
  <2>6. \A d \in Clauses : ~settled[d] /\ where[d] # "unused" => d = c
    BY <2>1 DEF Stamped
  <2>7. \A d \in Clauses : Gone(d)' <=> Gone(d)
    BY <2>3 DEF Gone
  <2>8. ~Gone(c)
    BY <2>2 DEF Gone
  <2>9. ASSUME NEW d \in Clauses
        PROVE  /\ where'[d] = "unused" => ~settled'[d] /\ next'[d] = Nil
               /\ ~settled'[d] => ~CL_ERASED'[d]
               /\ ~CL_ERASED'[d] => erased'[d] = GEN_MAX
               /\ ~settled'[d] /\ where'[d] # "unused" => FALSE
               /\ Gone(d)' => CL_ERASED'[d] /\ erased'[d] < generation'
    <3>. HIDE DEF c
    <3>1. CASE d = c
      <4>1. ~CL_ERASED[c] => erased'[c] = GEN_MAX
        BY <2>1, <2>2, <2>5 DEF Changing
      <4>. QED
        BY <2>2, <2>3, <2>4, <2>7, <2>8, <3>1, <4>1
    <3>2. CASE d # c
      BY <2>3, <2>4, <2>6, <2>7, <3>2 DEF Stamped
    <3>. QED
      BY <3>1, <3>2
  <2>. QED
    BY <2>9 DEF Stamped
<1>10. ASSUME NEW t \in Writers, Register(t)
       PROVE  Stamped'
  <2>1. /\ ~Changing(t) /\ \A u \in Writers : u # t => job'[u] = job[u]
        /\ L_PREDICATE' = L_PREDICATE /\ generation' = generation
        /\ settled' = settled /\ CL_ERASED' = CL_ERASED /\ erased' = erased
        /\ where' = where /\ next' = next
    BY <1>10 DEF Register, Changing, Typed, stamps, chain
  <2>2. L_PREDICATE # NoThread => job'[L_PREDICATE] = job[L_PREDICATE]
    <3>1. L_PREDICATE \in Writers \cup {NoThread}
      BY DEF Typed, TypeOK
    <3>. QED
      BY <2>1, <3>1 DEF Writing
  <2>3. \A d \in Clauses : Gone(d)' <=> Gone(d)
    BY <2>1 DEF Gone
  <2>. QED
    BY <2>1, <2>2, <2>3 DEF Stamped
<1>. QED
  BY <1>3, <1>4, <1>5, <1>6, <1>7, <1>8, <1>9, <1>10 DEF Next, Change, Finish

-----------------------------------------------------------------------------
(* The collector.                                                           *)

\* The collector stays in the chain, and its generations are in the past.
LEMMA CollectingKept ==
  ASSUME IInv, [Next]_vars
  PROVE  Collecting'
<1>. USE DEF IInv
<1>1. ASSUME cgc' = cgc, generation' >= generation, Linked \subseteq Linked',
             \A c \in Clauses : where'[c] \in {where[c], "linked"}
      PROVE  Collecting'
  <2>1. generation' \in Int => cgc'.start <= generation'
    BY <1>1, Fields DEF Collecting
  <2>2. cgc'.start <= generation'
    BY <2>1, TypedKept, Fields DEF Typed, TypeOK
  <2>. QED
    BY <1>1, <2>2 DEF Collecting
<1>2. ASSUME chain' = chain
      PROVE  Linked' = Linked /\ \A c \in Clauses : where'[c] \in {where[c], "linked"}
  BY <1>2 DEF chain, Linked
<1>3. generation >= generation
  BY Fields
<1>4. CASE UNCHANGED vars
  BY <1>1, <1>2, <1>3, <1>4 DEF vars
<1>5. ASSUME NEW t \in Callers, Call(t)
      PROVE  Collecting'
  BY <1>1, <1>2, <1>3, <1>5, CallFrame
<1>6. ASSUME NEW t \in Writers, AssertLink(t)
      PROVE  Collecting'
  <2>1. PICK c \in Clauses : Adds(c) /\ Linked' = Linked \cup {c}
    BY <1>6, AssertEffect
  <2>2. \A d \in Clauses : where'[d] \in {where[d], "linked"}
    BY <2>1, Fields DEF Adds
  <2>3. cgc' = cgc /\ generation' = generation
    BY <1>6 DEF AssertLink
  <2>. QED
    BY <1>1, <1>3, <2>1, <2>2, <2>3
<1>7. ASSUME NEW t \in Writers, EraseFlag(t) \/ Finish(t)
      PROVE  Collecting'
  <2>1. cgc' = cgc /\ where' = where
    BY <1>7 DEF EraseFlag, Finish, NextGeneration, Stamp, Register, chain
  <2>2. generation' >= generation
    BY <1>7, Fields DEF EraseFlag, Finish, NextGeneration, Stamp, Register
  <2>3. Linked' = Linked
    BY <2>1 DEF Linked
  <2>. QED
    BY <1>1, <2>1, <2>2, <2>3
<1>8. CASE Collect
  <2>1. generation' = generation
    BY <1>8, CollectFrame
  <2>2. first \in Linked \cup {Nil} /\ \A c \in Linked : next[c] \in Linked \cup {Nil} /\ next[c] # c
    BY LinkedClosed, NoLoop DEF Chained
  <2>3. CASE CgcStart \/ CgcStartGen \/ CgcReset \/ CgcClean \/ CgcSwept
             \/ \E t \in Callers : CgcMark(t) \/ CgcInUse(t)
    <3>1. chain' = chain
      BY <2>3 DEF CgcStart, CgcStartGen, CgcReset, CgcClean, CgcSwept, CgcMark, CgcInUse
    <3>2. where' = where /\ Linked' = Linked
      BY <3>1 DEF chain, Linked
    <3>3. CASE CgcStart \/ CgcReset \/ CgcSwept \/ \E t \in Callers : CgcMark(t)
      BY <2>1, <3>2, <3>3, Fields DEF CgcStart, CgcReset, CgcSwept, CgcMark, Collecting, Typed
    <3>4. CASE CgcStartGen
      BY <2>1, <3>2, <3>4, Fields DEF CgcStartGen, Collecting, Typed
    <3>5. CASE CgcClean
      <4>1. Least({cgc.start, oldest_generation}) <= cgc.start
        BY LeastOfTwo, Fields
      <4>. QED
        BY <2>1, <2>2, <3>2, <3>5, <4>1, Fields DEF CgcClean, Collecting, Typed
    <3>6. ASSUME NEW t \in Callers, CgcInUse(t)
          PROVE  Collecting'
      BY <2>1, <3>2, <3>6, Fields DEF CgcInUse, Collecting, Typed
    <3>. QED
      BY <2>3, <3>3, <3>4, <3>5, <3>6
  <2>4. CASE CgcSweep
    <3>1. cgc.pc = "clean" /\ cgc' = [cgc EXCEPT !.cur = next[cgc.cur]] /\ cgc.cur \in Linked
      BY <2>4 DEF CgcSweep, Collecting
    <3>2. /\ cgc'.pc = "clean" /\ cgc'.start = cgc.start /\ cgc'.active = cgc.active
          /\ cgc'.cur = next[cgc.cur]
      BY <3>1 DEF Typed
    <3>3. next[cgc.cur] \in Linked' \cup {Nil} /\ \A c \in Clauses : where'[c] # "grabbed"
      <4>1. CASE Collectable(cgc.cur)
        <5>1. Removes(cgc.cur)
          BY <2>4, <3>1, <4>1, UnlinkEffect DEF CgcSweep
        <5>. QED
          BY <2>2, <3>1, <5>1, Fields DEF Removes, Collecting
      <4>2. CASE ~Collectable(cgc.cur)
        <5>1. where' = where /\ Linked' = Linked
          BY <2>4, <4>2 DEF CgcSweep, chain, Linked
        <5>. QED
          BY <2>2, <3>1, <5>1 DEF Collecting
      <4>. QED
        BY <4>1, <4>2
    <3>. QED
      BY <2>1, <3>1, <3>2, <3>3 DEF Collecting
  <2>5. CASE CgcGrab
    <3>1. cgc' = [cgc EXCEPT !.pc = "inuse", !.todo = Callers] /\ cgc.pc = "grab"
      BY <2>5 DEF CgcGrab
    <3>2. /\ cgc'.pc = "inuse" /\ cgc'.start = cgc.start /\ cgc'.active = cgc.active
          /\ cgc'.cur = cgc.cur
      BY <3>1 DEF Typed
    <3>3. Linked' = Linked /\ \A c \in Clauses : where'[c] # "lingering"
      BY <2>5, Fields DEF CgcGrab, Linked
    <3>. QED
      BY <2>1, <3>2, <3>3 DEF Collecting
  <2>6. CASE CgcFree
    <3>1. cgc'.pc = "idle" /\ cgc'.start = 0 /\ cgc'.cur = Nil
      BY <2>6 DEF CgcFree, IdleCgc
    <3>2. \A c \in Clauses : where'[c] # "grabbed"
      BY <2>6, Fields DEF CgcFree, FateOfGrabbed
    <3>. QED
      BY <2>1, <3>1, <3>2, Fields DEF Collecting
  <2>. QED
    BY <1>8, <2>3, <2>4, <2>5, <2>6 DEF Collect
<1>. QED
  BY <1>4, <1>5, <1>6, <1>7, <1>8 DEF Next, Change

-----------------------------------------------------------------------------
(* Callers, when somebody else makes a step.                                *)

\* The step is not one of caller t.
SameCaller(t) ==
  /\ pc'[t] = pc[t] /\ cur'[t] = cur[t] /\ chp'[t] = chp[t] /\ exec'[t] = exec[t]
  /\ gen'[t] = gen[t] /\ published'[t] = published[t] /\ early'[t] = early[t]
  /\ access'[t] = access[t] /\ entered'[t] = entered[t] /\ answers'[t] = answers[t]

\* A caller's own variables are changed by nobody else.
LEMMA LocalSame ==
  ASSUME NEW t \in Callers, pc' = pc, UNCHANGED local
  PROVE  SameCaller(t)
BY DEF SameCaller, local

\* The steps of one caller leave the variables of another alone.
LEMMA CallSame ==
  ASSUME Typed, NEW t \in Callers, NEW u \in Callers, t # u, Call(u)
  PROVE  SameCaller(t)
<1>. USE Fields DEF SameCaller, local
<1>1. CASE ReadGen(u)
  BY <1>1 DEF ReadGen
<1>2. CASE Store(u)
  BY <1>2 DEF Store
<1>3. CASE Activate(u)
  BY <1>3 DEF Activate
<1>4. CASE Verify(u)
  BY <1>4 DEF Verify
<1>5. CASE PublishLate(u)
  BY <1>5 DEF PublishLate
<1>6. CASE Enter(u)
  BY <1>6 DEF Enter
<1>7. CASE Walk(u)
  BY <1>7 DEF Walk
<1>8. CASE WalkEnd(u)
  BY <1>8 DEF WalkEnd
<1>9. CASE Choose(u)
  BY <1>9 DEF Choose
<1>10. CASE Leave(u)
  BY <1>10 DEF Leave
<1>. QED
  BY <1>1, <1>2, <1>3, <1>4, <1>5, <1>6, <1>7, <1>8, <1>9, <1>10 DEF Call

\* The invariant of one caller.
CallerSound(t) == Entering(t) /\ Sheltered(t) /\ Holding(t) /\ Answering(t)

\* What another caller or a writer may do without harm: add clauses, and stamp
\* clauses of the chain with the current generation.
LEMMA CallerKept ==
  ASSUME Typed, NEW t \in Callers, CallerSound(t), SameCaller(t),
         cgc' = cgc, generation' \in Nat, generation' >= generation,
         oldest_generation' \in Nat, oldest_generation' <= oldest_generation,
         erased' \in [Clauses -> Nat],
         \A c \in Clauses : Gone(c)' => Gone(c) /\ erased'[c] = erased[c],
         \A c \in Linked : c \in Linked' /\ erased'[c] \in {erased[c], generation},
         \A c \in Clauses : Existing(c) => Existing(c)',
         \A c \in Clauses : settled[c] =>
           settled'[c] /\ created'[c] = created[c] /\ where[c] # "unused"
           /\ erased'[c] <= erased[c],
         \A d \in Clauses \cup {Nil} : (d # Nil => Existing(d)) => Visits(d) \subseteq Visits(d)'
  PROVE  CallerSound(t)'
<1>. USE DEF CallerSound
<1>1. Entering(t)'
  BY DEF SameCaller, Entering
<1>2. Known(t)' => Known(t)
  BY DEF SameCaller, Known
<1>3. Sheltered(t)'
  BY <1>2, Fields DEF SameCaller, Sheltered
<1>4. Holding(t)'
  <2>. SUFFICES ASSUME Known(t)' PROVE Holding(t)'
    BY DEF Holding
  <2>1. Kept(t, chp[t])' /\ Kept(t, exec[t])'
    <3>1. ASSUME NEW c, Kept(t, c)
          PROVE  Kept(t, c)'
      <4>1. c # Nil => c \in Clauses /\ erased[c] \in Nat /\ gen[t] <= generation
        BY <1>2, <3>1, Fields DEF Kept, Linked, Sheltered
      <4>. QED
        BY <3>1, <4>1, Fields DEF Kept, SameCaller
    <3>2. Kept(t, chp[t]) /\ Kept(t, exec[t])
      BY <1>2 DEF Holding
    <3>3. PICK c, d : c = chp[t] /\ d = exec[t]
      OBVIOUS
    <3>4. Kept(t, c)' /\ Kept(t, d)'
      BY <3>1, <3>2, <3>3
    <3>. QED
      BY <3>3, <3>4 DEF SameCaller, Kept
  <2>2. cur'[t] # Nil => Existing(cur[t])'
    BY <1>2, Fields DEF Holding, SameCaller, Existing
  <2>. QED
    BY <1>2, <2>1, <2>2 DEF Holding, SameCaller
<1>5. Answering(t)'
  <2>. SUFFICES ASSUME Known(t)' PROVE Answering(t)'
    BY DEF Answering
  <2>1. \A c \in entered[t] : settled[c] /\ settled'[c] /\ c \in Clauses
    BY <1>2, Fields DEF Answering
  <2>2. Due(t)' \subseteq Due(t)
    BY <2>1, Fields DEF Due, VisibleAt, SameCaller
  <2>3. PICK c, d : c = cur[t] /\ d = chp[t]
    OBVIOUS
  <2>4. /\ c \in Clauses \cup {Nil} /\ d \in Clauses \cup {Nil}
        /\ c # Nil => Existing(c)
        /\ d # Nil => Existing(d)
    BY <1>2, <2>3, Fields DEF Holding, Kept, Linked, Existing
  <2>5. /\ pc[t] \in {"walk", "choose"} => Due(t) \subseteq Visits(c)
        /\ pc[t] = "answer" => Due(t) \subseteq Visits(d)
        /\ pc[t] \in {"last", "done"} => Due(t) = {}
    BY <1>2, <2>3 DEF Answering
  <2>6. Visits(c) \subseteq Visits(c)' /\ Visits(d) \subseteq Visits(d)'
    BY <2>4
  <2>7. Visits(cur[t])' = Visits(c)' /\ Visits(chp[t])' = Visits(d)'
    BY <2>3 DEF SameCaller, Visits
  <2>. QED
    BY <2>1, <2>2, <2>5, <2>6, <2>7 DEF Answering, SameCaller
<1>. QED
  BY <1>1, <1>3, <1>4, <1>5

\* Another caller does not disturb a caller.
LEMMA CallerBesideCall ==
  ASSUME IInv, NEW t \in Callers, NEW u \in Callers, t # u, Call(u)
  PROVE  CallerSound(t)'
<1>1. Typed /\ CallerSound(t) /\ Stamped
  BY DEF IInv, CallerSound
<1>2. SameCaller(t)
  BY <1>1, CallSame
<1>3. /\ generation' = generation /\ created' = created /\ settled' = settled
      /\ erased' = erased /\ where' = where /\ next' = next /\ cgc' = cgc
  BY CallFrame DEF chain
<1>4. oldest_generation' \in Nat /\ oldest_generation' <= oldest_generation
  <2>1. Least({oldest_generation, gen[u]}) \in {oldest_generation, gen[u]}
        /\ Least({oldest_generation, gen[u]}) <= oldest_generation
    BY <1>1, LeastOfTwo, Fields
  <2>2. \/ oldest_generation' = oldest_generation
        \/ oldest_generation' = Least({oldest_generation, gen[u]})
    BY DEF Call, ReadGen, Store, Activate, Verify, PublishLate, Enter, Walk,
       WalkEnd, Choose, Leave, marks
  <2>. QED
    BY <1>1, <2>1, <2>2, Fields
<1>5. /\ \A c \in Clauses : (Gone(c)' <=> Gone(c)) /\ (Existing(c)' <=> Existing(c))
      /\ Linked' = Linked
      /\ \A d : Visits(d)' = Visits(d)
  BY <1>3 DEF Gone, Existing, Linked, Visits, Closed
<1>6. \A c \in Clauses : settled[c] => where[c] # "unused" /\ erased[c] <= erased[c]
  BY <1>1, Fields DEF Stamped
<1>7. generation' \in Nat /\ generation' >= generation /\ erased' \in [Clauses -> Nat]
  BY <1>1, <1>3, Fields
<1>. QED
  BY ONLY <1>1, <1>2, <1>3, <1>4, <1>5, <1>6, <1>7, t \in Callers, CallerKept

\* A writer does not disturb a caller.
LEMMA CallerBesideWriter ==
  ASSUME IInv, NEW t \in Callers, NEW u \in Writers, Change(u) \/ Finish(u)
  PROVE  CallerSound(t)'
<1>1. Typed /\ CallerSound(t) /\ Stamped /\ Chained /\ Writing /\ Typed'
  BY TypedKept DEF IInv, CallerSound, Next
<1>2. SameCaller(t) /\ cgc' = cgc
  <2>1. pc' = pc /\ UNCHANGED local /\ cgc' = cgc
    BY DEF Change, Finish, AssertLink, EraseFlag, NextGeneration, Stamp, Register
  <2>. QED
    BY <2>1, LocalSame
<1>3. generation' \in Nat /\ generation' >= generation /\ erased' \in [Clauses -> Nat]
      /\ oldest_generation' \in Nat /\ oldest_generation' <= oldest_generation
  <2>1. generation' \in Nat /\ oldest_generation' \in Nat /\ erased' \in [Clauses -> Nat]
    BY <1>1, GenAssumption DEF Typed, TypeOK, GEN_MAX
  <2>2. generation' \in {generation, generation + 1}
    BY DEF Change, Finish, AssertLink, EraseFlag, NextGeneration, Stamp, Register
  <2>3. oldest_generation' \in {oldest_generation, 0}
    BY DEF Change, Finish, AssertLink, EraseFlag, NextGeneration, Stamp, Register, marks
  <2>. QED
    BY <1>1, <2>1, <2>2, <2>3, Fields
<1>4. \A c \in Clauses : settled[c] => where[c] # "unused"
  BY <1>1 DEF Stamped
<1>5. CASE AssertLink(u)
  <2>1. PICK c \in Clauses : Adds(c) /\ Linked' = Linked \cup {c}
    BY <1>1, <1>5, AssertEffect
  <2>2. \A d \in Clauses : d # c => where'[d] = where[d]
    BY <1>1, <2>1, Fields DEF Adds
  <2>3. where[c] = "unused" /\ where'[c] = "linked"
    BY <1>1, <2>1, Fields DEF Adds
  <2>4. settled' = settled /\ created' = created /\ erased' = erased
    BY <1>5 DEF AssertLink, stamps
  <2>5. \A d \in Clauses : (Gone(d)' => Gone(d)) /\ (Existing(d) => Existing(d)')
    BY <2>2, <2>3 DEF Gone, Existing
  <2>6. \A d \in Clauses \cup {Nil} : (d # Nil => Existing(d)) => Visits(d) \subseteq Visits(d)'
    BY <1>1, <2>1, VisitsGrow
  <2>7. \A d \in Clauses : erased[d] <= erased[d]
    BY <1>1, Fields
  <2>. QED
    BY ONLY <1>1, <1>2, <1>3, <1>4, <2>1, <2>4, <2>5, <2>6, <2>7, t \in Callers, CallerKept
<1>6. CASE EraseFlag(u) \/ NextGeneration(u) \/ Register(u) \/ Stamp(u)
  <2>1. where' = where /\ next' = next
    BY <1>6 DEF EraseFlag, NextGeneration, Register, Stamp, chain
  <2>2. /\ \A c \in Clauses : (Gone(c)' <=> Gone(c)) /\ (Existing(c)' <=> Existing(c))
        /\ Linked' = Linked
        /\ \A d : Visits(d)' = Visits(d)
    BY <2>1 DEF Gone, Existing, Linked, Visits, Closed
  <2>3. /\ \A c \in Clauses : Gone(c) => erased'[c] = erased[c]
        /\ \A c \in Linked : erased'[c] \in {erased[c], generation}
        /\ \A c \in Clauses : settled[c] =>
             settled'[c] /\ created'[c] = created[c] /\ erased'[c] <= erased[c]
    <3>1. CASE EraseFlag(u) \/ NextGeneration(u) \/ Register(u)
      <4>1. settled' = settled /\ created' = created /\ erased' = erased
        BY <3>1 DEF EraseFlag, NextGeneration, Register, stamps
      <4>. QED
        BY <1>1, <4>1, Fields
    <3>2. CASE Stamp(u)
      <4>. DEFINE c == job[u].c
      <4>1. /\ Changing(u) /\ c \in Clauses /\ c \in Linked /\ job[u].g = generation
            /\ (settled[c] <=> job[u].op = "erase") /\ erased[c] = GEN_MAX
        BY <1>1, <3>2 DEF Stamp, Changing, Writing, Linked
      <4>2. ~Gone(c)
        BY <4>1 DEF Gone, Linked
      <4>3. generation <= GEN_MAX
        BY <1>1, Fields
      <4>4. CASE job[u].op = "assert"
        <5>1. /\ created' = [created EXCEPT ![c] = job[u].g] /\ erased' = erased
              /\ settled' = [settled EXCEPT ![c] = TRUE]
          BY <3>2, <4>4 DEF Stamp
        <5>2. ~settled[c]
          BY <4>1, <4>4
        <5>. QED
          BY ONLY <1>1, <4>1, <5>1, <5>2, Fields DEF Linked
      <4>5. CASE job[u].op # "assert"
        <5>1. /\ erased' = [erased EXCEPT ![c] = job[u].g] /\ created' = created
              /\ settled' = settled
          BY <3>2, <4>5 DEF Stamp
        <5>. HIDE DEF c
        <5>2. erased'[c] = generation /\ \A d \in Clauses : d # c => erased'[d] = erased[d]
          BY ONLY <1>1, <4>1, <5>1, Fields
        <5>3. \A d \in Clauses : erased'[d] <= erased[d]
          BY <1>1, <4>1, <4>3, <5>2, Fields
        <5>. QED
          BY <4>2, <5>1, <5>2, <5>3 DEF Linked
      <4>. QED
        BY <4>4, <4>5
    <3>. QED
      BY <1>6, <3>1, <3>2
  <2>. QED
    BY ONLY <1>1, <1>2, <1>3, <1>4, <2>2, <2>3, t \in Callers, CallerKept
<1>. QED
  BY <1>5, <1>6 DEF Change, Finish

\* The collector does not disturb a caller: what it takes out is too old for the
\* caller's generation, and what it frees the caller is not at.
LEMMA CallerBesideCollector ==
  ASSUME IInv, NEW t \in Callers, Collect
  PROVE  CallerSound(t)'
<1>. USE DEF CallerSound
<1>1. /\ Typed /\ CallerSound(t) /\ Stamped /\ Chained /\ Collecting
  BY DEF IInv
<1>2. /\ SameCaller(t) /\ generation' = generation /\ created' = created
      /\ settled' = settled /\ erased' = erased
  BY CollectFrame, LocalSame
<1>3. Entering(t)'
  BY <1>1, <1>2 DEF SameCaller, Entering
<1>4. Known(t)' <=> Known(t)
  BY <1>2 DEF SameCaller, Known
<1>. SUFFICES ASSUME Known(t)
              PROVE  Sheltered(t)' /\ Holding(t)' /\ Answering(t)'
  BY <1>3, <1>4 DEF Sheltered, Holding, Answering
<1>5. \A c \in Clauses : Gone(c)' => erased[c] < gen[t]
  <2>1. CASE \A c \in Clauses : Gone(c)' <=> Gone(c)
    BY <1>1, <2>1 DEF Sheltered
  <2>2. CASE CgcSweep /\ cgc.cur \in Linked /\ Collectable(cgc.cur) /\ Removes(cgc.cur)
    <3>1. erased[cgc.cur] < gen[t]
      BY <1>1, <2>2, Fields DEF CgcSweep, Collectable, Sheltered, Linked
    <3>2. \A c \in Clauses : c # cgc.cur => (Gone(c)' <=> Gone(c))
      BY <1>1, <2>2, Fields DEF Removes, Gone, Linked
    <3>. QED
      BY <1>1, <3>1, <3>2 DEF Sheltered
  <2>. QED
    BY <2>1, <2>2, CollectEffect
<1>6. Sheltered(t)'
  <2>1. published'[t] /\ gen'[t] = gen[t] /\ gen[t] <= generation
    BY <1>1, <1>2 DEF SameCaller, Sheltered
  <2>2. \A c \in Clauses : Gone(c)' => erased'[c] < gen'[t]
    BY <1>2, <1>5, <2>1
  <2>3. /\ cgc'.pc = "clean" => cgc'.active <= gen[t]
        /\ cgc'.pc = "mark" /\ t \notin cgc'.todo =>
             cgc'.start <= gen[t] \/ oldest_generation' <= gen[t]
    <3>. USE <1>1, Fields DEF Typed
    <3>1. CASE CgcStart
      BY <3>1 DEF CgcStart
    <3>2. CASE CgcStartGen
      BY <3>2 DEF CgcStartGen
    <3>3. CASE CgcReset
      BY <3>3 DEF CgcReset
    <3>4. CASE CgcClean
      <4>1. /\ Least({cgc.start, oldest_generation}) <= cgc.start
            /\ Least({cgc.start, oldest_generation}) <= oldest_generation
            /\ Least({cgc.start, oldest_generation}) \in Nat
        BY LeastOfTwo, SMTT(30)
      <4>. QED
        BY <3>4, <4>1 DEF CgcClean, Sheltered
    <3>5. CASE CgcSweep
      BY <3>5 DEF CgcSweep, Sheltered
    <3>6. CASE CgcSwept
      BY <3>6 DEF CgcSwept
    <3>7. CASE CgcGrab
      BY <3>7 DEF CgcGrab
    <3>8. CASE CgcFree
      BY <3>8 DEF CgcFree, IdleCgc
    <3>9. ASSUME NEW u \in Callers, CgcMark(u)
          PROVE  /\ cgc'.pc = "clean" => cgc'.active <= gen[t]
                 /\ cgc'.pc = "mark" /\ t \notin cgc'.todo =>
                      cgc'.start <= gen[t] \/ oldest_generation' <= gen[t]
      <4>1. cgc'.pc = "mark" /\ cgc'.start = cgc.start /\ cgc'.todo = cgc.todo \ {u}
            /\ cgc.pc = "mark"
        BY <3>9 DEF CgcMark
      <4>2. oldest_generation' = IF published[u] THEN Least({oldest_generation, gen[u]})
                                                 ELSE oldest_generation
        BY <3>9 DEF CgcMark
      <4>3. Least({oldest_generation, gen[u]}) <= oldest_generation
            /\ Least({oldest_generation, gen[u]}) <= gen[u]
            /\ Least({oldest_generation, gen[u]}) \in Nat
        <5>1. oldest_generation \in Nat /\ gen[u] \in Nat
          BY <1>1, Fields
        <5>. QED
          BY ONLY <5>1, LeastOfTwo
      <4>4. CASE u = t
        BY <4>1, <4>2, <4>3, <4>4 DEF Sheltered
      <4>5. CASE u # t
        BY <4>1, <4>2, <4>3, <4>5 DEF Sheltered
      <4>. QED
        BY <4>4, <4>5
    <3>10. ASSUME NEW u \in Callers, CgcInUse(u)
           PROVE  cgc'.pc = "inuse"
      BY <3>10 DEF CgcInUse
    <3>. QED
      BY <3>1, <3>2, <3>3, <3>4, <3>5, <3>6, <3>7, <3>8, <3>9, <3>10 DEF Collect
  <2>. QED
    BY <1>2, <2>1, <2>2, <2>3 DEF Sheltered
<1>7. \A c \in Linked : erased[c] >= gen[t] => c \in Linked'
  <2>1. CASE CgcSweep /\ cgc.cur \in Linked /\ Collectable(cgc.cur) /\ Removes(cgc.cur)
    <3>1. erased[cgc.cur] < gen[t]
      BY <1>1, <2>1, Fields DEF CgcSweep, Collectable, Sheltered, Linked
    <3>2. \A c \in Linked : erased[c] >= gen[t] => c # cgc.cur
      BY <1>1, <3>1, Fields DEF Linked
    <3>. QED
      BY <2>1, <3>2 DEF Removes
  <2>. QED
    BY <2>1, CollectEffect
<1>8. Holding(t)'
  <2>1. Kept(t, chp[t])' /\ Kept(t, exec[t])'
    BY <1>1, <1>2, <1>7 DEF Holding, Kept, SameCaller
  <2>2. PICK c : c = cur[t] /\ c = cur'[t]
    BY <1>2 DEF SameCaller
  <2>3. CASE c = Nil
    BY <1>1, <1>2, <2>1, <2>2, <2>3 DEF Holding, SameCaller
  <2>4. CASE c # Nil
    <3>1. c \in Clauses /\ Existing(c) /\ pc[t] \in {"walk", "choose"} /\ access[t]
          /\ (cgc.pc = "inuse" /\ t \notin cgc.todo /\ ~cgc.inuse => c \in Linked)
      BY <1>1, <2>2, <2>4, Fields DEF Holding
    <3>2. Existing(c)' /\ (cgc'.pc = "inuse" /\ t \notin cgc'.todo /\ ~cgc'.inuse => c \in Linked')
      <4>. USE <1>1, Fields DEF Typed
      <4>1. CASE CgcSweep
        <5>1. cgc.pc = "clean" /\ cgc'.pc = "clean"
          BY <4>1 DEF CgcSweep
        <5>2. CASE Collectable(cgc.cur)
          <6>1. Removes(cgc.cur)
            BY <4>1, <5>2, UnlinkEffect DEF CgcSweep, Collecting
          <6>. QED
            BY <3>1, <5>1, <6>1 DEF Removes, Existing
        <5>3. CASE ~Collectable(cgc.cur)
          BY <3>1, <4>1, <5>1, <5>3 DEF CgcSweep, chain, Existing
        <5>. QED
          BY <5>2, <5>3
      <4>2. CASE CgcGrab
        BY <3>1, <4>2 DEF CgcGrab, Existing
      <4>3. CASE CgcFree
        <5>1. cgc'.pc = "idle"
          BY <4>3 DEF CgcFree, IdleCgc
        <5>2. CASE cgc.inuse
          BY <3>1, <4>3, <5>1, <5>2 DEF CgcFree, FateOfGrabbed, Existing
        <5>3. CASE ~cgc.inuse
          BY <3>1, <4>3, <5>1, <5>3 DEF CgcFree, Existing, Linked
        <5>. QED
          BY <5>2, <5>3
      <4>4. ASSUME NEW u \in Callers, CgcInUse(u)
            PROVE  Existing(c)' /\ (cgc'.pc = "inuse" /\ t \notin cgc'.todo /\ ~cgc'.inuse => c \in Linked')
        <5>1. /\ where' = where /\ cgc'.pc = "inuse" /\ cgc.pc = "inuse"
              /\ cgc'.todo = cgc.todo \ {u} /\ cgc'.inuse = (cgc.inuse \/ access[u])
          BY <4>4 DEF CgcInUse, chain
        <5>. QED
          BY <3>1, <5>1 DEF Existing, Linked
      <4>5. CASE CgcStart \/ CgcStartGen \/ CgcReset \/ CgcClean \/ CgcSwept
                 \/ \E u \in Callers : CgcMark(u)
        <5>1. chain' = chain
          BY <4>5 DEF CgcStart, CgcStartGen, CgcReset, CgcClean, CgcSwept, CgcMark
        <5>2. cgc'.pc # "inuse"
          BY <4>5 DEF CgcStart, CgcStartGen, CgcReset, CgcClean, CgcSwept, CgcMark
        <5>. QED
          BY <3>1, <5>1, <5>2 DEF chain, Existing
      <4>. QED
        BY <4>1, <4>2, <4>3, <4>4, <4>5 DEF Collect
    <3>. QED
      BY <1>1, <1>2, <2>1, <2>2, <2>4, <3>1, <3>2 DEF Holding, SameCaller, Existing
  <2>. QED
    BY <2>3, <2>4
<1>9. Answering(t)'
  <2>1. \A c \in entered[t] : settled[c] /\ c \in Clauses /\ where[c] # "unused"
    BY <1>1, Fields DEF Answering, Stamped
  <2>2. Due(t)' \subseteq Due(t)
    BY <1>2, <2>1 DEF Due, VisibleAt, SameCaller
  <2>3. \A c \in Clauses \cup {Nil}, x \in Due(t) : x \in Visits(c) => x \in Visits(c)'
    <3>1. CASE next' = next
      BY <3>1, VisitsSame
    <3>2. CASE CgcSweep /\ cgc.cur \in Linked /\ Collectable(cgc.cur) /\ Removes(cgc.cur)
      <4>1. erased[cgc.cur] < gen[t]
        BY <1>1, <3>2, Fields DEF CgcSweep, Collectable, Sheltered, Linked
      <4>2. \A x \in Due(t) : x # cgc.cur
        BY <1>1, <2>1, <4>1, Fields DEF Due, VisibleAt
      <4>3. \A c \in Clauses \cup {Nil} : Visits(c) \ {cgc.cur} \subseteq Visits(c)'
        BY <1>1, <3>2, VisitsCut
      <4>. QED
        BY <4>2, <4>3
    <3>. QED
      BY <3>1, <3>2, CollectEffect
  <2>4. PICK c \in Clauses \cup {Nil}, d \in Clauses \cup {Nil} : c = cur[t] /\ d = chp[t]
    BY <1>1, Fields
  <2>5. Visits(cur[t])' = Visits(c)' /\ Visits(chp[t])' = Visits(d)'
    BY <1>2, <2>4 DEF SameCaller, Visits
  <2>6. /\ pc[t] \in {"walk", "choose"} => Due(t) \subseteq Visits(c)
        /\ pc[t] = "answer" => Due(t) \subseteq Visits(d)
        /\ pc[t] \in {"last", "done"} => Due(t) = {}
    BY <1>1, <2>4 DEF Answering
  <2>7. /\ pc[t] \in {"walk", "choose"} => Due(t)' \subseteq Visits(c)'
        /\ pc[t] = "answer" => Due(t)' \subseteq Visits(d)'
        /\ pc[t] \in {"last", "done"} => Due(t)' = {}
    BY <2>2, <2>3, <2>6
  <2>. QED
    BY <1>2, <2>1, <2>5, <2>7 DEF Answering, SameCaller
<1>. QED
  BY <1>6, <1>8, <1>9

-----------------------------------------------------------------------------
(* A caller's own steps.                                                    *)

\* A clause that belongs to the generation of a goal, or did when it was looked
\* at, has not been taken out of the chain.
LEMMA NotGone ==
  ASSUME Typed, NEW t \in Callers, Known(t), Sheltered(t),
         NEW c \in Clauses, where[c] # "unused", erased[c] >= gen[t]
  PROVE  c \in Linked
BY Fields DEF Sheltered, Linked, Gone

\* Choosing a generation: when it is known that the database has not changed,
\* no clause of it has been taken out, nor is one about to be.
LEMMA CallerChooses ==
  ASSUME IInv, NEW t \in Callers,
         ReadGen(t) \/ Store(t) \/ Activate(t) \/ Verify(t) \/ PublishLate(t) \/ Leave(t)
  PROVE  CallerSound(t)'
<1>. USE DEF CallerSound
<1>1. /\ Typed /\ CallerSound(t) /\ Stamped /\ Collecting
  BY DEF IInv
<1>2. /\ generation' = generation /\ created' = created /\ settled' = settled
      /\ erased' = erased /\ where' = where /\ next' = next /\ cgc' = cgc
  BY CallFrame DEF Call, chain
<1>. USE <1>1, <1>2, Fields DEF local
<1>3. CASE ReadGen(t)
  <2>1. pc'[t] = "store" /\ pc[t] \in {"idle", "gen"} /\ cur' = cur /\ chp' = chp /\ exec' = exec
    BY <1>3 DEF ReadGen
  <2>. QED
    BY <2>1 DEF Entering, Known, Inside, Outside, Sheltered, Holding, Answering
<1>4. CASE Store(t)
  <2>1. pc'[t] = "activate" /\ pc[t] = "store" /\ cur' = cur /\ chp' = chp /\ exec' = exec
        /\ published'[t] = early[t] /\ early' = early
    BY <1>4 DEF Store
  <2>. QED
    BY <2>1 DEF Entering, Known, Inside, Outside, Sheltered, Holding, Answering
<1>5. CASE Activate(t)
  <2>1. pc'[t] = "verify" /\ pc[t] = "activate" /\ cur' = cur /\ chp' = chp /\ exec' = exec
        /\ published' = published /\ early' = early
    BY <1>5 DEF Activate
  <2>. QED
    BY <2>1 DEF Entering, Known, Inside, Outside, Sheltered, Holding, Answering
<1>6. CASE PublishLate(t)
  <2>1. pc'[t] = "first" /\ pc[t] = "publish" /\ cur' = cur /\ chp' = chp /\ exec' = exec
        /\ early' = early
    BY <1>6 DEF PublishLate
  <2>2. ~early[t]
    BY <2>1 DEF Entering, Outside
  <2>. QED
    BY <2>1, <2>2 DEF Entering, Known, Outside, Sheltered, Holding, Answering
<1>7. CASE Leave(t)
  <2>1. pc'[t] = "idle" /\ cur'[t] = Nil /\ chp'[t] = Nil /\ exec'[t] = Nil
    BY <1>7 DEF Leave
  <2>. QED
    BY <2>1 DEF Entering, Known, Inside, Outside, Sheltered, Holding, Answering
<1>8. CASE Verify(t)
  <2>1. /\ pc[t] = "verify" /\ cur' = cur /\ chp' = chp /\ exec' = exec /\ gen' = gen
        /\ early' = early /\ published' = published
    BY <1>8 DEF Verify
  <2>2. /\ cur'[t] = Nil /\ chp'[t] = Nil /\ exec'[t] = Nil
        /\ published[t] = early[t]
    BY <2>1 DEF Entering, Outside
  <2>3. CASE gen[t] # generation
    <3>1. pc'[t] = "gen"
      BY <1>8, <2>3 DEF Verify
    <3>. QED
      BY <2>1, <2>2, <3>1 DEF Entering, Known, Inside, Outside, Sheltered, Holding, Answering
  <2>4. CASE gen[t] = generation
    <3>1. /\ pc'[t] = IF published[t] THEN "first" ELSE "publish"
          /\ entered'[t] = VisibleAt(gen[t])
      BY <1>8, <2>4 DEF Verify
    <3>2. Entering(t)'
      BY <2>1, <2>2, <3>1 DEF Entering, Outside
    <3>3. Sheltered(t)'
      <4>1. \A c \in Clauses : Gone(c)' => erased[c] < generation
        BY DEF Stamped, Gone
      <4>. QED
        BY <2>1, <2>2, <2>4, <3>1, <4>1 DEF Sheltered, Known, Inside, Collecting
    <3>4. Holding(t)'
      BY <2>2, <3>1, NilAssumption DEF Holding, Kept
    <3>5. Answering(t)'
      BY <3>1 DEF Answering, VisibleAt
    <3>. QED
      BY <3>2, <3>3, <3>4, <3>5
  <2>. QED
    BY <2>3, <2>4
<1>. QED
  BY <1>3, <1>4, <1>5, <1>6, <1>7, <1>8

\* Walking the chain: what the goal holds on to stays, and what it passes it
\* either answers or need not answer.
LEMMA CallerWalks ==
  ASSUME IInv, NEW t \in Callers, Enter(t) \/ Walk(t) \/ WalkEnd(t) \/ Choose(t)
  PROVE  CallerSound(t)'
<1>. USE DEF CallerSound
<1>1. /\ Typed /\ CallerSound(t) /\ Stamped /\ Chained /\ Collecting
  BY DEF IInv
<1>2. /\ generation' = generation /\ created' = created /\ settled' = settled
      /\ erased' = erased /\ where' = where /\ next' = next /\ first' = first /\ cgc' = cgc
      /\ CL_ERASED' = CL_ERASED
  BY CallFrame DEF Call, chain
<1>3. /\ pc[t] \in Inside /\ pc'[t] \in {"walk", "choose", "answer", "last", "done"}
      /\ gen' = gen /\ early' = early /\ published' = published /\ entered' = entered
      /\ oldest_generation' = oldest_generation
  BY <1>1, Fields DEF Enter, Walk, WalkEnd, Choose, Inside, marks
<1>4. Entering(t)'
  BY <1>3 DEF Entering, Outside
<1>5. Known(t)' <=> Known(t)
  BY <1>3 DEF Known, Inside
<1>6. Sheltered(t)'
  BY <1>1, <1>2, <1>3, <1>5 DEF Sheltered, Gone
<1>. SUFFICES ASSUME Known(t)
              PROVE  Holding(t)' /\ Answering(t)'
  BY <1>4, <1>5, <1>6 DEF Holding, Answering
<1>7. /\ \A c : Visits(c)' = Visits(c)
      /\ Linked' = Linked
      /\ \A c \in Clauses : Existing(c)' <=> Existing(c)
      /\ \A g : VisibleAt(g)' = VisibleAt(g)
  BY <1>2 DEF Visits, Closed, Linked, Existing, VisibleAt
<1>8. \A c : Kept(t, c) => Kept(t, c)'
  BY <1>2, <1>3, <1>7 DEF Kept
<1>9. ASSUME NEW c, NEW d, NEW e, c = cur'[t], d = chp'[t], e = exec'[t],
             Kept(t, d), Kept(t, e),
             IF pc'[t] \in {"walk", "choose"} THEN access'[t] ELSE c = Nil,
             c # Nil => c \in Clauses /\ Existing(c),
             c # Nil /\ cgc.pc = "inuse" /\ t \notin cgc.todo /\ ~cgc.inuse => c \in Linked,
             pc'[t] \in {"walk", "choose"} => Due(t)' \subseteq Visits(c),
             pc'[t] = "answer" => Due(t)' \subseteq Visits(d),
             pc'[t] \in {"last", "done"} => Due(t)' = {}
      PROVE  Holding(t)' /\ Answering(t)'
  <2>1. Kept(t, d)' /\ Kept(t, e)'
    BY <1>8, <1>9
  <2>2. Kept(t, chp[t])' /\ Kept(t, exec[t])'
    BY <1>9, <2>1 DEF Kept
  <2>3. Existing(c)' => Existing(cur[t])'
    BY <1>9 DEF Existing
  <2>4. Holding(t)'
    BY <1>2, <1>7, <1>9, <2>2, <2>3 DEF Holding
  <2>5. Visits(cur[t])' = Visits(c) /\ Visits(chp[t])' = Visits(d)
    <3>1. Visits(cur[t])' = Visits(c)' /\ Visits(chp[t])' = Visits(d)'
      BY <1>9 DEF Visits
    <3>. QED
      BY <1>7, <3>1
  <2>6. \A x \in entered'[t] : settled'[x]
    BY <1>1, <1>2, <1>3 DEF Answering
  <2>7. Answering(t)'
    BY <1>9, <2>5, <2>6 DEF Answering
  <2>. QED
    BY <2>4, <2>7
<1>10. Due(t)' = (entered[t] \cap VisibleAt(gen[t])) \ answers'[t]
  BY <1>2, <1>3 DEF Due, VisibleAt
<1>11. /\ Kept(t, chp[t]) /\ Kept(t, exec[t]) /\ Kept(t, Nil)
       /\ \A x \in entered[t] : settled[x] /\ x \in Clauses
  BY <1>1, Fields DEF Holding, Answering, Kept
<1>12. ASSUME NEW c \in Clauses, Existing(c), ~(settled[c] /\ erased[c] <= gen[t])
       PROVE  Kept(t, c)
  <2>1. erased[c] >= gen[t]
    BY <1>1, <1>12, Fields DEF Stamped
  <2>. QED
    BY <1>1, <1>12, <2>1, NotGone DEF Kept, Existing
<1>13. CASE Enter(t)
  <2>1. /\ pc'[t] = "walk" /\ access'[t] /\ exec'[t] = Nil /\ chp' = chp /\ answers' = answers
        /\ \/ pc[t] = "first" /\ cur'[t] = first
           \/ pc[t] = "answer" /\ chp[t] # Nil /\ cur'[t] = chp[t]
    BY <1>1, <1>13, Fields DEF Enter, RetryAt
  <2>2. PICK c \in Clauses \cup {Nil} : c = cur'[t]
    BY <1>1, <2>1, Fields
  <2>3. c # Nil => c \in Linked
    BY <1>1, <1>11, <2>1, <2>2, LinkedClosed DEF Chained, Kept
  <2>4. Due(t)' \subseteq Visits(c)
    <3>1. CASE pc[t] = "first"
      <4>1. \A x \in Clauses : settled[x] => where[x] # "unused"
        BY <1>1 DEF Stamped
      <4>2. \A x \in Due(t)' : x \in Clauses /\ where[x] # "unused" /\ erased[x] >= gen[t]
        BY <1>1, <1>10, <1>11, <4>1, Fields DEF VisibleAt
      <4>3. \A x \in Due(t)' : x \in Linked
        BY <1>1, <4>2, NotGone
      <4>. QED
        BY <1>1, <2>1, <2>2, <3>1, <4>3 DEF Chained, ChainSound
    <3>2. CASE pc[t] = "answer"
      BY <1>1, <1>10, <2>1, <2>2, <3>2 DEF Answering, Due
    <3>. QED
      BY <2>1, <3>1, <3>2
  <2>5. PICK d : d = chp'[t]
    OBVIOUS
  <2>6. Kept(t, d)
    BY <1>11, <2>1, <2>5
  <2>7. c # Nil => c \in Clauses /\ Existing(c)
    BY <2>2, <2>3 DEF Linked, Existing
  <2>. QED
    BY <1>9, <1>11, <2>1, <2>2, <2>3, <2>4, <2>5, <2>6, <2>7
<1>14. CASE Walk(t)
  <2>1. PICK c \in Clauses : c = cur[t] /\ c # Nil /\ Existing(c)
    BY <1>1, <1>14, Fields DEF Walk, Holding
  <2>2. PICK n \in Clauses \cup {Nil} : n = next[c]
    BY <1>1, Fields
  <2>3. PICK v \in SeesVisible(c, gen[t]) :
          /\ IF v THEN /\ exec' = [exec EXCEPT ![t] = cur[t]]
                       /\ answers' = [answers EXCEPT ![t] = answers[t] \cup {cur[t]}]
                       /\ pc' = [pc EXCEPT ![t] = "choose"]
                  ELSE UNCHANGED <<exec, answers, pc>>
    BY <1>14, <2>1 DEF Walk
  <2>4. cur'[t] = n /\ chp' = chp /\ access' = access /\ pc[t] = "walk" /\ access[t]
    BY <1>1, <1>14, <2>1, <2>2, Fields DEF Walk, Holding
  <2>5. n # Nil => n \in Clauses /\ Existing(n)
    BY <1>1, <2>1, <2>2 DEF Chained
  <2>6. n # Nil /\ cgc.pc = "inuse" /\ t \notin cgc.todo /\ ~cgc.inuse => n \in Linked
    BY <1>1, <2>1, <2>2, LinkedClosed DEF Chained, Holding
  <2>7. c \in Visits(c) /\ Visits(c) \subseteq {c} \cup Visits(n) /\ Due(t) \subseteq Visits(c)
    BY <1>1, <2>1, <2>2, <2>4, VisitsStep DEF Answering
  <2>8. PICK d, e : d = chp[t] /\ e = exec'[t]
    OBVIOUS
  <2>9. CASE v
    <3>1. exec'[t] = c /\ answers'[t] = answers[t] \cup {c} /\ pc'[t] = "choose"
      BY <1>1, <2>1, <2>3, <2>9, Fields
    <3>2. ~(settled[c] /\ erased[c] <= gen[t])
      <4>1. settled[c] => (v <=> created[c] <= gen[t] /\ gen[t] < erased[c])
        BY <2>3 DEF SeesVisible
      <4>2. settled[c] => gen[t] < erased[c]
        BY <2>9, <4>1
      <4>. QED
        BY <1>1, <4>2, Fields
    <3>3. Kept(t, e) /\ Kept(t, d)
      BY <1>11, <1>12, <2>1, <2>8, <3>1, <3>2
    <3>4. Due(t)' \subseteq Visits(n)
      BY <1>10, <2>7, <3>1 DEF Due
    <3>. QED
      BY <1>9, <2>4, <2>5, <2>6, <2>8, <3>1, <3>3, <3>4
  <2>10. CASE ~v
    <3>1. exec' = exec /\ answers' = answers /\ pc' = pc
      BY <2>3, <2>10
    <3>2. c \notin Due(t)
      BY <1>11, <2>3, <2>10 DEF Due, VisibleAt, SeesVisible
    <3>3. Kept(t, e) /\ Kept(t, d)
      BY <1>11, <2>8, <3>1
    <3>4. Due(t)' \subseteq Visits(n)
      BY <1>10, <2>7, <3>1, <3>2 DEF Due
    <3>. QED
      BY <1>9, <2>4, <2>5, <2>6, <2>8, <3>1, <3>3, <3>4
  <2>. QED
    BY <2>9, <2>10
<1>15. CASE WalkEnd(t)
  <2>1. /\ pc[t] = "walk" /\ cur[t] = Nil /\ cur' = cur /\ chp'[t] = Nil /\ exec' = exec
        /\ answers' = answers /\ pc'[t] = "done"
    BY <1>1, <1>15, Fields DEF WalkEnd
  <2>2. Due(t) = {}
    BY <1>1, <2>1, VisitsNil DEF Answering
  <2>3. Due(t)' = {}
    BY <1>10, <2>1, <2>2 DEF Due
  <2>4. PICK e : e = exec[t]
    OBVIOUS
  <2>. QED
    BY <1>9, <1>11, <2>1, <2>3, <2>4
<1>16. CASE Choose(t)
  <2>1. /\ pc[t] = "choose" /\ exec' = exec /\ answers' = answers /\ access[t]
        /\ Due(t)' = Due(t) /\ Due(t) \subseteq Visits(cur[t])
    BY <1>1, <1>10, <1>16 DEF Choose, Due, Answering, Holding
  <2>2. PICK e : e = exec[t]
    OBVIOUS
  <2>3. CASE cur[t] = Nil
    <3>1. cur'[t] = Nil /\ chp'[t] = Nil /\ pc'[t] = "last"
      BY <1>1, <1>16, <2>3, Fields DEF Choose
    <3>2. Due(t)' = {}
      BY <2>1, <2>3, VisitsNil
    <3>. QED
      BY <1>9, <1>11, <2>1, <2>2, <3>1, <3>2
  <2>4. CASE cur[t] # Nil
    <3>1. PICK c \in Clauses : c = cur[t] /\ c # Nil /\ Existing(c)
      BY <1>1, <2>4, Fields DEF Holding
    <3>2. PICK n \in Clauses \cup {Nil} : n = next[c]
      BY <1>1, Fields
    <3>3. PICK b \in SeesErased(c, gen[t]) :
            IF b THEN /\ cur' = [cur EXCEPT ![t] = next[cur[t]]]
                      /\ UNCHANGED <<chp, access, pc>>
                 ELSE /\ chp' = [chp EXCEPT ![t] = cur[t]] /\ cur' = [cur EXCEPT ![t] = Nil]
                      /\ pc' = [pc EXCEPT ![t] = IF cur[t] = Nil THEN "last" ELSE "answer"]
      BY <1>16, <2>4, <3>1 DEF Choose
    <3>4. CASE b
      <4>1. cur'[t] = n /\ chp' = chp /\ access' = access /\ pc' = pc
        BY <1>1, <3>1, <3>2, <3>3, <3>4, Fields
      <4>2. n # Nil => n \in Clauses /\ Existing(n)
        BY <1>1, <3>1, <3>2 DEF Chained
      <4>3. n # Nil /\ cgc.pc = "inuse" /\ t \notin cgc.todo /\ ~cgc.inuse => n \in Linked
        BY <1>1, <3>1, <3>2, LinkedClosed DEF Chained, Holding
      <4>4. c \notin Due(t)
        <5>1. settled[c] => erased[c] <= gen[t]
          BY <3>3, <3>4 DEF SeesErased
        <5>. QED
          BY <1>1, <1>11, <3>1, <5>1, Fields DEF Due, VisibleAt
      <4>5. Due(t)' \subseteq Visits(n)
        BY <2>1, <3>1, <3>2, <4>4, VisitsStep
      <4>6. PICK d : d = chp[t]
        OBVIOUS
      <4>. QED
        BY <1>9, <1>11, <2>1, <2>2, <4>1, <4>2, <4>3, <4>5, <4>6
    <3>5. CASE ~b
      <4>1. cur'[t] = Nil /\ chp'[t] = c /\ pc'[t] = "answer"
        BY <1>1, <3>1, <3>3, <3>5, Fields
      <4>2. ~(settled[c] /\ erased[c] <= gen[t])
        BY <3>3, <3>5 DEF SeesErased
      <4>3. Kept(t, c)
        BY <1>12, <3>1, <4>2
      <4>. QED
        BY <1>9, <1>11, <2>1, <2>2, <3>1, <4>1, <4>3
    <3>. QED
      BY <3>4, <3>5
  <2>. QED
    BY <2>3, <2>4
<1>. QED
  BY <1>13, <1>14, <1>15, <1>16

-----------------------------------------------------------------------------
(* No clause is given twice.                                                *)

\* Following the links no clause leads back to itself, also out of the chain.
NoCycle == \A c \in Clauses : Existing(c) => c \notin Visits(next[c])

\* The clauses such a goal has answered are behind it.
Ahead(t) ==
  /\ pc[t] \in Outside \cup {"first"} => answers[t] = {}
  /\ Known(t) =>
       /\ \A c \in answers[t] : where[c] # "unused"
       /\ pc[t] \in {"walk", "choose"} => answers[t] \cap Visits(cur[t]) = {}
       /\ pc[t] = "answer" => answers[t] \cap Visits(chp[t]) = {}

OnceInv == NoCycle /\ \A t \in Callers : Ahead(t)

\* Since no two clauses of the chain have the same successor and none precedes
\* the first, a cycle would be a part of the chain that cannot be reached.
LEMMA ChainNoCycle ==
  ASSUME Typed, Chained, NEW c \in Linked
  PROVE  c \notin Visits(next[c])
<1>. DEFINE V == Visits(next[c])
<1>1. SUFFICES ASSUME c \in V PROVE FALSE
  OBVIOUS
<1>2. /\ Closed(Linked) /\ first \in Linked \cup {Nil} /\ Linked \in SUBSET Clauses
      /\ \A d \in Linked : next[d] \in Linked \cup {Nil}
  BY LinkedClosed DEF Chained, Linked
<1>3. next[c] \in Linked
  <2>1. next[c] # Nil
    BY <1>1, VisitsNil
  <2>. QED
    BY <1>2, <2>1
<1>4. V \in SUBSET Clauses /\ Closed(V) /\ V \subseteq Linked /\ next[c] \in V
  <2>1. V \in SUBSET Clauses /\ Closed(V)
    BY VisitsClosed, Fields
  <2>2. V \subseteq Linked
    BY <1>2, <1>3, VisitsWithin
  <2>3. next[c] \in V
    BY <1>2, <1>3, VisitsStep
  <2>. QED
    BY <2>1, <2>2, <2>3
<1>5. ASSUME NEW y \in V
      PROVE  \E e \in V : next[e] = y
  <2>1. CASE y = next[c]
    BY <1>1, <2>1
  <2>2. CASE y # next[c]
    <3>1. SUFFICES ASSUME \A e \in V : next[e] # y PROVE FALSE
      OBVIOUS
    <3>2. Closed(V \ {y}) /\ next[c] \in V \ {y} /\ V \ {y} \in SUBSET Clauses
      BY <1>4, <2>2, <3>1 DEF Closed
    <3>3. Visits(next[c]) \subseteq V \ {y}
      <4>. HIDE DEF V
      <4>. QED
        BY <3>2, VisitsWithin
    <3>. QED
      BY <3>3
  <2>. QED
    BY <2>1, <2>2
<1>6. first \notin V
  <2>1. SUFFICES ASSUME first \in V PROVE FALSE
    OBVIOUS
  <2>2. PICK e \in V : next[e] = first
    BY <1>5, <2>1
  <2>3. e \in Linked /\ first # Nil
    BY <1>2, <1>4, <2>1, <2>2, NilAssumption
  <2>. QED
    BY <2>2, <2>3 DEF Chained
<1>7. Closed(Linked \ V)
  <2>. SUFFICES ASSUME NEW d \in Linked \ V, next[d] # Nil
                PROVE  next[d] \in Linked \ V
    BY DEF Closed
  <2>1. next[d] \in Linked
    BY <1>2
  <2>2. SUFFICES ASSUME next[d] \in V PROVE FALSE
    BY <2>1
  <2>3. PICK e \in V : next[e] = next[d]
    BY <1>5, <2>2
  <2>4. e \in Linked
    BY <1>4
  <2>. QED
    BY <2>3, <2>4 DEF Chained
<1>8. first \in (Linked \ V) \cup {Nil} /\ Linked \ V \in SUBSET Clauses
  BY <1>2, <1>6
<1>9. Linked \subseteq Linked \ V
  <2>. HIDE DEF V
  <2>. QED
    BY <1>7, <1>8, VisitsWithin DEF Chained, ChainSound
<1>. QED
  BY <1>1, <1>9

\* A clause is added where it is visited from nowhere, or last of all.
LEMMA VisitsAdd ==
  ASSUME Typed, Stamped, Chained, NEW c \in Clauses, Adds(c),
         NEW d \in Clauses \cup {Nil}, d # Nil => Existing(d)
  PROVE  Visits(d)' \subseteq Visits(d) \cup {c}
<1>. DEFINE E == {e \in Clauses : Existing(e)}
<1>1. PICK V \in SUBSET Clauses : V = Visits(d)
  BY VisitsClosed, Fields
<1>2. d \in V \cup {Nil} /\ \A e \in V : next[e] \in V \cup {Nil}
  BY <1>1, VisitsClosed, VisitsStep, Fields DEF Closed
<1>3. c \notin V
  <2>1. Closed(E) /\ d \in E \cup {Nil} /\ E \in SUBSET Clauses
    BY Fields DEF Closed, Chained
  <2>2. V \subseteq E
    <3>. HIDE DEF E
    <3>. QED
      BY <1>1, <2>1, VisitsWithin
  <2>3. c \notin E
    BY DEF Adds, Existing
  <2>. QED
    BY <2>2, <2>3
<1>4. next[c] = Nil /\ last # c /\ c # Nil
  <2>1. next[c] = Nil /\ c # Nil
    BY NilAssumption DEF Stamped, Adds
  <2>2. last \in Linked \cup {Nil}
    BY DEF Chained, ChainSound
  <2>. QED
    BY <2>1, <2>2 DEF Linked, Adds
<1>5. \/ \A e \in V : next'[e] \in V \cup {Nil}
      \/ \A e \in V \cup {c} : next'[e] \in V \cup {c, Nil}
  <2>1. CASE next' = next \/ next' = [next EXCEPT ![c] = first]
    BY <1>2, <1>3, <2>1, Fields
  <2>2. CASE next' = [next EXCEPT ![last] = c]
    <3>1. \A e \in V \cup {c} : next'[e] = next[e] \/ next'[e] = c
      BY <2>2, Fields
    <3>. QED
      BY <1>2, <1>4, <3>1
  <2>. QED
    BY <2>1, <2>2 DEF Adds
<1>6. \E S \in SUBSET Clauses : /\ d \in S \cup {Nil} /\ S \subseteq V \cup {c}
                                /\ \A e \in S : next'[e] \in S \cup {Nil}
  <2>1. V \cup {c} \in SUBSET Clauses
    OBVIOUS
  <2>. QED
    BY <1>2, <1>5, <2>1
<1>. QED
  BY <1>1, <1>6 DEF Visits, Closed

\* Nothing more is visited when a clause is taken out.
LEMMA VisitsLess ==
  ASSUME Typed, NEW x \in Linked, Removes(x), NEW d \in Clauses \cup {Nil}
  PROVE  Visits(d)' \subseteq Visits(d)
<1>1. PICK V \in SUBSET Clauses : V = Visits(d)
  BY VisitsClosed, Fields
<1>2. d \in V \cup {Nil} /\ \A e \in V : next[e] \in V \cup {Nil}
  BY <1>1, VisitsClosed, VisitsStep, Fields DEF Closed
<1>3. \A e \in V : next'[e] \in V \cup {Nil}
  <2>1. CASE next' = next
    BY <1>2, <2>1
  <2>2. ASSUME NEW p \in Linked, next[p] = x, next' = [next EXCEPT ![p] = next[x]]
        PROVE  \A e \in V : next'[e] \in V \cup {Nil}
    <3>1. x # Nil
      BY NilAssumption DEF Linked
    <3>. QED
      BY <1>2, <2>2, <3>1, Fields DEF Linked
  <2>. QED
    BY <2>1, <2>2 DEF Removes
<1>. QED
  BY <1>1, <1>2, <1>3 DEF Visits, Closed

\* What a step may add to what is visited from a clause: a clause that is new.
New(N) ==
  /\ \A c \in N : where[c] = "unused"
  /\ \A c \in Clauses : where[c] # "unused" => where'[c] # "unused"
  /\ \A d \in Clauses \cup {Nil} :
       (d # Nil => Existing(d)) => Visits(d)' \subseteq Visits(d) \cup N

\* Adding a clause makes no cycle.
LEMMA NoCycleAdd ==
  ASSUME IInv, NoCycle, NEW c \in Clauses, Adds(c)
  PROVE  NoCycle' /\ New({c})
<1>1. Typed /\ Stamped /\ Chained
  BY DEF IInv
<1>2. /\ where[c] = "unused" /\ where'[c] = "linked" /\ next[c] = Nil
      /\ \A d \in Clauses : d # c => where'[d] = where[d]
  BY <1>1, Fields DEF Adds, Stamped
<1>3. last # c /\ c # Nil /\ c \notin Linked
  <2>1. last \in Linked \cup {Nil}
    BY <1>1 DEF Chained, ChainSound
  <2>. QED
    BY <1>2, <2>1, NilAssumption DEF Linked
<1>4. New({c})
  BY <1>1, <1>2, VisitsAdd DEF New
<1>5. ASSUME NEW d \in Clauses, Existing(d)'
      PROVE  d \notin Visits(next[d])'
  <2>1. PICK e \in Clauses \cup {Nil} : e = next'[d]
    <3>1. next'[d] \in {next[d], c, first}
      BY <1>1, Fields DEF Adds
    <3>. QED
      BY <1>1, <3>1, Fields
  <2>2. SUFFICES d \notin Visits(e)'
    BY <2>1 DEF Visits
  <2>3. CASE e = Nil
    <3>1. Visits(e)' = {}
      BY <2>3, VisitsNil DEF Visits, Closed
    <3>. QED
      BY <3>1
  <2>4. CASE e # Nil /\ d # c /\ e = next[d]
    <3>1. Existing(d)
      BY <1>2, <1>5, <2>4 DEF Existing
    <3>2. Existing(e)
      BY <1>1, <2>4, <3>1 DEF Chained
    <3>3. d \notin Visits(e)
      BY <2>4, <3>1 DEF NoCycle
    <3>. QED
      BY <1>4, <2>4, <3>2, <3>3 DEF New
  <2>5. CASE d # c /\ e = c
    <3>1. next'[c] = Nil
      <4>1. next[d] # c
        <5>1. Existing(d)
          BY <1>2, <1>5, <2>5 DEF Existing
        <5>2. next[d] = Nil \/ Existing(next[d])
          BY <1>1, <5>1 DEF Chained
        <5>. QED
          BY <1>2, <1>3, <5>2 DEF Existing
      <4>. QED
        BY <1>1, <1>2, <1>3, <2>1, <2>5, <4>1, Fields DEF Adds
    <3>2. {c} \in SUBSET Clauses /\ \A x \in {c} : next'[x] \in {c} \cup {Nil}
      BY <3>1
    <3>3. Visits(e)' \subseteq {c}
      BY <2>5, <3>2 DEF Visits, Closed
    <3>. QED
      BY <2>5, <3>3
  <2>6. CASE d = c /\ e # Nil
    <3>1. e = first /\ next' = [next EXCEPT ![c] = first]
      BY <1>1, <1>2, <1>3, <2>1, <2>6, Fields DEF Adds
    <3>2. \A x \in Linked : next'[x] \in Linked \cup {Nil}
      BY <1>1, <1>3, <3>1, LinkedClosed, Fields DEF Chained, Linked
    <3>3. e \in Linked
      BY <1>1, <2>6, <3>1, LinkedClosed DEF Chained
    <3>4. PICK L \in SUBSET Clauses : L = Linked
      BY DEF Linked
    <3>5. Visits(e)' \subseteq L
      BY <3>2, <3>3, <3>4 DEF Visits, Closed
    <3>. QED
      BY <1>3, <2>6, <3>4, <3>5
  <2>7. e = Nil \/ d = c \/ e = c \/ e = next[d]
    BY <1>1, <2>1, Fields DEF Adds
  <2>. QED
    BY <2>3, <2>4, <2>5, <2>6, <2>7
<1>. QED
  BY <1>4, <1>5 DEF NoCycle

\* Taking one out makes none, and one that is out keeps its way back.
LEMMA NoCycleRemove ==
  ASSUME IInv, NoCycle, NEW x \in Linked, Removes(x)
  PROVE  NoCycle' /\ New({})
<1>1. Typed /\ Chained /\ x \in Clauses /\ x # Nil
  BY NilAssumption DEF IInv, Linked
<1>2. /\ where[x] = "linked" /\ where'[x] = "lingering"
      /\ \A d \in Clauses : d # x => where'[d] = where[d]
  BY <1>1, Fields DEF Removes, Linked
<1>3. New({})
  BY <1>1, <1>2, VisitsLess DEF New
<1>4. ASSUME NEW d \in Clauses, Existing(d)'
      PROVE  d \notin Visits(next[d])'
  <2>1. Existing(d) /\ d \notin Visits(next[d])
    BY <1>2, <1>4 DEF Existing, NoCycle
  <2>2. next'[d] = next[d] \/ (next[d] = x /\ next'[d] = next[x])
    BY <1>1, Fields DEF Removes
  <2>3. PICK e \in Clauses \cup {Nil} : e = next'[d]
    BY <1>1, <2>2, Fields
  <2>4. d \notin Visits(e)
    <3>1. CASE next'[d] = next[d]
      BY <2>1, <2>3, <3>1
    <3>2. CASE next[d] = x /\ next'[d] = next[x]
      <4>1. Visits(x) \in SUBSET Clauses /\ Closed(Visits(x)) /\ x \in Visits(x)
        BY <1>1, VisitsClosed, VisitsStep, Fields
      <4>2. Visits(e) \subseteq Visits(x)
        BY <2>3, <3>2, <4>1, VisitsWithin DEF Closed
      <4>. QED
        BY <2>1, <3>2, <4>2
    <3>. QED
      BY <2>2, <3>1, <3>2
  <2>5. Visits(e)' \subseteq Visits(e)
    BY <1>1, VisitsLess
  <2>. QED
    BY <2>3, <2>4, <2>5 DEF Visits
<1>. QED
  BY <1>3, <1>4 DEF NoCycle

\* Memory that has been freed is not used again.
LEMMA FreedStays ==
  ASSUME IInv, Collect, NEW c \in Clauses, where[c] = "freed"
  PROVE  where'[c] = "freed"
<1>1. Typed
  BY DEF IInv
<1>2. CASE where' = where
  BY <1>2
<1>3. CASE CgcSweep /\ Collectable(cgc.cur)
  BY <1>1, <1>3, Fields DEF CgcSweep, Unlink, IInv, Collecting, Linked
<1>4. CASE CgcGrab \/ CgcFree
  BY <1>4 DEF CgcGrab, CgcFree
<1>. QED
  BY <1>2, <1>3, <1>4 DEF Collect, CgcStart, CgcStartGen, CgcReset, CgcClean, CgcSweep,
     CgcSwept, CgcMark, CgcInUse, chain

\* No step makes a cycle, and what it adds is a clause that is new.
LEMMA ChainStep ==
  ASSUME IInv, NoCycle, [Next]_vars
  PROVE  NoCycle' /\ \E N \in SUBSET Clauses : New(N)
<1>1. ASSUME next' = next, \A c \in Clauses : Existing(c)' => Existing(c),
             \A c \in Clauses : where[c] # "unused" => where'[c] # "unused"
      PROVE  NoCycle' /\ \E N \in SUBSET Clauses : New(N)
  <2>1. \A d : Visits(d)' = Visits(d)
    BY <1>1 DEF Visits, Closed
  <2>2. New({})
    BY <1>1, <2>1 DEF New
  <2>3. ASSUME NEW c \in Clauses, Existing(c)'
        PROVE  c \notin Visits(next[c])'
    <3>1. PICK e : e = next[c]
      OBVIOUS
    <3>2. Visits(next[c])' = Visits(e)'
      BY <1>1, <3>1 DEF Visits
    <3>. QED
      BY <1>1, <2>1, <2>3, <3>1, <3>2 DEF NoCycle
  <2>. QED
    BY <2>2, <2>3 DEF NoCycle
<1>2. ASSUME where' = where, next' = next
      PROVE  NoCycle' /\ \E N \in SUBSET Clauses : New(N)
  BY <1>1, <1>2 DEF Existing
<1>3. CASE UNCHANGED vars
  BY <1>2, <1>3 DEF vars, chain
<1>4. ASSUME NEW t \in Callers, Call(t)
      PROVE  NoCycle' /\ \E N \in SUBSET Clauses : New(N)
  BY <1>2, <1>4, CallFrame DEF chain
<1>5. ASSUME NEW t \in Writers, Change(t) \/ Finish(t)
      PROVE  NoCycle' /\ \E N \in SUBSET Clauses : New(N)
  <2>1. CASE AssertLink(t)
    <3>1. PICK c \in Clauses : Adds(c)
      BY <2>1, AssertEffect DEF IInv
    <3>. QED
      BY <3>1, NoCycleAdd
  <2>2. CASE EraseFlag(t) \/ Finish(t)
    BY <1>2, <2>2 DEF EraseFlag, Finish, NextGeneration, Stamp, Register, chain
  <2>. QED
    BY <1>5, <2>1, <2>2 DEF Change
<1>6. CASE Collect
  <2>1. CASE CgcSweep /\ cgc.cur \in Linked /\ Removes(cgc.cur)
    BY <2>1, NoCycleRemove
  <2>2. CASE /\ next' = next /\ Linked' = Linked
             /\ \A c \in Clauses : /\ where'[c] = "unused" <=> where[c] = "unused"
                                   /\ Gone(c)' <=> Gone(c)
    <3>1. \A c \in Clauses : Existing(c)' => Existing(c)
      BY <1>6, <2>2, FreedStays DEF Existing, Linked, Gone
    <3>. QED
      BY <1>1, <2>2, <3>1
  <2>. QED
    BY <1>6, <2>1, <2>2, CollectEffect
<1>. QED
  BY <1>3, <1>4, <1>5, <1>6 DEF Next

\* While others make a step, what a goal has answered stays behind it.
LEMMA AheadKept ==
  ASSUME IInv, NEW t \in Callers, Ahead(t), SameCaller(t), NEW N \in SUBSET Clauses, New(N)
  PROVE  Ahead(t)'
<1>1. Typed /\ Holding(t)
  BY DEF IInv
<1>2. Known(t)' <=> Known(t)
  BY DEF SameCaller, Known
<1>3. CASE ~Known(t)
  BY <1>2, <1>3 DEF Ahead, SameCaller
<1>4. CASE Known(t)
  <2>1. PICK c, d : c = cur[t] /\ d = chp[t]
    OBVIOUS
  <2>2. /\ c \in Clauses \cup {Nil} /\ d \in Clauses \cup {Nil}
        /\ c # Nil => Existing(c)
        /\ d # Nil => Existing(d)
    BY <1>1, <1>4, <2>1, Fields DEF Holding, Kept, Linked, Existing
  <2>3. Visits(c)' \subseteq Visits(c) \cup N /\ Visits(d)' \subseteq Visits(d) \cup N
    BY <2>2 DEF New
  <2>4. /\ \A x \in answers[t] : x \in Clauses /\ x \notin N /\ where'[x] # "unused"
    BY <1>1, <1>4, Fields DEF Ahead, New
  <2>5. Visits(cur[t])' = Visits(c)' /\ Visits(chp[t])' = Visits(d)'
    BY <2>1 DEF SameCaller, Visits
  <2>6. /\ pc[t] \in {"walk", "choose"} => answers[t] \cap Visits(c) = {}
        /\ pc[t] = "answer" => answers[t] \cap Visits(d) = {}
        /\ pc[t] \in Outside \cup {"first"} => answers[t] = {}
    BY <1>4, <2>1 DEF Ahead
  <2>7. /\ pc[t] \in {"walk", "choose"} => answers[t] \cap Visits(c)' = {}
        /\ pc[t] = "answer" => answers[t] \cap Visits(d)' = {}
    BY <2>3, <2>4, <2>6
  <2>. QED
    BY <2>4, <2>5, <2>6, <2>7 DEF Ahead, SameCaller
<1>. QED
  BY <1>3, <1>4

\* What is visited from the next clause is visited, and is not the clause itself.
LEMMA VisitsNext ==
  ASSUME Typed, NoCycle, NEW c \in Clauses, Existing(c)
  PROVE  Visits(next[c]) \subseteq Visits(c) \ {c}
<1>1. Visits(c) \in SUBSET Clauses /\ Closed(Visits(c)) /\ c \in Visits(c)
  BY VisitsClosed, VisitsStep, Fields
<1>2. Visits(next[c]) \subseteq Visits(c)
  BY <1>1, VisitsWithin DEF Closed
<1>. QED
  BY <1>2 DEF NoCycle

\* A goal's own steps pass each clause once: the one it answers is no longer
\* ahead, and a retry goes on where the choice point was set.
LEMMA AheadOwn ==
  ASSUME IInv, NoCycle, NEW t \in Callers, Ahead(t), Call(t)
  PROVE  Ahead(t)'
<1>1. Typed /\ Holding(t) /\ Entering(t)
  BY DEF IInv
<1>2. where' = where /\ next' = next
  BY CallFrame DEF chain
<1>3. \A d : Visits(d)' = Visits(d)
  BY <1>2 DEF Visits, Closed
<1>4. CASE ReadGen(t) \/ Store(t) \/ Activate(t) \/ Verify(t) \/ PublishLate(t)
  <2>1. pc[t] \in Outside /\ answers' = answers /\ pc'[t] \in Outside \cup {"first"}
    BY <1>1, <1>4, Fields DEF ReadGen, Store, Activate, Verify, PublishLate, Outside, local
  <2>2. answers'[t] = {}
    BY <2>1 DEF Ahead
  <2>. QED
    BY <2>2, <2>1 DEF Ahead, Outside
<1>5. CASE Leave(t)
  <2>1. answers'[t] = {}
    BY <1>1, <1>5, Fields DEF Leave
  <2>. QED
    BY <2>1 DEF Ahead
<1>6. CASE Enter(t) \/ Walk(t) \/ WalkEnd(t) \/ Choose(t)
  <2>1. /\ pc[t] \in Inside /\ pc'[t] \in {"walk", "choose", "answer", "last", "done"}
        /\ early' = early
    BY <1>1, <1>6, Fields DEF Enter, Walk, WalkEnd, Choose, Inside
  <2>2. SUFFICES ASSUME Known(t)
                 PROVE  /\ \A c \in answers'[t] : where[c] # "unused"
                        /\ pc'[t] \in {"walk", "choose"} => answers'[t] \cap Visits(cur[t])' = {}
                        /\ pc'[t] = "answer" => answers'[t] \cap Visits(chp[t])' = {}
    BY <1>2, <2>1 DEF Ahead, Known, Outside
  <2>3. PICK c, d, e \in Clauses \cup {Nil} : c = cur[t] /\ d = chp[t] /\ e = cur'[t]
    BY <1>1, TypedCall, Fields DEF Typed
  <2>4. \A x \in answers[t] : where[x] # "unused"
    BY <2>2 DEF Ahead
  <2>5. Visits(cur[t])' = Visits(e)
    <3>1. Visits(cur[t])' = Visits(e)'
      BY <2>3 DEF Visits
    <3>. QED
      BY <1>3, <3>1
  <2>6. CASE Enter(t)
    <3>1. /\ answers' = answers /\ pc'[t] = "walk"
          /\ pc[t] = "first" \/ (pc[t] = "answer" /\ e = d)
      BY <1>1, <2>3, <2>6, Fields DEF Enter, RetryAt
    <3>2. answers[t] \cap Visits(e) = {}
      BY <2>2, <2>3, <3>1 DEF Ahead
    <3>. QED
      BY <2>4, <2>5, <3>1, <3>2
  <2>7. CASE Walk(t)
    <3>1. /\ c \in Clauses /\ c # Nil /\ e = next[c] /\ pc[t] = "walk"
          /\ \/ answers' = answers /\ pc'[t] = "walk"
             \/ answers'[t] = answers[t] \cup {c} /\ pc'[t] = "choose"
      BY <1>1, <2>3, <2>7, Fields DEF Walk
    <3>2. Existing(c) /\ where[c] # "unused"
      BY <1>1, <2>2, <2>3, <3>1 DEF Holding, Existing
    <3>3. answers[t] \cap Visits(c) = {}
      BY <2>2, <2>3, <3>1 DEF Ahead
    <3>4. Visits(e) \subseteq Visits(c) \ {c}
      BY <1>1, <3>1, <3>2, VisitsNext
    <3>. QED
      BY <2>4, <2>5, <3>1, <3>2, <3>3, <3>4
  <2>8. CASE WalkEnd(t)
    BY <1>1, <2>4, <2>8, Fields DEF WalkEnd
  <2>9. CASE Choose(t)
    <3>1. /\ answers' = answers /\ pc[t] = "choose"
          /\ \/ c # Nil /\ e = next[c] /\ pc'[t] = "choose"
             \/ chp'[t] = c /\ pc'[t] \in {"last", "answer"}
      BY <1>1, <2>3, <2>9, Fields DEF Choose
    <3>2. answers[t] \cap Visits(c) = {}
      BY <2>2, <2>3, <3>1 DEF Ahead
    <3>3. CASE c # Nil /\ e = next[c] /\ pc'[t] = "choose"
      <4>1. Existing(c)
        BY <1>1, <2>2, <2>3, <3>3 DEF Holding
      <4>2. Visits(e) \subseteq Visits(c)
        BY <1>1, <3>3, <4>1, VisitsNext
      <4>. QED
        BY <2>4, <2>5, <3>1, <3>2, <3>3, <4>2
    <3>4. CASE chp'[t] = c /\ pc'[t] \in {"last", "answer"}
      <4>1. Visits(chp[t])' = Visits(c)'
        BY <3>4 DEF Visits
      <4>. QED
        BY <1>3, <2>4, <3>1, <3>2, <3>4, <4>1
    <3>. QED
      BY <3>1, <3>3, <3>4
  <2>. QED
    BY <1>6, <2>6, <2>7, <2>8, <2>9
<1>. QED
  BY <1>4, <1>5, <1>6 DEF Call

\* Nobody but the goal itself changes what is its own.
LEMMA OthersStep ==
  ASSUME IInv, NEW t \in Callers, [Next]_vars, ~Call(t)
  PROVE  SameCaller(t)
<1>1. CASE UNCHANGED vars
  BY <1>1, LocalSame DEF vars
<1>2. ASSUME NEW u \in Callers, Call(u)
      PROVE  SameCaller(t)
  BY <1>2, CallSame DEF IInv
<1>3. ASSUME NEW u \in Writers, Change(u) \/ Finish(u)
      PROVE  SameCaller(t)
  <2>1. pc' = pc /\ UNCHANGED local
    BY <1>3 DEF Change, Finish, AssertLink, EraseFlag, NextGeneration, Stamp, Register
  <2>. QED
    BY <2>1, LocalSame
<1>4. CASE Collect
  BY <1>4, CollectFrame, LocalSame
<1>. QED
  BY <1>1, <1>2, <1>3, <1>4 DEF Next

\* That nothing is answered twice is preserved by every step.
LEMMA OnceKept ==
  ASSUME IInv, OnceInv, [Next]_vars
  PROVE  OnceInv'
<1>1. NoCycle' /\ \E N \in SUBSET Clauses : New(N)
  BY ChainStep DEF OnceInv
<1>2. ASSUME NEW t \in Callers
      PROVE  Ahead(t)'
  BY <1>1, AheadOwn, AheadKept, OthersStep DEF OnceInv
<1>. QED
  BY <1>1, <1>2 DEF OnceInv

-----------------------------------------------------------------------------
(* The theorems.                                                            *)

\* The invariant holds at first: the initial chain visits its clauses one after
\* the other, in whatever order they were added.
LEMMA InitHolds == Init => IInv
<1>. SUFFICES ASSUME Init PROVE IInv
  OBVIOUS
<1>1. PICK s \in SetToSeqs(Initial) :
        /\ first = IF s = <<>> THEN Nil ELSE s[1]
        /\ last = IF s = <<>> THEN Nil ELSE s[Len(s)]
        /\ next = [c \in Clauses |->
                     IF \E i \in 1..(Len(s) - 1) : s[i] = c
                     THEN s[1 + CHOOSE i \in 1..(Len(s) - 1) : s[i] = c] ELSE Nil]
  BY DEF Init
<1>. DEFINE n == Cardinality(Initial)
<1>2. IsFiniteSet(Initial) /\ n \in Nat /\ Cardinality(Clauses) \in Nat
  BY GenAssumption, FS_Subset, FS_CardinalityType
<1>3. s \in [1..n -> Initial] /\ \A i, j \in 1..n : i # j => s[i] # s[j]
  BY <1>1 DEF SetToSeqs
<1>4. s \in Seq(Initial) /\ Len(s) = n
  BY <1>2, <1>3
<1>5. \A c \in Initial : \E i \in 1..n : s[i] = c
  <2>1. s \in Injection(1..n, Initial)
    BY <1>3 DEF Injection, IsInjective
  <2>2. IsFiniteSet(1..n) /\ Cardinality(1..n) = n
    BY <1>2, FS_Interval
  <2>3. s \in Surjection(1..n, Initial)
    BY <1>2, <2>1, <2>2, FS_Injection
  <2>. QED
    BY <2>3 DEF Surjection
<1>6. \A i \in 1..n : s[i] \in Clauses /\ s[i] \in Initial /\ s[i] # Nil
  BY <1>3, GenAssumption, NilAssumption
<1>7. /\ \A i \in 1..(n - 1) : next[s[i]] = s[i + 1]
      /\ \A c \in Clauses : (\A i \in 1..(n - 1) : s[i] # c) => next[c] = Nil
  <2>1. ASSUME NEW i \in 1..(n - 1)
        PROVE  next[s[i]] = s[i + 1]
    <3>. DEFINE j == CHOOSE j \in 1..(n - 1) : s[j] = s[i]
    <3>1. j \in 1..(n - 1) /\ s[j] = s[i]
      OBVIOUS
    <3>2. j = i
      <4>. HIDE DEF j
      <4>. QED
        BY <1>2, <1>3, <3>1
    <3>3. s[i] \in Clauses
      BY <1>2, <1>6
    <3>4. next[s[i]] = s[1 + j]
      BY <1>1, <1>4, <3>3
    <3>5. 1 + i = i + 1
      BY <1>2
    <3>. QED
      BY <3>2, <3>4, <3>5
  <2>2. ASSUME NEW c \in Clauses, \A i \in 1..(n - 1) : s[i] # c
        PROVE  next[c] = Nil
    BY <1>1, <1>4, <2>2
  <2>. QED
    BY <2>1, <2>2
<1>8. next \in [Clauses -> Clauses \cup {Nil}]
  <2>1. \A c \in Clauses : next[c] \in Clauses \cup {Nil}
    <3>. SUFFICES ASSUME NEW c \in Clauses, next[c] # Nil
                  PROVE  next[c] \in Clauses
      OBVIOUS
    <3>1. PICK i \in 1..(n - 1) : s[i] = c
      BY <1>7
    <3>2. next[c] = s[i + 1] /\ i + 1 \in 1..n
      BY <1>2, <1>7, <3>1
    <3>. QED
      BY <1>6, <3>2
  <2>. QED
    BY <1>1, <2>1
<1>9. /\ first = IF n = 0 THEN Nil ELSE s[1]
      /\ last = IF n = 0 THEN Nil ELSE s[n]
  BY <1>1, <1>2, <1>4
<1>10. /\ Linked = Initial /\ \A c \in Clauses : c \in Initial => where[c] = "linked"
       /\ \A c \in Clauses : c \notin Initial => where[c] = "unused"
  BY GenAssumption DEF Init, Linked
<1>11. n # 0 => next[s[n]] = Nil /\ s[n] \in Initial
  BY <1>2, <1>3, <1>6, <1>7
<1>12. \A c \in Initial : next[c] \in Initial \cup {Nil}
  <2>. SUFFICES ASSUME NEW c \in Initial PROVE next[c] \in Initial \cup {Nil}
    OBVIOUS
  <2>1. PICK i \in 1..n : s[i] = c
    BY <1>5
  <2>2. CASE i = n
    BY <1>2, <1>11, <2>1, <2>2
  <2>3. CASE i # n
    <3>1. i \in 1..(n - 1) /\ i + 1 \in 1..n
      BY <1>2, <2>3
    <3>. QED
      BY <1>6, <1>7, <2>1, <3>1
  <2>. QED
    BY <2>2, <2>3
<1>13. Visits(first) = Initial
  <2>1. CASE n = 0
    <3>1. Initial = {}
      BY <1>2, <2>1, FS_EmptySet
    <3>. QED
      BY <1>9, <2>1, <3>1, VisitsNil
  <2>2. CASE n # 0
    <3>. HIDE DEF n
    <3>1. first = s[1] /\ 1 \in 1..n /\ first \in Initial /\ Initial \in SUBSET Clauses
      BY <1>2, <1>3, <1>9, <2>2, GenAssumption
    <3>2. Visits(first) \subseteq Initial
      BY <1>12, <3>1, VisitsWithin DEF Closed
    <3>3. ASSUME NEW S \in SUBSET Clauses, first \in S, Closed(S)
          PROVE  Initial \subseteq S
      <4>. DEFINE Out == {i \in 1..n : s[i] \notin S}
      <4>1. SUFFICES Out = {}
        BY <1>5
      <4>2. SUFFICES ASSUME Out # {} PROVE FALSE
        OBVIOUS
      <4>3. Out \in SUBSET Nat
        BY <1>2
      <4>4. PICK i \in Out : \A j \in Out : i <= j
        <5>. HIDE DEF Out
        <5>. QED
          BY <4>2, <4>3, LeastNatural
      <4>5. i \in 1..n /\ s[i] \notin S /\ i # 1
        BY <3>1, <3>3
      <4>6. i - 1 \in 1..n /\ i - 1 \in 1..(n - 1) /\ i - 1 < i /\ (i - 1) + 1 = i
        BY <1>2, <4>5
      <4>7. s[i - 1] \in S
        BY <4>4, <4>5, <4>6
      <4>8. next[s[i - 1]] = s[i] /\ s[i] # Nil
        BY <1>6, <1>7, <4>5, <4>6
      <4>. QED
        BY <3>3, <4>5, <4>7, <4>8 DEF Closed
    <3>4. Initial \subseteq Visits(first)
      BY <1>6, <3>1, <3>3, NilAssumption DEF Visits
    <3>. QED
      BY <3>2, <3>4
  <2>. QED
    BY <2>1, <2>2
<1>14. /\ \A c, d \in Initial : next[c] = next[d] /\ next[c] # Nil => c = d
       /\ \A c \in Initial : next[c] # Nil => next[c] # first
  <2>1. ASSUME NEW c \in Initial, next[c] # Nil
        PROVE  \E i \in 1..(n - 1) : s[i] = c /\ next[c] = s[i + 1] /\ i + 1 \in 1..n
    <3>1. c \in Clauses
      BY GenAssumption
    <3>2. PICK i \in 1..(n - 1) : s[i] = c
      BY <1>7, <2>1, <3>1
    <3>. QED
      BY <1>2, <1>7, <3>2
  <2>2. ASSUME NEW c \in Initial, NEW d \in Initial, next[c] = next[d], next[c] # Nil
        PROVE  c = d
    <3>1. PICK i \in 1..(n - 1) : s[i] = c /\ next[c] = s[i + 1] /\ i + 1 \in 1..n
      BY <2>1, <2>2
    <3>2. PICK j \in 1..(n - 1) : s[j] = d /\ next[d] = s[j + 1] /\ j + 1 \in 1..n
      BY <2>1, <2>2
    <3>3. i + 1 = j + 1
      BY <1>3, <2>2, <3>1, <3>2
    <3>. QED
      BY <1>2, <3>1, <3>2, <3>3
  <2>3. ASSUME NEW c \in Initial, next[c] # Nil
        PROVE  next[c] # first
    <3>1. PICK i \in 1..(n - 1) : s[i] = c /\ next[c] = s[i + 1] /\ i + 1 \in 1..n
      BY <2>1, <2>3
    <3>2. i + 1 # 1 /\ 1 \in 1..n /\ n # 0
      BY <1>2, <3>1
    <3>. QED
      BY <1>3, <1>9, <3>1, <3>2
  <2>. QED
    BY <2>2, <2>3
<1>15. Chained
  <2>1. {c \in Linked : CL_ERASED[c]} = {} /\ erased_clauses = 0
    BY GenAssumption, <1>10 DEF Init
  <2>2. \A c \in Clauses : settled[c] => c \in Linked
    BY <1>10 DEF Init
  <2>3. IF first = Nil THEN last = Nil ELSE last \in Linked /\ next[last] = Nil
    <3>1. n # 0 => s[1] # Nil
      BY <1>2, <1>6
    <3>. QED
      BY <1>9, <1>10, <1>11, <3>1
  <2>4. ChainSound
    BY <1>10, <1>13, <2>1, <2>2, <2>3, FS_EmptySet DEF ChainSound
  <2>5. ASSUME NEW c \in Clauses, Existing(c)
        PROVE  next[c] = Nil \/ Existing(next[c])
    <3>1. c \in Initial
      BY <1>10, <2>5 DEF Existing
    <3>. QED
      BY <1>10, <1>12, <3>1, GenAssumption DEF Existing
  <2>. QED
    BY <1>10, <1>14, <2>4, <2>5 DEF Chained
<1>16. /\ generation = 1 /\ erased = [c \in Clauses |-> GEN_MAX]
       /\ settled = [c \in Clauses |-> c \in Initial] /\ CL_ERASED = [c \in Clauses |-> FALSE]
       /\ created = [c \in Clauses |-> IF c \in Initial THEN 1 ELSE 0]
       /\ L_PREDICATE = NoThread /\ job = [t \in Writers |-> NoJob] /\ cgc = IdleCgc
  BY DEF Init
<1>17. Typed
  <2>1. 1 \in 1..MaxGen /\ 0 \in 0..MaxGen /\ 1 \in 0..MaxGen
        /\ GEN_MAX \in 0..GEN_MAX /\ 0 \in 0..GEN_MAX
        /\ 0 \in 0..Cardinality(Clauses)
    BY <1>2, GenAssumption DEF GEN_MAX
  <2>2. first \in Clauses \cup {Nil} /\ last \in Clauses \cup {Nil}
    BY <1>2, <1>6, <1>9
  <2>3. where \in [Clauses -> {"unused", "linked", "lingering", "grabbed", "freed"}]
    BY DEF Init
  <2>4. IdleCgc \in [pc : Steps, start : 0..MaxGen, active : 0..MaxGen,
                     cur : Clauses \cup {Nil}, todo : SUBSET Callers, inuse : BOOLEAN]
    BY <2>1 DEF IdleCgc, Steps
  <2>5. NoJob \in [op : {"none", "assert", "erase", "register"},
                   c : Clauses \cup {Nil}, g : 0..MaxGen]
    BY <2>1 DEF NoJob
  <2>6. TypeOK
    <3>1. /\ generation \in 1..MaxGen /\ created \in [Clauses -> 0..MaxGen]
          /\ erased \in [Clauses -> 0..GEN_MAX] /\ settled \in [Clauses -> BOOLEAN]
          /\ CL_ERASED \in [Clauses -> BOOLEAN]
      BY <1>16, <2>1
    <3>2. /\ erased_clauses \in 0..Cardinality(Clauses) /\ dirty \in BOOLEAN
          /\ oldest_generation \in 0..GEN_MAX /\ cgc_active \in BOOLEAN
      BY <2>1 DEF Init
    <3>3. pc \in [Callers -> {"idle", "gen", "store", "activate", "verify", "publish",
                              "first", "walk", "choose", "answer", "last", "done"}]
      BY DEF Init
    <3>4. /\ cur \in [Callers -> Clauses \cup {Nil}]
          /\ chp \in [Callers -> Clauses \cup {Nil}]
          /\ exec \in [Callers -> Clauses \cup {Nil}]
      BY DEF Init
    <3>5. /\ gen \in [Callers -> 0..MaxGen] /\ answers \in [Callers -> SUBSET Clauses]
          /\ published \in [Callers -> BOOLEAN] /\ early \in [Callers -> BOOLEAN]
          /\ access \in [Callers -> BOOLEAN]
      BY <2>1 DEF Init
    <3>6. /\ cgc.pc \in {"idle", "start", "reset", "mark", "clean", "grab", "inuse"}
          /\ cgc.start \in 0..MaxGen /\ cgc.active \in 0..MaxGen
          /\ cgc.cur \in Clauses \cup {Nil} /\ cgc.todo \subseteq Callers
      BY <1>16, <2>1 DEF IdleCgc
    <3>7. \A t \in Writers : job[t].c \in Clauses \cup {Nil} /\ job[t].g \in 0..MaxGen
      BY <1>16, <2>1 DEF NoJob
    <3>8. next \in [Clauses -> Clauses \cup {Nil}]
      BY <1>8
    <3>9. L_PREDICATE \in Writers \cup {NoThread}
      BY <1>16
    <3>. QED
      BY <2>2, <2>3, <3>1, <3>2, <3>3, <3>4, <3>5, <3>6, <3>7, <3>8, <3>9 DEF TypeOK
  <2>. QED
    BY <1>16, <2>4, <2>5, <2>6 DEF Typed, Init
<1>18. Writing
  BY <1>16, NilAssumption DEF Writing, Changing, NoJob, Threads
<1>19. Stamped
  <2>1. \A c \in Clauses : c \notin Initial => next[c] = Nil
    BY <1>2, <1>6, <1>7
  <2>2. \A c \in Clauses : ~Gone(c)
    BY <1>10 DEF Gone
  <2>. QED
    BY <1>10, <1>16, <2>1, <2>2 DEF Stamped
<1>20. Collecting
  BY <1>10, <1>16 DEF Collecting, IdleCgc
<1>21. \A t \in Callers : Entering(t) /\ Sheltered(t) /\ Holding(t) /\ Answering(t)
  BY DEF Init, Entering, Sheltered, Holding, Answering, Known
<1>. QED
  BY <1>15, <1>17, <1>18, <1>19, <1>20, <1>21 DEF IInv

\* Every caller keeps what it needs.
LEMMA CallersKept ==
  ASSUME IInv, [Next]_vars
  PROVE  \A t \in Callers : CallerSound(t)'
<1>. SUFFICES ASSUME NEW t \in Callers
              PROVE  CallerSound(t)'
  OBVIOUS
<1>1. CASE UNCHANGED vars
  BY <1>1 DEF IInv, CallerSound, vars, chain, stamps, marks, local, Entering, Sheltered,
     Holding, Answering, Known, Kept, Due, VisibleAt, Gone, Existing, Linked, Visits, Closed
<1>2. ASSUME NEW u \in Callers, Call(u)
      PROVE  CallerSound(t)'
  BY <1>2, CallerBesideCall, CallerChooses, CallerWalks DEF Call
<1>3. ASSUME NEW u \in Writers, Change(u) \/ Finish(u)
      PROVE  CallerSound(t)'
  BY <1>3, CallerBesideWriter
<1>4. CASE Collect
  BY <1>4, CallerBesideCollector
<1>. QED
  BY <1>1, <1>2, <1>3, <1>4 DEF Next

\* The inductive invariant: the stamps and the chain, what the collector may take
\* out, and, for each goal whose generation marking can find in time, why the
\* clauses it still needs are not among them.
THEOREM Inductive == Spec => []IInv
<1>1. IInv /\ [Next]_vars => IInv'
  <2>. SUFFICES ASSUME IInv, [Next]_vars PROVE IInv'
    OBVIOUS
  <2>. QED
    BY TypedKept, WritingKept, StampedKept, ChainedKept, CollectingKept, CallersKept
    DEF IInv, CallerSound
<1>. QED
  BY InitHolds, <1>1, PTL DEF Spec

\* The variables have their types: generations do not pass the present one, and
\* the counter of erased clauses does not pass their number or go below zero.
THEOREM TypeCorrect == Spec => []TypeOK
<1>1. IInv => TypeOK
  BY DEF IInv, Typed
<1>. QED
  BY <1>1, Inductive, PTL

\* From first to last the chain visits the linked clauses and no other, although
\* cleanDefinition() walks it without the lock while others add clauses at both
\* ends; no clause that is not erased is lost, and the erased ones are counted.
THEOREM ChainCorrect == Spec => []ChainSound
<1>1. IInv => ChainSound
  BY DEF IInv, Chained
<1>. QED
  BY <1>1, Inductive, PTL

\* No memory is freed under a goal whose generation marking can find while it is
\* chosen, neither at its cursor nor at its choice point nor in the clause it
\* executes, and none under the collector.
THEOREM NothingDangles == Spec => []NoDangling
<1>1. IInv => NoDangling
  <2>. SUFFICES ASSUME IInv PROVE NoDangling
    OBVIOUS
  <2>1. Typed /\ Collecting
    BY DEF IInv
  <2>2. ASSUME NEW t \in Callers, early[t], NEW c \in Holds(t)
        PROVE  where[c] # "freed"
    <3>1. Entering(t) /\ Holding(t) /\ c # Nil /\ c \in {cur[t], chp[t], exec[t]}
      BY DEF IInv, Holds
    <3>2. pc[t] \in Outside \cup Inside
      BY <2>1, Fields
    <3>3. pc[t] \notin Outside
      BY <3>1 DEF Entering
    <3>4. Known(t)
      BY <2>2, <3>2, <3>3 DEF Known
    <3>5. Existing(c)
      BY <3>1, <3>4 DEF Holding, Kept, Linked, Existing
    <3>. QED
      BY <3>5 DEF Existing
  <2>3. cgc.cur # Nil => where[cgc.cur] # "freed"
    BY <2>1 DEF Collecting, Linked
  <2>. QED
    BY <2>2, <2>3 DEF NoDangling, Dangles
<1>. QED
  BY <1>1, Inductive, PTL

\* The logical update view against the collector: such a goal that has given all
\* its answers has given each clause that was there when it began and that belongs
\* to its generation.
THEOREM AnswersComplete == Spec => []SnapshotKept
<1>1. IInv => SnapshotKept
  <2>. SUFFICES ASSUME IInv, NEW t \in Callers, early[t], pc[t] = "done"
                PROVE  entered[t] \cap VisibleAt(gen[t]) \subseteq answers[t]
    BY DEF SnapshotKept
  <2>1. Answering(t) /\ Known(t)
    BY DEF IInv, Known, Inside
  <2>2. Due(t) = {}
    BY <2>1 DEF Answering
  <2>. QED
    BY <2>2 DEF Due
<1>. QED
  BY <1>1, Inductive, PTL

\* A goal whose generation marking finds in time gives no clause twice, whatever
\* is added to the chain and taken out of it around its cursor: no links lead
\* back, and what it has answered is behind it.
THEOREM GivenOnce == Spec => AnsweredOnce
<1>1. Init => OnceInv
  <2>. SUFFICES ASSUME Init PROVE OnceInv
    OBVIOUS
  <2>1. Typed /\ Chained
    BY InitHolds DEF IInv
  <2>2. \A c \in Clauses : Existing(c) => c \in Linked
    BY DEF Init, Existing, Linked
  <2>. QED
    BY <2>1, <2>2, ChainNoCycle DEF Init, OnceInv, NoCycle, Ahead, Known, Inside
<1>2. IInv /\ OnceInv /\ [Next]_vars => OnceInv'
  BY OnceKept
<1>3. IInv /\ OnceInv /\ [Next]_vars =>
        [\A t \in Callers :
           early[t] /\ exec'[t] \notin {exec[t], Nil} => exec'[t] \notin answers[t]]_vars
  <2>. SUFFICES ASSUME IInv, OnceInv, [Next]_vars, NEW t \in Callers, early[t],
                       exec'[t] \notin {exec[t], Nil}
                PROVE  exec'[t] \notin answers[t]
    OBVIOUS
  <2>1. Typed /\ Holding(t) /\ Ahead(t)
    BY DEF IInv, OnceInv
  <2>2. Call(t)
    BY OthersStep DEF SameCaller
  <2>3. Walk(t)
    BY <2>1, <2>2, Fields DEF Call, ReadGen, Store, Activate, Verify, PublishLate, Enter,
       WalkEnd, Choose, Leave, local
  <2>4. pc[t] = "walk" /\ cur[t] \in Clauses /\ exec'[t] = cur[t]
    BY <2>1, <2>3, Fields DEF Walk
  <2>5. answers[t] \cap Visits(cur[t]) = {}
    BY <2>1, <2>4 DEF Ahead, Known, Inside
  <2>. QED
    BY <2>4, <2>5, VisitsStep
<1>. QED
  BY <1>1, <1>2, <1>3, Inductive, PTL DEF Spec, AnsweredOnce

=============================================================================
