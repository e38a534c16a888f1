------------------------------ MODULE FliStacks ------------------------------
(***************************************************************************)
(* How the engine takes back bindings: the global stack, the trail and the *)
(* marks that foreign frames, queries and choice points set in them        *)
(* (pl-incl.h, pl-inline.h, pl-wam.c, pl-gvar.c).                          *)
(*                                                                         *)
(* rolog relies on it in every loop over solutions: the binding of arg[1]  *)
(* is taken back before the next solution, and the arguments and all that  *)
(* earlier calls built must then be what they were.  The engine saves      *)
(* work: a binding of a cell newer than mark_bar is not trailed, because   *)
(* no mark can require it to be taken back.  Whether mark_bar is right is  *)
(* what this module is about.                                              *)
(*                                                                         *)
(* A mark carries a history field, snap: the memory when it was set.       *)
(***************************************************************************)
EXTENDS Naturals, Sequences

CONSTANTS
  Values,      \* what a cell may be bound to
  Unbound,     \* setVar()
  GMax,        \* bound: cells of the global stack
  NLocals,     \* term references of the base frame, which outlive all marks
  MaxTrail,    \* bound: entries of the trail
  MaxFrames    \* bound: marks that are set at a time

ASSUME UnboundAssumption == Unbound \notin Values

ASSUME SizesAssumption ==
  /\ GMax \in Nat /\ NLocals \in Nat /\ MaxTrail \in Nat /\ MaxFrames \in Nat

VARIABLES
  mem,         \* the words of the global and the local stack
  gTop,        \* the first free word of the global stack
  trail,       \* the trail, oldest entry first
  mark_bar,    \* LD->mark_bar
  frozen_bar,  \* LD->frozen_bar
  frames       \* what holds a mark, oldest first; the base frame is the first

vars == <<mem, gTop, trail, mark_bar, frozen_bar, frames>>

\* The local stack is above the global stack.
lBase == GMax
Addr  == 0 .. (GMax + NLocals - 1)
Word  == Values \cup {Unbound}

\* A trailed assignment keeps the old value in a word of the global stack.
TrailEntry == [addr : Addr, assigned : BOOLEAN, saved : Addr]

\* "answer" is the foreign frame of a query: C looks at a solution.
Kinds == {"fli", "query", "answer", "choice"}

\* A query that is not "open" has PL_Q_DETERMINISTIC: it gave its last
\* solution, failed, or was left by an exception.
States == {"open", "last", "failed", "exception"}

Frame ==
  [kind : Kinds, trailtop : Nat, globaltop : Nat, saved_bar : Nat,
   snap : [Addr -> Word], state : States]

Top == frames[Len(frames)]

\* The position of the innermost query; 0 if there is none.
Query ==
  LET qs == { i \in 1 .. Len(frames) : frames[i].kind = "query" }
  IN  IF qs = {} THEN 0 ELSE CHOOSE i \in qs : \A j \in qs : j <= i

Max2(m, n) == IF m > n THEN m ELSE n

Live(a) == a < gTop \/ a >= lBase

\* Words that hold the old value of an assignment: no term refers to them.
SavedWords == { trail[i].saved : i \in { j \in 1 .. Len(trail) : trail[j].assigned } }

\* The words that Prolog and C can reach.
Reachable == { a \in Addr : Live(a) /\ a \notin SavedWords }

(***************************************************************************)
(* Mark, DiscardMark and Undo.                                             *)
(***************************************************************************)

\* Mark(b) with the given memory, trail, top and bar; the bar becomes top.
Mark(kind, m, t, top, bar) ==
  [kind |-> kind, trailtop |-> Len(t), globaltop |-> top, saved_bar |-> bar,
   snap |-> m, state |-> "open"]

\* DiscardMark(b): the value of mark_bar.
DiscardMark(b) == Max2(frozen_bar, b.saved_bar)

\* Undo(b) takes the entries of the trail back, newest first, down to the
\* mark: each word gets the value its oldest entry stands for.
Since(b, a) == { i \in (b.trailtop + 1) .. Len(trail) : trail[i].addr = a }

\* Mutant: frozen words are given up.
TopOfMark(b) == b.globaltop

UndoneTop(b) == Max2(frozen_bar, b.globaltop)

OldValue(e) == IF e.assigned THEN mem[e.saved] ELSE Unbound

\* The words given up are shown as unbound: whoever takes one again writes
\* it first.
Undone(b) ==
  [a \in Addr |->
     IF UndoneTop(b) <= a /\ a < lBase THEN Unbound
     ELSE IF Since(b, a) = {}
       THEN mem[a]
       ELSE OldValue(trail[CHOOSE i \in Since(b, a) :
                             \A j \in Since(b, a) : i <= j])]

UndoneTrail(b) == SubSeq(trail, 1, b.trailtop)

Undo(b) ==
  /\ mem' = Undone(b)
  /\ trail' = UndoneTrail(b)
  /\ gTop' = UndoneTop(b)

(***************************************************************************)
(* Writing to the stacks.                                                  *)
(***************************************************************************)

\* Mutant: only the bindings of local variables are trailed.
TrailLocal(a) == a >= lBase

\* The test of Trail__LD(), bindConst__LD() and TrailAssignment__LD().
MustTrail(a) == a >= lBase \/ a < mark_bar

\* A new word on the global stack: a variable, or part of a term.
AllocGlobal ==
  /\ gTop < GMax
  /\ \E v \in Word : mem' = [mem EXCEPT ![gTop] = v]
  /\ gTop' = gTop + 1
  /\ UNCHANGED <<trail, mark_bar, frozen_bar, frames>>

\* Trail__LD(): a variable is bound.
Bind ==
  \E a \in Reachable, v \in Values :
    /\ mem[a] = Unbound
    /\ IF MustTrail(a)
         THEN /\ Len(trail) < MaxTrail
              /\ trail' = Append(trail, [addr |-> a, assigned |-> FALSE, saved |-> 0])
         ELSE UNCHANGED trail
    /\ mem' = [mem EXCEPT ![a] = v]
    /\ UNCHANGED <<gTop, mark_bar, frozen_bar, frames>>

\* TrailAssignment__LD() and the assignment it prepares (setarg/3, attributed
\* variables): the old value goes to a new word.
Assign ==
  \E a \in Reachable, v \in Word :
    /\ IF MustTrail(a)
         THEN /\ gTop < GMax /\ Len(trail) < MaxTrail
              /\ trail' = Append(trail, [addr |-> a, assigned |-> TRUE, saved |-> gTop])
              /\ mem' = [mem EXCEPT ![gTop] = mem[a], ![a] = v]
              /\ gTop' = gTop + 1
         ELSE /\ mem' = [mem EXCEPT ![a] = v]
              /\ UNCHANGED <<trail, gTop>>
    /\ UNCHANGED <<mark_bar, frozen_bar, frames>>

\* freezeGlobal(): what is on the global stack now survives every Undo (the
\* value of nb_setval/2, the copy of an exception).
FreezeGlobal ==
  /\ frozen_bar' = gTop
  /\ mark_bar' = gTop
  /\ UNCHANGED <<mem, gTop, trail, frames>>

(***************************************************************************)
(* Foreign frames.                                                         *)
(***************************************************************************)

Push(kind) ==
  /\ Len(frames) < MaxFrames
  /\ frames' = Append(frames, Mark(kind, mem, trail, gTop, mark_bar))
  /\ mark_bar' = gTop
  /\ UNCHANGED <<mem, gTop, trail, frozen_bar>>

\* Give up the frames from position n on.
PopTo(n) == SubSeq(frames, 1, n - 1)

Pop == PopTo(Len(frames))

PL_open_foreign_frame == Push("fli")

\* Mutant: the base frame is closed like any other.
InAnyForeignFrame == Top.kind = "fli"

\* C has a foreign frame of its own.
InForeignFrame == Len(frames) > 1 /\ Top.kind = "fli"

PL_close_foreign_frame ==
  /\ InForeignFrame
  /\ mark_bar' = DiscardMark(Top)
  /\ frames' = Pop
  /\ UNCHANGED <<mem, gTop, trail, frozen_bar>>

PL_rewind_foreign_frame ==
  /\ InForeignFrame
  /\ Undo(Top)
  /\ UNCHANGED <<mark_bar, frozen_bar, frames>>

PL_discard_foreign_frame ==
  /\ InForeignFrame
  /\ Undo(Top)
  /\ mark_bar' = DiscardMark(Top)
  /\ frames' = Pop
  /\ UNCHANGED frozen_bar

(***************************************************************************)
(* Queries and choice points.                                              *)
(***************************************************************************)

PL_open_query == Top.kind \in {"fli", "answer"} /\ Push("query")

\* The virtual machine runs the innermost query.
Running ==
  Top.kind = "choice" \/ (Top.kind = "query" /\ Top.state = "open")

NewChoice == Running /\ Push("choice")

\* next_choice: the newest choice point is undone and left; when the clause it
\* leads to has an alternative, a new one is made.
Backtrack ==
  /\ Top.kind = "choice"
  /\ Undo(Top)
  /\ mark_bar' = DiscardMark(Top)
  /\ frames' = Pop
  /\ UNCHANGED frozen_bar

\* C_CUT: the choice points from position n on are discarded.
Cut ==
  /\ \E n \in 1 .. Len(frames) :
       /\ \A i \in n .. Len(frames) : frames[i].kind = "choice"
       /\ mark_bar' = DiscardMark(frames[n])
       /\ frames' = PopTo(n)
  /\ UNCHANGED <<mem, gTop, trail, frozen_bar>>

\* I_EXITQUERY: a solution; deterministic when no choice point is left.
ExitQuery ==
  /\ Running
  /\ Len(frames) < MaxFrames
  /\ frames' = Append(IF Top.kind = "query"
                        THEN [frames EXCEPT ![Len(frames)].state = "last"]
                        ELSE frames,
                      Mark("answer", mem, trail, gTop, mark_bar))
  /\ mark_bar' = gTop
  /\ UNCHANGED <<mem, gTop, trail, frozen_bar>>

\* The query at position q is left without a solution: what it did is undone,
\* its mark is discarded, and C gets a foreign frame to look around in.
LeaveUndone(q, state) ==
  LET b == frames[q] IN
  /\ q < MaxFrames
  /\ Undo(b)
  /\ frames' = Append([PopTo(q + 1) EXCEPT ![q].state = state],
                      Mark("answer", mem', trail', gTop', DiscardMark(b)))
  /\ mark_bar' = gTop'
  /\ UNCHANGED frozen_bar

\* CHP_TOP: no choice point is left.
FailQuery == Running /\ Top.kind = "query" /\ LeaveUndone(Len(frames), "failed")

\* B_THROW: an exception that nobody catches.  The copy that
\* PL_raise_exception() made of it is frozen before (FreezeGlobal).
RaiseFromQuery == Running /\ LeaveUndone(Query, "exception")

\* PL_next_solution() after a solution: the answer is given up.  If there was
\* no choice point the query is undone and has failed.
PL_next_solution ==
  /\ Top.kind = "answer" /\ frames[Query].state \in {"open", "last"}
  /\ mark_bar' = DiscardMark(Top)
  /\ frames' = Pop
  /\ IF frames[Query].state = "last"
       THEN Undo(frames[Query])
       ELSE UNCHANGED <<mem, gTop, trail>>
  /\ UNCHANGED frozen_bar

\* C may leave a query when the machine does not run it.
MayLeave ==
  Top.kind = "answer" \/ (Top.kind = "query" /\ Top.state # "open")

\* PL_cut_query(): the bindings stay.
PL_cut_query ==
  /\ MayLeave
  /\ mark_bar' = DiscardMark(frames[Query])
  /\ frames' = PopTo(Query)
  /\ UNCHANGED <<mem, gTop, trail, frozen_bar>>

\* Mutant: only what C did since the answer is undone.
CloseUndoingAnswer ==
  /\ MayLeave
  /\ mark_bar' = DiscardMark(frames[Query])
  /\ frames' = PopTo(Query)
  /\ IF frames[Query].state = "exception"
       THEN UNCHANGED <<mem, gTop, trail>>
       ELSE Undo(Top)
  /\ UNCHANGED frozen_bar

\* PL_close_query(): they go, unless an exception passes through the query:
\* then they went when it was raised, and what C did since stays.
PL_close_query ==
  /\ MayLeave
  /\ mark_bar' = DiscardMark(frames[Query])
  /\ frames' = PopTo(Query)
  /\ IF frames[Query].state = "exception"
       THEN UNCHANGED <<mem, gTop, trail>>
       ELSE Undo(frames[Query])
  /\ UNCHANGED frozen_bar

(***************************************************************************)
(* The specification.                                                      *)
(***************************************************************************)

\* After emptyStacks(), which opens the base frame.
Init ==
  /\ mem = [a \in Addr |-> Unbound]
  /\ gTop = 0
  /\ trail = <<>>
  /\ mark_bar = 0
  /\ frozen_bar = 0
  /\ frames = <<Mark("fli", mem, trail, 0, 0)>>

Next ==
  \/ AllocGlobal \/ Bind \/ Assign \/ FreezeGlobal
  \/ PL_open_foreign_frame \/ PL_close_foreign_frame
  \/ PL_rewind_foreign_frame \/ PL_discard_foreign_frame
  \/ PL_open_query \/ NewChoice \/ Backtrack \/ Cut
  \/ ExitQuery \/ FailQuery \/ RaiseFromQuery
  \/ PL_next_solution \/ PL_cut_query \/ PL_close_query

Spec == Init /\ [][Next]_vars

(***************************************************************************)
(* Properties.                                                             *)
(***************************************************************************)

\* The variables have their types, and the stacks stay within their bounds.
TypeOK ==
  /\ mem \in [Addr -> Word]
  /\ gTop \in 0 .. GMax
  /\ trail \in Seq(TrailEntry)
  /\ mark_bar \in Nat
  /\ frozen_bar \in Nat
  /\ frames \in Seq(Frame) /\ frames # <<>>

\* The assertions of Mark(), DiscardMark() and __do_undo() in a build that
\* checks itself: the bars lie within the global stack.
BarsInStack == mark_bar <= gTop /\ frozen_bar <= gTop

\* Every word that was there when a mark was set can still be given the value
\* it had then, although bindings of newer words are not trailed.
Recoverable ==
  \A i \in 1 .. Len(frames) : \A a \in Addr :
    a < frames[i].globaltop \/ a >= lBase =>
      Undone(frames[i])[a] = frames[i].snap[a]

\* The copies of the abstract store are the histories of the marks.
Copies ==
  [i \in 1 .. Len(frames) |->
     [top |-> frames[i].globaltop, snap |-> frames[i].snap]]

Store == INSTANCE SnapshotStore WITH store <- mem, top <- gTop, snaps <- Copies

\* Conditional trailing, the bars and the order in which frames, queries and
\* choice points discard and undo their marks implement copying the memory
\* and copying it back.
ImplementsStore == Store!Spec

=============================================================================
