---------------------------- MODULE PrologEngine ----------------------------
(***************************************************************************)
(* The part of the embedded SWI-Prolog engine that the R bridge drives     *)
(* through the foreign language interface: the frames of the local stack   *)
(* (pl-wam.c), the pending exception (pl-fli.c) and the life cycle of the  *)
(* engine (pl-init.c).                                                     *)
(*                                                                         *)
(* An interface function is an operator from the stack registers before    *)
(* the call to the registers after it, so that a caller writes the         *)
(* sequence of calls it makes as a composition.  A function whose outcome  *)
(* depends on the Prolog program returns the set of possible outcomes.     *)
(*                                                                         *)
(* The registers are a record:                                             *)
(*   lstack       the frames on the local stack, oldest first.  A fid_t    *)
(*                or a qid_t is the position of a frame (0: no frame).     *)
(*   lTop         words in use: one per frame header, one per term_t.      *)
(*   fli_context  the current foreign frame.                               *)
(*   query        LD->query, which is also where environment_frame lies.   *)
(***************************************************************************)
EXTENDS Naturals, Sequences

CONSTANTS
  Exceptions,           \* the exceptions a goal may raise: names of Class
  MAX_HALT_CANCELLED    \* pl-init.c: halts that may be cancelled, plus one

\* except_class: the urgency of an exception.  A resource error is
\* error(resource_error(_), _): its first argument is no atom, so it is
\* classified as any other error.
Class == [none |-> 0, other |-> 1, error |-> 2, resource |-> 2,
          timeout |-> 4, abort |-> 5]

ASSUME ExceptionsAssumption ==
  Exceptions \subseteq {"other", "error", "resource", "timeout", "abort"}

ASSUME ResourceAssumption == "resource" \in Exceptions

ASSUME HaltAssumption == MAX_HALT_CANCELLED \in Nat \ {0}

NoException == "none"

Pending == Exceptions \cup {NoException}

(***************************************************************************)
(* Frames and registers.                                                   *)
(***************************************************************************)

\* struct fliFrame and struct queryFrame.  "at" is the address of the frame,
\* which for a query is also saved_ltop; "link" is its parent.
Frame ==
  [kind : {"fli", "query"}, at : Nat, link : Nat, foreign_frame : Nat,
   deterministic : BOOLEAN]

FliFrame(at, parent) ==
  [kind |-> "fli", at |-> at, link |-> parent, foreign_frame |-> 0,
   deterministic |-> FALSE]

QueryFrame(at, parent) ==
  [kind |-> "query", at |-> at, link |-> parent, foreign_frame |-> 0,
   deterministic |-> FALSE]

Registers ==
  [lstack : Seq(Frame), lTop : Nat, fli_context : Nat, query : Nat]

\* No stacks: before PL_initialise() and after PL_cleanup().
NoStacks == [lstack |-> <<>>, lTop |-> 0, fli_context |-> 0, query |-> 0]

\* emptyStacks(): only the base foreign frame is left.  The term references
\* the engine keeps for itself are not counted.
EmptyStacks ==
  [lstack |-> <<FliFrame(0, 0)>>, lTop |-> 1, fli_context |-> 1, query |-> 0]

\* The test of PL_new_term_refs() before it allocates; when it fails the
\* engine calls fatalError("No foreign environment").
ForeignEnvironment(s) == s.fli_context > s.query

PL_new_term_refs(s, n) == [s EXCEPT !.lTop = @ + n]

PL_open_foreign_frame(s) ==
  [lstack      |-> Append(s.lstack, FliFrame(s.lTop, s.fli_context)),
   lTop        |-> s.lTop + 1,
   fli_context |-> Len(s.lstack) + 1,
   query       |-> s.query]

PL_close_foreign_frame(s, id) ==
  [lstack      |-> SubSeq(s.lstack, 1, id - 1),
   lTop        |-> s.lstack[id].at,
   fli_context |-> s.lstack[id].link,
   query       |-> s.query]

PL_open_query(s) ==
  [lstack      |-> Append(s.lstack, QueryFrame(s.lTop, s.query)),
   lTop        |-> s.lTop + 1,
   fli_context |-> s.fli_context,
   query       |-> Len(s.lstack) + 1]

\* The foreign frame of a query holds what C creates between two solutions.
CloseForeignFrame(s, qid) ==
  IF s.lstack[qid].foreign_frame = 0
    THEN s
    ELSE PL_close_foreign_frame(s, s.lstack[qid].foreign_frame)

\* Mutant: the words above the query are not given back.
RestoreKeepingTop(s, qid) ==
  [lstack      |-> SubSeq(s.lstack, 1, qid - 1),
   lTop        |-> s.lTop,
   fli_context |-> s.fli_context,
   query       |-> s.lstack[qid].link]

\* fli_context is not restored: it is right only because the foreign frame
\* of the query was closed before.
RestoreAfterQuery(s, qid) ==
  [lstack      |-> SubSeq(s.lstack, 1, qid - 1),
   lTop        |-> s.lstack[qid].at,
   fli_context |-> s.fli_context,
   query       |-> s.lstack[qid].link]

\* Mutant: the foreign frame of the query is not closed.
CutWithAnswerFrame(s, qid) == RestoreAfterQuery(s, qid)

\* PL_cut_query() and PL_close_query() differ in the bindings they keep, not
\* in what they do to the frames.
PL_cut_query(s, qid) == RestoreAfterQuery(CloseForeignFrame(s, qid), qid)

PL_close_query(s, qid) == RestoreAfterQuery(CloseForeignFrame(s, qid), qid)

\* Mutant: the query keeps the handle of the frame it closed.
RetryKeepingHandle(s, qid) == CloseForeignFrame(s, qid)

\* The entry of PL_next_solution(): the answer of the previous call is given
\* up (first call: there is none).
Retry(s, qid) ==
  LET t == CloseForeignFrame(s, qid)
  IN  [t EXCEPT !.lstack[qid].foreign_frame = 0]

\* Every way out of the virtual machine opens the foreign frame in which C
\* inspects the answer: I_EXITQUERY with a solution, CHP_TOP when there are no
\* more, B_THROW on an exception that nobody catches.
LeaveVM(s, qid, det) ==
  LET t == PL_open_foreign_frame(s)
  IN  [t EXCEPT !.lstack[qid].foreign_frame = t.fli_context,
                !.lstack[qid].deterministic = det]

(***************************************************************************)
(* The pending exception.                                                  *)
(***************************************************************************)

\* PL_raise_exception(): a pending exception gives way to a new one that is
\* at least as urgent.
PL_raise_exception(pending, e) ==
  IF Class[e] >= Class[pending] THEN e ELSE pending

\* Mutant: a "false alarm" is not cleared.
RunKeepingAlarm(pending) == Pending

\* What a pending exception may be after Prolog code ran that did not leave
\* by an exception: a foreign predicate that succeeds clears it (I_FEXITDET,
\* "false alarm"), and so does catch/3 when a failing one makes it be thrown.
RunQuietly(pending) == {pending, NoException}

\* Mutant: the exception is dropped on the way out of the query.
RaiseAndForget(pending) == {NoException}

\* The exception with which Prolog code may leave: one it raised, or a stale
\* one, which a foreign predicate that fails throws again (I_FEXITDET).
RunAndRaise(pending) ==
  { PL_raise_exception(p, e) : p \in RunQuietly(pending), e \in Exceptions }

RunAndRethrow(pending) == {pending} \ {NoException}

\* discard_query(): cutting choice points runs the cleanup handlers of
\* setup_call_cleanup/3 (callCleanupHandler()).  The pending exception is put
\* aside and comes back unless the handler left a more urgent one.
Discard(pending) ==
  {pending} \cup
  { IF Class[pending] >= Class[e] THEN pending ELSE e : e \in Exceptions }

\* Mutant: a deterministic query is discarded too.
CutAndDiscard(s, qid, pending) == Discard(pending)

\* PL_cut_query() on the exception: only a query with choice points left is
\* discarded.
CutException(s, qid, pending) ==
  IF s.lstack[qid].deterministic THEN {pending} ELSE Discard(pending)

(***************************************************************************)
(* The life cycle.  gd stands for the global data:                         *)
(*   initialised     GD->initialised                                       *)
(*   booted          $initialise succeeded (known to the program only as   *)
(*                   the value PL_initialise() returned)                   *)
(*   halt_cancelled  GD->halt_cancelled                                    *)
(*   library         user:file_search_path/2 has the fact rolog_init adds  *)
(***************************************************************************)

GlobalData ==
  [initialised : BOOLEAN, booted : BOOLEAN,
   halt_cancelled : 0 .. MAX_HALT_CANCELLED - 1, library : BOOLEAN]

\* PL_global_data as the loader or the memset of cleanupProlog() leaves it.
ZeroData ==
  [initialised |-> FALSE, booted |-> FALSE, halt_cancelled |-> 0,
   library |-> FALSE]

\* PL_initialise() of an engine that is not initialised, as the pairs of the
\* value returned and the global data.  GD->initialised is set before
\* $initialise runs, and stays set when that fails.
PL_initialise(g) ==
  IF g.initialised
    THEN { [rval |-> TRUE, gd |-> g] }
    ELSE { [rval |-> FALSE, gd |-> g],
           [rval |-> FALSE, gd |-> [g EXCEPT !.initialised = TRUE]],
           [rval |-> TRUE,  gd |-> [g EXCEPT !.initialised = TRUE,
                                             !.booted = TRUE]] }

\* Mutant: one cancelled halt too many.
MayCancelOnceMore(g) == g.halt_cancelled < MAX_HALT_CANCELLED

\* cleanupProlog(): an at_halt/1 handler may cancel the halt, but not forever.
MayCancel(g) == g.halt_cancelled + 1 < MAX_HALT_CANCELLED

CancelHalt(g) == [g EXCEPT !.halt_cancelled = @ + 1]

=============================================================================
