---------------------------- MODULE RologSession ----------------------------
(***************************************************************************)
(* An R session that uses rolog: the entry points R calls                  *)
(* (rolog_init.cpp, rolog_call.cpp, rolog_consult.cpp, rolog_query*.cpp),  *)
(* the C++ objects they create (SWI-cpp.h) and the Prolog engine below     *)
(* them (PrologEngine).                                                    *)
(*                                                                         *)
(* R is single threaded: it makes the next call when the previous one      *)
(* returned.  A call is a sequence of steps, one per crossing of the       *)
(* border between C++ and Prolog, because what the Prolog program does in  *)
(* between is not determined by the bridge.  pc says which step is next:   *)
(*   R       no call is active                                             *)
(*   file    rolog_consult starts on the next file                         *)
(*   open    the arguments exist, the PlQuery is constructed               *)
(*   next    PlQuery::next_solution() enters PL_next_solution()            *)
(*   row     it returned TRUE                                              *)
(*   failed  PL_next_solution() returned FALSE                             *)
(*   read    rolog_query_string looks at the answer after PlCall()         *)
(*   unwind  a C++ exception is on its way to END_RCPP                     *)
(***************************************************************************)
EXTENDS PrologEngine

CONSTANTS
  Solutions,      \* the values a query may bind its second argument to
  Unconvertible,  \* those that the conversion to R refuses
  Files,          \* the files rolog_consult may be given
  MaxSolutions,   \* bound: solutions of one query
  MaxFiles,       \* bound: files of one rolog_consult
  RefLimit        \* bound: R makes no new query on a fuller local stack

ASSUME SolutionsAssumption == Unconvertible \subseteq Solutions

ASSUME BoundsAssumption ==
  MaxSolutions \in Nat /\ MaxFiles \in Nat /\ RefLimit \in Nat

VARIABLES
  process,         \* the R process: "up", "exited" or "dead"
  gd,              \* the engine's global data
  ld,              \* the registers of the engine's stacks
  exception_term,  \* the pending exception
  rolog_engine,    \* the global pointer of rolog_init.cpp is not NULL
  pc, fn,          \* the step and the entry point of the active call
  fid, qid,        \* PlFrame::fid and PlQuery::qid of the active call, or 0
  files,           \* rolog_consult: the files that are left
  r,               \* the R value under construction
  produced,        \* history: the answers Prolog gave to the active call
  more,            \* history: the goal has choice points it was not asked for
  blame,           \* history: where the exceptions the call met come from
  base,            \* history: lTop when the call began
  reply            \* the outcome of the last call

engineVars == <<process, gd, ld, exception_term>>
callVars   == <<pc, fn, fid, qid, files, r, produced, more, blame, base>>
vars       == <<engineVars, rolog_engine, callVars, reply>>

Queries     == {"query", "LL", "comp"}
EntryPoints == Queries \cup {"string", "call", "consult", "init", "exit"}

(***************************************************************************)
(* Term references, counted in the constructors of SWI-cpp.h.              *)
(***************************************************************************)

\* The arguments of a query: PlTermv(2) is two, PlString and the leaf() of an
\* atomic value one, PlCompound(text) two.
ArgRefs == [query |-> 3, LL |-> 4, comp |-> 4, string |-> 3, call |-> 2,
            init |-> 2, consult |-> 1]

\* The same when leaf() or PlCompound(text) throws instead.
ArgErrorRefs == [query |-> 4, LL |-> 5, comp |-> 5, call |-> 3, init |-> 3]

\* pl2r_list() of an answer: a PlTail and a PlTerm.
RowRefs == 2

\* PlTypeError("text", t) and PlResourceError().
TypeErrorRefs     == 9
ResourceErrorRefs == 1

\* PlException(ex).cppThrow(): the exception, the argument it inspects and,
\* for an error term that has a C++ class, the object of that class.
ThrowRefs(e) == IF e \in {"error", "resource"} THEN 3 ELSE 2

(***************************************************************************)
(* Calls and returns.                                                      *)
(***************************************************************************)

Outcomes == {"none", "value", "not initialized", "argument", "conversion",
             "exception", "failed to initialise"}

Answers == Solutions \cup Files \cup {"true"}

Origins == {"earlier", "goal", "cleanup"}

NoReply == [fn |-> "none", kind |-> "none", val |-> <<>>, produced |-> <<>>,
            more |-> FALSE, blame |-> {}, leak |-> 0]

\* What of an earlier call may still bother a new one.
Inherited == IF exception_term = NoException THEN {} ELSE {"earlier"}

\* The state of a call that begins when top words of the stack are in use.
BeginCall(f, top) ==
  /\ fn' = f
  /\ r' = <<>>
  /\ produced' = <<>>
  /\ more' = FALSE
  /\ blame' = Inherited
  /\ base' = top
  /\ reply' = NoReply

\* The wrappers of RcppExports.cpp hand a value or an error back to R.  s are
\* the registers the call leaves behind, and no object of the call survives.
EndCall(kind, val, b, s) ==
  /\ reply' = [fn |-> fn, kind |-> kind, val |-> val, produced |-> produced,
               more |-> more, blame |-> b, leak |-> s.lTop - base]
  /\ ld' = s
  /\ pc' = "R"
  /\ fn' = "none"
  /\ fid' = 0
  /\ qid' = 0
  /\ files' = <<>>
  /\ r' = <<>>
  /\ produced' = <<>>
  /\ more' = FALSE
  /\ blame' = {}
  /\ base' = 0

\* A call that is over before it touches the stacks.
Answer(f, kind, val) ==
  /\ reply' = [NoReply EXCEPT !.fn = f, !.kind = kind, !.val = val]
  /\ UNCHANGED callVars

Idle == process = "up" /\ pc = "R"

RoomForCall == ld.lTop <= RefLimit

(***************************************************************************)
(* Entry points.                                                           *)
(***************************************************************************)

\* The arguments of f are built on the registers s: the query can be opened,
\* or a constructor throws.
BuildArguments(f, s, top) ==
  \/ /\ BeginCall(f, top)
     /\ ld' = PL_new_term_refs(s, ArgRefs[f])
     /\ pc' = "open"
     /\ UNCHANGED <<qid, files>>
  \/ /\ f # "string"
     /\ ld' = PL_new_term_refs(s, ArgErrorRefs[f])
     /\ reply' = [NoReply EXCEPT !.fn = f, !.kind = "argument",
                                 !.blame = Inherited,
                                 !.leak = ArgErrorRefs[f]]
     /\ UNCHANGED <<pc, fn, r, produced, more, blame, base, qid, files>>

\* rolog_query, rolog_query_LL and rolog_query_comp.
RologQuery(f) ==
  /\ Idle /\ RoomForCall
  /\ gd.initialised
  /\ BuildArguments(f, ld, ld.lTop)
  /\ UNCHANGED <<process, gd, exception_term, rolog_engine, fid>>

\* rolog_query_string: the only entry point with a PlFrame.
RologQueryString ==
  /\ Idle /\ RoomForCall
  /\ gd.initialised
  /\ fid' = Len(ld.lstack) + 1
  /\ BuildArguments("string", PL_open_foreign_frame(ld), ld.lTop)
  /\ UNCHANGED <<process, gd, exception_term, rolog_engine>>

\* None of the four looks at rolog_engine.  Without an engine the first
\* foreign language function they call brings the process down.
QueryWithoutEngine ==
  /\ Idle
  /\ ~gd.initialised
  /\ process' = "dead"
  /\ UNCHANGED <<gd, ld, exception_term, rolog_engine, callVars, reply>>

RologCall ==
  /\ Idle /\ RoomForCall
  /\ IF rolog_engine
       THEN BuildArguments("call", ld, ld.lTop)
       ELSE Answer("call", "not initialized", <<>>) /\ UNCHANGED ld
  /\ UNCHANGED <<process, gd, exception_term, rolog_engine, fid>>

RologConsult ==
  /\ Idle /\ RoomForCall
  /\ \E n \in 0 .. MaxFiles : \E prolog_files \in [1 .. n -> Files] :
       CASE ~rolog_engine -> Answer("consult", "not initialized", <<>>)
         [] rolog_engine /\ n = 0 -> Answer("consult", "value", <<>>)
         [] OTHER -> /\ BeginCall("consult", ld.lTop)
                     /\ files' = prolog_files
                     /\ pc' = "file"
                     /\ UNCHANGED qid
  /\ UNCHANGED <<engineVars, rolog_engine, fid>>

ConsultFile ==
  /\ process = "up" /\ pc = "file"
  /\ ld' = PL_new_term_refs(ld, ArgRefs["consult"])
  /\ pc' = "open"
  /\ UNCHANGED <<process, gd, exception_term, rolog_engine, fn, fid, qid,
                 files, r, produced, more, blame, base, reply>>

\* The stacks after PL_initialise(): it leaves an engine alone that is
\* initialised, and gives a new one empty stacks.
InitialisedStacks(g) ==
  IF gd.initialised THEN ld ELSE IF g.initialised THEN EmptyStacks ELSE NoStacks

\* rolog_init with no engine yet: the constructor of PlEngine throws, or the
\* goal that asserts the library directory is built.
RologInit ==
  /\ Idle /\ RoomForCall
  /\ IF rolog_engine
       THEN BuildArguments("init", ld, ld.lTop) /\ UNCHANGED <<gd, rolog_engine>>
       ELSE \E o \in PL_initialise(gd) :
              /\ gd' = o.gd
              /\ rolog_engine' = o.rval
              /\ IF o.rval
                   THEN LET s == InitialisedStacks(o.gd)
                        IN  BuildArguments("init", s, s.lTop)
                   ELSE /\ Answer("init", "failed to initialise", <<>>)
                        /\ ld' = InitialisedStacks(o.gd)
  /\ UNCHANGED <<process, exception_term, fid>>

\* PL_initialise() gives up by fatalError() or by PL_halt(): a saved state
\* without $state, an option such as --version, or a goal that halts.
InitialiseExits ==
  /\ Idle
  /\ ~rolog_engine /\ ~gd.initialised
  /\ process' = "exited"
  /\ UNCHANGED <<gd, ld, exception_term, rolog_engine, callVars, reply>>

\* rolog_exit: PL_cleanup(0) runs the at_halt/1 handlers in query_loop(),
\* which first clears the pending exception and, unless there are global
\* variables to keep, the stacks.  A handler may cancel; the value that says
\* so is ignored by ~PlEngine(), and rolog_engine is NULL in either case.
RologExit ==
  /\ Idle
  /\ rolog_engine' = FALSE
  /\ Answer("exit", "value", <<>>)
  /\ IF rolog_engine
       THEN /\ exception_term' = NoException
            /\ \/ gd' = ZeroData /\ ld' = NoStacks
               \/ /\ MayCancel(gd)
                  /\ gd' = CancelHalt(gd)
                  /\ ld' \in {ld, EmptyStacks}
       ELSE UNCHANGED <<gd, ld, exception_term>>
  /\ UNCHANGED process

(***************************************************************************)
(* The query of the active call.                                           *)
(***************************************************************************)

\* PlQuery::PlQuery(): PL_open_query() may find no room, which leaves a
\* resource error pending.
OpenQuery ==
  /\ process = "up" /\ pc = "open"
  /\ \/ /\ ld' = PL_open_query(ld)
        /\ qid' = ld'.query
        /\ pc' = "next"
        /\ UNCHANGED <<exception_term, blame>>
     \/ /\ ld' = PL_new_term_refs(ld, ResourceErrorRefs)
        /\ exception_term' = PL_raise_exception(exception_term, "resource")
        /\ blame' = blame \cup {"goal"}
        /\ pc' = "unwind"
        /\ UNCHANGED qid
  /\ UNCHANGED <<process, gd, rolog_engine, fn, fid, files, r, produced, more,
                 base, reply>>

\* Mutant: PL_next_solution() asks a deterministic goal again.
AskAgain ==
  /\ process = "up" /\ pc = "next"
  /\ ld.lstack[qid].deterministic
  /\ ld' = Retry(ld, qid)
  /\ UNCHANGED <<process, gd, exception_term, rolog_engine, callVars, reply>>

\* PL_next_solution() after a solution that left no choice point: the machine
\* is not entered again, and a pending exception stays as it is.
NoChoicePoint ==
  /\ process = "up" /\ pc = "next"
  /\ ld.lstack[qid].deterministic
  /\ ld' = Retry(ld, qid)
  /\ pc' = "failed"
  /\ UNCHANGED <<process, gd, exception_term, rolog_engine, fn, fid, qid, files,
                 r, produced, more, blame, base, reply>>

\* The answers the goal of the active call may give.
GoalAnswers ==
  CASE fn \in Queries \cup {"string"} -> Solutions
    [] fn = "consult"                 -> {files[1]}
    [] OTHER                          -> {"true"}

\* The machine runs the goal until it leaves with an answer, fails, or is left
\* by an exception.  The goal of rolog_init is asserta/1: it succeeds once,
\* and as a foreign predicate that succeeds it clears a stale exception.
RunGoal ==
  /\ process = "up" /\ pc = "next"
  /\ ~ld.lstack[qid].deterministic
  /\ LET s == Retry(ld, qid) IN
     \/ /\ fn # "init"
        /\ Len(produced) < MaxSolutions
        /\ \E x \in GoalAnswers, det \in BOOLEAN :
             /\ produced' = Append(produced, x)
             /\ more' = ~det
             /\ ld' = LeaveVM(s, qid, det)
        /\ exception_term' \in RunQuietly(exception_term)
        /\ pc' = "row"
        /\ UNCHANGED <<gd, blame>>
     \/ /\ fn = "init"
        /\ produced' = <<"true">>
        /\ ld' = LeaveVM(s, qid, TRUE)
        /\ exception_term' = NoException
        /\ gd' = [gd EXCEPT !.library = TRUE]
        /\ pc' = "row"
        /\ UNCHANGED <<more, blame>>
     \/ /\ fn # "init"
        /\ ld' = LeaveVM(s, qid, TRUE)
        /\ exception_term' \in RunQuietly(exception_term)
        /\ more' = FALSE
        /\ pc' = "failed"
        /\ UNCHANGED <<gd, produced, blame>>
     \/ /\ ld' = LeaveVM(s, qid, TRUE)
        /\ exception_term' \in RunAndRaise(exception_term)
        /\ blame' = blame \cup {"goal"}
        /\ more' = FALSE
        /\ pc' = "failed"
        /\ UNCHANGED <<gd, produced>>
     \/ /\ fn # "init"
        /\ ld' = LeaveVM(s, qid, TRUE)
        /\ exception_term' \in RunAndRethrow(exception_term)
        /\ more' = FALSE
        /\ pc' = "failed"
        /\ UNCHANGED <<gd, produced, blame>>
  /\ UNCHANGED <<process, rolog_engine, fn, fid, qid, files, r, base, reply>>

\* The goal calls halt/0: the process exits, or a handler cancels and halt/0
\* fails.  query_loop() keeps the stacks because a query is active, but it
\* does clear the pending exception.
GoalHalts ==
  /\ process = "up" /\ pc = "next" /\ fn # "init"
  /\ ~ld.lstack[qid].deterministic
  /\ \/ process' = "exited" /\ UNCHANGED <<gd, exception_term>>
     \/ /\ MayCancel(gd)
        /\ gd' = CancelHalt(gd)
        /\ exception_term' = NoException
        /\ UNCHANGED process
  /\ UNCHANGED <<ld, rolog_engine, callVars, reply>>

\* rolog_consult goes on to the next file, or returns.
NextFile(loaded, b, s) ==
  IF Len(files) = 1
    THEN EndCall("value", loaded, b, s)
    ELSE /\ ld' = s
         /\ files' = Tail(files)
         /\ r' = loaded
         /\ blame' = b
         /\ qid' = 0
         /\ pc' = "file"
         /\ UNCHANGED <<fn, fid, produced, more, base, reply>>

\* ~PlFrame() of a call that has one.
CloseFrame(s) == IF fid = 0 THEN s ELSE PL_close_foreign_frame(s, fid)

\* PlQuery::next_solution() on FALSE: the query is closed, and the pending
\* exception is thrown if there is one, whoever raised it.
Failed ==
  /\ process = "up" /\ pc = "failed"
  /\ LET s == PL_close_query(ld, qid) IN
     IF exception_term # NoException
       THEN /\ ld' = PL_new_term_refs(s, ThrowRefs(exception_term))
            /\ qid' = 0
            /\ pc' = "unwind"
            /\ UNCHANGED <<fn, fid, files, r, produced, more, blame, base, reply>>
       ELSE IF fn = "consult" THEN NextFile(r, blame, s)
                              ELSE EndCall("value", r, blame, CloseFrame(s))
  /\ UNCHANGED <<process, gd, exception_term, rolog_engine>>

\* The exceptions met so far, when the pending one becomes p by running
\* cleanup handlers.
Cleaned(p) == IF p = exception_term THEN blame ELSE blame \cup {"cleanup"}

\* Mutant: the binding of the first answer was not taken back.
FirstAnswer == produced[1]

\* The answer that arg[1] is bound to.
LastAnswer == produced[Len(produced)]

\* PlQuery::next_solution() on TRUE.  The loops of rolog_query, rolog_query_LL
\* and rolog_query_comp convert the answer while the query is open; text
\* always converts.  The others take one answer and cut the query.
Row ==
  /\ process = "up" /\ pc = "row"
  /\ \/ /\ fn \in Queries
        /\ IF fn # "comp" /\ LastAnswer \in Unconvertible
             THEN /\ ld' = PL_new_term_refs(ld, TypeErrorRefs)
                  /\ pc' = "unwind"
                  /\ UNCHANGED r
             ELSE /\ ld' = PL_new_term_refs(ld, RowRefs)
                  /\ r' = Append(r, LastAnswer)
                  /\ pc' = "next"
        /\ UNCHANGED <<exception_term, fn, fid, qid, files, produced, more,
                       blame, base, reply>>
     \/ /\ fn \notin Queries
        /\ exception_term' \in CutException(ld, qid, exception_term)
        /\ LET s == PL_cut_query(ld, qid)
               b == Cleaned(exception_term')
           IN  CASE fn = "string" ->
                      /\ ld' = s
                      /\ qid' = 0
                      /\ blame' = b
                      /\ pc' = "read"
                      /\ UNCHANGED <<fn, fid, files, r, produced, more, base,
                                     reply>>
                 [] fn = "consult" -> NextFile(Append(r, LastAnswer), b, s)
                 [] OTHER -> EndCall("value", <<>>, b, s)
  /\ UNCHANGED <<process, gd, rolog_engine>>

\* rolog_query_string after PlCall() returned TRUE: the query is gone, the
\* binding of arg[1] is not, because the query was cut.
Read ==
  /\ process = "up" /\ pc = "read"
  /\ IF LastAnswer \in Unconvertible
       THEN /\ ld' = PL_new_term_refs(ld, TypeErrorRefs)
            /\ pc' = "unwind"
            /\ UNCHANGED <<fn, fid, qid, files, r, produced, more, blame, base,
                           reply>>
       ELSE EndCall("value", <<LastAnswer>>, blame, CloseFrame(ld))
  /\ UNCHANGED <<process, gd, exception_term, rolog_engine>>

\* Why a call is unwound: a value that does not convert leaves its answer as
\* the last one, and nothing in r for it.
UnwindKind ==
  IF \/ fn \in Queries /\ qid # 0
     \/ fn = "string" /\ produced # <<>>
    THEN "conversion" ELSE "exception"

\* The destructors on the way: ~PlQuery() cuts a query that is still open,
\* ~PlFrame() closes the frame.
Unwind ==
  /\ process = "up" /\ pc = "unwind"
  /\ IF qid = 0
       THEN /\ EndCall(UnwindKind, <<>>, blame, CloseFrame(ld))
            /\ UNCHANGED exception_term
       ELSE /\ exception_term' \in CutException(ld, qid, exception_term)
            /\ EndCall(UnwindKind, <<>>, Cleaned(exception_term'),
                       CloseFrame(PL_cut_query(ld, qid)))
  /\ UNCHANGED <<process, gd, rolog_engine>>

(***************************************************************************)
(* The specification.                                                      *)
(***************************************************************************)

Init ==
  /\ process = "up"
  /\ gd = ZeroData
  /\ ld = NoStacks
  /\ exception_term = NoException
  /\ rolog_engine = FALSE
  /\ pc = "R" /\ fn = "none"
  /\ fid = 0 /\ qid = 0
  /\ files = <<>> /\ r = <<>> /\ produced = <<>>
  /\ more = FALSE /\ blame = {} /\ base = 0
  /\ reply = NoReply

\* The steps R takes.
CallFromR ==
  \/ \E f \in Queries : RologQuery(f)
  \/ RologQueryString
  \/ QueryWithoutEngine
  \/ RologCall
  \/ RologConsult
  \/ RologInit
  \/ InitialiseExits
  \/ RologExit

\* The steps of the active call.
CallStep ==
  \/ ConsultFile
  \/ OpenQuery
  \/ NoChoicePoint
  \/ RunGoal
  \/ GoalHalts
  \/ Failed
  \/ Row
  \/ Read
  \/ Unwind

\* The process has ended.
Ended == process # "up" /\ UNCHANGED vars

Next == CallFromR \/ CallStep \/ Ended

\* R need not make another call, but a call that was made runs.
Spec == Init /\ [][Next]_vars /\ WF_vars(CallStep)

(***************************************************************************)
(* Properties.                                                             *)
(***************************************************************************)

\* The variables have their types.
TypeOK ==
  /\ process \in {"up", "exited", "dead"}
  /\ gd \in GlobalData
  /\ ld \in Registers
  /\ exception_term \in Pending
  /\ rolog_engine \in BOOLEAN
  /\ pc \in {"R", "file", "open", "next", "row", "failed", "read", "unwind"}
  /\ fn \in EntryPoints \cup {"none"}
  /\ fid \in Nat /\ qid \in Nat
  /\ files \in Seq(Files)
  /\ r \in Seq(Answers) /\ produced \in Seq(Answers)
  /\ more \in BOOLEAN /\ blame \in SUBSET Origins
  /\ base \in Nat
  /\ reply.fn \in EntryPoints \cup {"none"} /\ reply.kind \in Outcomes

\* When R has the control and there is an engine, every query and every
\* foreign frame that a call opened is gone, on the paths that throw too: the
\* base frame is the only frame, it is the context, and no query is active.
StackBalanced ==
  pc = "R" /\ gd.initialised =>
    /\ ld.lstack = <<FliFrame(0, 0)>>
    /\ ld.fli_context = 1
    /\ ld.query = 0

\* Wherever the bridge creates term references, the current foreign frame is
\* the newest frame of the stack and lies above the active query.  Otherwise
\* PL_new_term_refs() calls fatalError("No foreign environment"), and
\* PL_open_query() fails its assertion.
ContextCurrent ==
  process = "up" /\ gd.initialised /\ pc \notin {"next", "failed"} =>
    /\ ForeignEnvironment(ld)
    /\ ld.fli_context = Len(ld.lstack)

\* The shapes of the local stack.  d is the number of frames below the query
\* of the active call: the base frame, and the PlFrame if there is one.
Below(s, d) ==
  /\ d \in {1, 2}
  /\ s.lstack[1] = FliFrame(0, 0)
  /\ d = 2 => s.lstack[2].link = 1

\* No query is open.
Resting(s, d) ==
  /\ Below(s, d)
  /\ Len(s.lstack) = d
  /\ s.fli_context = d
  /\ s.query = 0

\* The query is open and has no foreign frame.
Opened(s, d) ==
  /\ Below(s, d)
  /\ Len(s.lstack) = d + 1
  /\ s.fli_context = d
  /\ s.query = d + 1
  /\ s.lstack[d + 1].link = 0
  /\ s.lstack[d + 1].foreign_frame = 0

\* The query is open and C looks at its answer.
Answered(s, d) ==
  /\ Below(s, d)
  /\ Len(s.lstack) = d + 2
  /\ s.fli_context = d + 2
  /\ s.query = d + 1
  /\ s.lstack[d + 1].link = 0
  /\ s.lstack[d + 1].foreign_frame = d + 2
  /\ s.lstack[d + 2].link = d

Depth == IF fn = "string" THEN 2 ELSE 1

\* At every step of a call the handles the C++ objects keep, PlFrame::fid and
\* PlQuery::qid, name the frames the engine has for them, and these are the
\* only frames above the base frame.
FramesMatchHandles ==
  /\ fid = IF fn = "string" THEN 2 ELSE 0
  /\ gd.initialised =>
       /\ pc \in {"R", "file", "open", "read"} => qid = 0 /\ Resting(ld, Depth)
       /\ pc \in {"next", "failed"} =>
            qid = Depth + 1 /\ (Opened(ld, Depth) \/ Answered(ld, Depth))
       /\ pc = "row" => qid = Depth + 1 /\ Answered(ld, Depth)
       /\ pc = "unwind" =>
            \/ qid = 0 /\ Resting(ld, Depth)
            \/ qid = Depth + 1 /\ Answered(ld, Depth)
  /\ ~gd.initialised => pc = "R" /\ qid = 0 /\ ld = NoStacks

\* The pointer that rolog_call and rolog_consult test is never set while the
\* engine is down: what they protect is really protected.
EngineAlive == rolog_engine => gd.initialised

\* A list that rolog_query, rolog_query_LL or rolog_query_comp returns holds
\* every answer the goal gave, in that order, and the goal was asked until it
\* had no more; rolog_consult returns the files
\* that were loaded, in that order.
AllSolutions ==
  reply.kind = "value" =>
    /\ reply.fn \in Queries => reply.val = reply.produced /\ ~reply.more
    /\ reply.fn = "consult" => reply.val = reply.produced

\* An exception that the goal of a call raises and does not catch reaches R:
\* no call returns a value after one.
NoSwallowedException ==
  reply.kind = "value" => "goal" \notin reply.blame

\* A call fails with a Prolog exception only if its goal or one of its cleanup
\* handlers raised one, or one was pending when it began.
ExceptionHasOrigin ==
  reply.kind = "exception" => reply.blame # {}

\* What a call leaves on the local stack does not depend on the number of its
\* answers: its arguments, and what the exception it ends with needs.  A
\* rolog_query_string, the one that has a PlFrame, leaves nothing.
BoundedLeak ==
  CASE reply.fn = "string"  -> reply.leak = 0
    [] reply.fn = "consult" -> reply.leak <= MaxFiles + 3
    [] reply.fn \in Queries \cup {"call", "init"} ->
         \/ reply.leak = ArgRefs[reply.fn] /\ reply.kind \in {"value", "conversion"}
         \/ reply.leak <= ArgRefs[reply.fn] + 3
              /\ reply.kind \in {"argument", "exception", "not initialized",
                                 "failed to initialise"}
    [] OTHER -> reply.leak = 0

\* After rolog_init returned, the engine is usable: the pointer is set, the
\* library directory is known, and no stale exception is left for the next
\* call to trip over.
InitMakesUsable ==
  pc = "R" /\ reply.fn = "init" /\ reply.kind = "value" =>
    rolog_engine /\ gd.library /\ exception_term = NoException

\* A call that R makes comes back, unless the process ends.
CallReturns == [](pc # "R" => <>(pc = "R" \/ process # "up"))

(***************************************************************************)
(* What the documentation says and the code does not do.                   *)
(***************************************************************************)

\* foreign.doc: PL_clear_exception() "must be called if control remains in C
\* after a previous API call fails with an exception".  If that were done, a
\* call could not fail with an exception that an earlier call already
\* reported.
OwnException ==
  reply.kind = "exception" => reply.blame # {"earlier"}

\* rolog_query_string.Rd: "return a character vector with all solutions".
\* PlCall() stops at the first: a goal that has choice points is cut.
AllSolutionsString ==
  reply.kind = "value" /\ reply.fn = "string" => ~reply.more

\* rolog_exit.Rd: "stops the prolog interpreter".
ExitStops ==
  reply.fn = "exit" => ~gd.initialised

\* foreign.doc on PL_initialise(): "returns 1 if all initialisation succeeded
\* and 0 otherwise".
InitMeansBooted ==
  reply.fn = "init" /\ reply.kind = "value" => gd.booted

\* foreign.doc: "PL_initialise() must be called before any of the other
\* SWI-Prolog foreign language functions".
EngineBeforeUse == process # "dead"

=============================================================================
