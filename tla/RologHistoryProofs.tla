------------------------- MODULE RologHistoryProofs -------------------------
(***************************************************************************)
(* Proofs about what a call of RologSession hands back to R: the answers   *)
(* it collected, the exceptions it reports and the words it leaves on the  *)
(* local stack.  Each is a statement about a whole call, so the invariants *)
(* below say what the call has done so far.                                *)
(***************************************************************************)
EXTENDS RologSessionProofs

(***************************************************************************)
(* The inductive invariants, one for each thing a reply tells.             *)
(***************************************************************************)

Loops == Queries \cup {"consult"}

\* The query of the active call left no choice points.
Exhausted == ld.lstack[qid].deterministic

\* The R value of a loop holds the answers so far, all but the one that is
\* being converted, and a goal that left no choice points has no more.
Collected ==
  /\ fn \in Loops /\ pc \in {"file", "open", "next", "failed"} => r = produced
  /\ fn \in Loops /\ pc = "row" => produced = Append(r, LastAnswer)
  /\ fn \in Queries /\ pc \in {"open", "failed"} => ~more
  /\ fn \in Queries /\ pc \in {"next", "row"} /\ Exhausted => ~more

\* A call whose goal raised an exception is on its way to report it.
Reporting ==
  "goal" \in blame =>
    pc = "unwind" \/ (pc = "failed" /\ exception_term # NoException)

\* A pending exception comes from somewhere, and a call is unwound because of
\* an exception or of an answer that does not convert.
Explained ==
  /\ pc # "R" /\ exception_term # NoException => blame # {}
  /\ pc = "unwind" => blame # {} \/ UnwindKind = "conversion"

\* The calls that open a query and have no frame of their own.
Single == Queries \cup {"call", "init"}

\* Where the stack stood when the query was opened, relative to the beginning
\* of the call: what leaving the query goes back to.
Measured ==
  /\ pc # "R" => fn \in Single \cup {"string", "consult"}
  /\ pc = "unwind" /\ qid # 0 => fn \in Queries
  /\ fn \in Single =>
       /\ pc = "open" => ld.lTop = base + ArgRefs[fn]
       /\ qid # 0 => ld.lstack[qid].at = base + ArgRefs[fn]
       /\ pc = "unwind" /\ qid = 0 => ld.lTop <= base + ArgRefs[fn] + 3
  /\ fn = "string" => ld.lstack[2].at = base
  /\ fn = "consult" =>
       /\ pc = "file" => ld.lTop + Len(files) <= base + MaxFiles
       /\ pc = "open" => ld.lTop + Len(files) <= base + MaxFiles + 1
       /\ qid # 0 => ld.lstack[qid].at + Len(files) <= base + MaxFiles + 1
       /\ pc = "unwind" => ld.lTop <= base + MaxFiles + 3

\* rolog_init runs a goal that succeeds once or raises an exception.
Prepared ==
  fn = "init" =>
    /\ rolog_engine
    /\ pc = "next" => ~Exhausted
    /\ pc = "row" => gd.library /\ exception_term = NoException /\ Exhausted
    /\ pc = "failed" => exception_term # NoException

\* What the active call has done so far.
Progress == Collected /\ Reporting /\ Explained /\ Measured /\ Prepared

\* What the last call told R.
Accounted ==
  /\ AllSolutions
  /\ NoSwallowedException
  /\ ExceptionHasOrigin
  /\ BoundedLeak
  /\ InitMakesUsable

\* The invariant that is inductive.
HInv == IInv /\ Progress /\ Accounted

(***************************************************************************)
(* What the operations of the engine do to the words of the local stack.   *)
(***************************************************************************)

\* PL_new_term_refs() takes n words.
LEMMA NewTermRefsWords ==
  ASSUME NEW s \in Registers, NEW n \in Nat
  PROVE  PL_new_term_refs(s, n).lTop = s.lTop + n
BY DEF PL_new_term_refs, Registers

\* A foreign frame remembers where it begins, and closing it goes back there.
LEMMA PlFrameWords ==
  ASSUME NEW s \in Registers
  PROVE  /\ Resting(s, 1) => PL_open_foreign_frame(s).lstack[2].at = s.lTop
         /\ PL_close_foreign_frame(s, 2).lTop = s.lstack[2].at
<1>1. ASSUME Resting(s, 1)
      PROVE  PL_open_foreign_frame(s).lstack[2].at = s.lTop
  <2>. DEFINE f == FliFrame(s.lTop, s.fli_context)
  <2>1. f \in Frame /\ f.at = s.lTop
    BY RegisterFields, MakeFrames DEF FliFrame
  <2>2. PL_open_foreign_frame(s).lstack = Append(s.lstack, f)
    BY DEF PL_open_foreign_frame
  <2>. HIDE DEF f
  <2>3. s.lstack \in Seq(Frame) /\ Len(s.lstack) = 1
    BY <1>1, RegisterFields DEF Resting
  <2>4. Append(s.lstack, f)[2] = f
    <3>1. Append(s.lstack, f)[Len(s.lstack) + 1] = f
      BY <2>1, <2>3, AppendFrame
    <3>2. Len(s.lstack) + 1 = 2
      BY <2>3
    <3>. QED
      BY <3>1, <3>2, Zenon
  <2>. QED
    BY <2>1, <2>2, <2>4
<1>2. PL_close_foreign_frame(s, 2).lTop = s.lstack[2].at
  BY DEF PL_close_foreign_frame
<1>. QED
  BY <1>1, <1>2

\* A query begins where the stack ended, and has not left the machine.
LEMMA OpenQueryWords ==
  ASSUME NEW s \in Registers, NEW d \in {1, 2}, Resting(s, d),
         NEW t, t = PL_open_query(s)
  PROVE  /\ t.lstack[d + 1].at = s.lTop
         /\ ~t.lstack[d + 1].deterministic
         /\ \A i \in 1 .. d : t.lstack[i] = s.lstack[i]
<1>. DEFINE f == QueryFrame(s.lTop, s.query)
            l == Append(s.lstack, f)
<1>1. t.lstack = l
  BY DEF PL_open_query
<1>2. f \in Frame /\ f.at = s.lTop /\ f.deterministic = FALSE
  BY RegisterFields, MakeFrames DEF QueryFrame
<1>. HIDE DEF f
<1>3. s.lstack \in Seq(Frame) /\ Len(s.lstack) = d
  BY RegisterFields DEF Resting
<1>4. l[d + 1] = f /\ \A i \in 1 .. d : l[i] = s.lstack[i]
  BY <1>2, <1>3, AppendFrame
<1>. QED
  BY <1>1, <1>2, <1>4

\* Closing the foreign frame of a query touches neither the query nor what is
\* below it.
LEMMA CloseForeignFrameWords ==
  ASSUME NEW s \in Registers, NEW d \in {1, 2}, Opened(s, d) \/ Answered(s, d),
         NEW t, t = CloseForeignFrame(s, d + 1)
  PROVE  \A i \in 1 .. d + 1 : t.lstack[i] = s.lstack[i]
<1>1. CASE Opened(s, d)
  BY <1>1 DEF Opened, CloseForeignFrame
<1>2. CASE Answered(s, d)
  <2>1. t = PL_close_foreign_frame(s, d + 2)
    BY <1>2 DEF Answered, CloseForeignFrame
  <2>2. d + 2 \in 1 .. Len(s.lstack)
    BY <1>2 DEF Answered
  <2>3. \A i \in 1 .. (d + 2) - 1 : t.lstack[i] = s.lstack[i]
    BY <2>1, <2>2, CloseForeign
  <2>. QED
    BY <2>3
<1>. QED
  BY <1>1, <1>2

\* Leaving a query gives back every word since it was opened.
LEMMA LeaveQueryWords ==
  ASSUME NEW s \in Registers, NEW d \in {1, 2}, Opened(s, d) \/ Answered(s, d),
         NEW u, u = PL_cut_query(s, d + 1) \/ u = PL_close_query(s, d + 1)
  PROVE  /\ u.lTop = s.lstack[d + 1].at
         /\ \A i \in 1 .. d : u.lstack[i] = s.lstack[i]
<1>. DEFINE t == CloseForeignFrame(s, d + 1)
<1>1. u = RestoreAfterQuery(t, d + 1)
  BY DEF PL_cut_query, PL_close_query
<1>2. /\ t \in Registers
      /\ Len(t.lstack) = d + 1
      /\ \A i \in 1 .. d + 1 : t.lstack[i] = s.lstack[i]
  <2>1. t \in Registers /\ Len(t.lstack) = d + 1
    BY CloseForeignFrameShape
  <2>2. \A i \in 1 .. d + 1 : t.lstack[i] = s.lstack[i]
    BY CloseForeignFrameWords
  <2>. QED
    BY <2>1, <2>2
<1>. HIDE DEF t
<1>3. u.lTop = t.lstack[d + 1].at
  BY <1>1 DEF RestoreAfterQuery
<1>4. t.lstack[d + 1] = s.lstack[d + 1]
  BY <1>2
<1>5. \A i \in 1 .. (d + 1) - 1 : u.lstack[i] = t.lstack[i]
  <2>1. d + 1 \in 1 .. Len(t.lstack)
    BY <1>2
  <2>. QED
    BY <1>1, <1>2, <2>1, RestoreQuery, SMTT(30)
<1>. QED
  BY <1>2, <1>3, <1>4, <1>5

\* Asking again keeps where the query began and what it left behind.
LEMMA RetryWords ==
  ASSUME NEW s \in Registers, NEW d \in {1, 2}, Opened(s, d) \/ Answered(s, d),
         NEW u, u = Retry(s, d + 1)
  PROVE  /\ u.lstack[d + 1].at = s.lstack[d + 1].at
         /\ u.lstack[d + 1].deterministic = s.lstack[d + 1].deterministic
         /\ \A i \in 1 .. d : u.lstack[i] = s.lstack[i]
<1>. DEFINE t == CloseForeignFrame(s, d + 1)
            g == t.lstack[d + 1]
            f == [g EXCEPT !.foreign_frame = 0]
<1>1. u = [t EXCEPT !.lstack = [t.lstack EXCEPT ![d + 1] = f]]
  BY DEF Retry
<1>2. /\ t \in Registers
      /\ Len(t.lstack) = d + 1
      /\ \A i \in 1 .. d + 1 : t.lstack[i] = s.lstack[i]
  <2>1. t \in Registers /\ Len(t.lstack) = d + 1
    BY CloseForeignFrameShape
  <2>2. \A i \in 1 .. d + 1 : t.lstack[i] = s.lstack[i]
    BY CloseForeignFrameWords
  <2>. QED
    BY <2>1, <2>2
<1>. HIDE DEF t
<1>3. d + 1 \in 1 .. Len(t.lstack)
  BY <1>2
<1>4. g \in Frame /\ g = s.lstack[d + 1]
  BY <1>2, <1>3, RegisterFields
<1>. HIDE DEF g
<1>5. f \in Frame /\ f.at = g.at /\ f.deterministic = g.deterministic
  BY <1>4 DEF Frame
<1>. HIDE DEF f
<1>6. /\ \A i \in 1 .. d + 1 : i # d + 1 => u.lstack[i] = t.lstack[i]
      /\ u.lstack[d + 1] = f
  BY <1>1, <1>2, <1>3, <1>5, ReplaceFrame
<1>. QED
  BY <1>2, <1>4, <1>5, <1>6

\* Leaving the machine notes whether there are choice points left.
LEMMA LeaveVMWords ==
  ASSUME NEW s \in Registers, NEW d \in {1, 2}, Opened(s, d), NEW det \in BOOLEAN,
         NEW u, u = LeaveVM(s, d + 1, det)
  PROVE  /\ u.lstack[d + 1].at = s.lstack[d + 1].at
         /\ u.lstack[d + 1].deterministic = det
         /\ \A i \in 1 .. d : u.lstack[i] = s.lstack[i]
<1>. DEFINE t == PL_open_foreign_frame(s)
            g == t.lstack[d + 1]
            n == t.fli_context
            f == [g EXCEPT !.foreign_frame = n, !.deterministic = det]
<1>1. u = [t EXCEPT !.lstack = [t.lstack EXCEPT ![d + 1] = f]]
  BY DEF LeaveVM
<1>2. Len(s.lstack) = d + 1
  BY DEF Opened
<1>3. /\ t \in Registers
      /\ Len(t.lstack) = d + 2
      /\ \A i \in 1 .. d + 1 : t.lstack[i] = s.lstack[i]
  BY <1>2, OpenForeignFrame
<1>. HIDE DEF t
<1>4. d + 1 \in 1 .. Len(t.lstack)
  BY <1>3
<1>5. g \in Frame /\ n \in Nat /\ g = s.lstack[d + 1]
  <2>1. g \in Frame /\ n \in Nat
    BY <1>3, <1>4, RegisterFields
  <2>2. g = s.lstack[d + 1]
    BY <1>3
  <2>. QED
    BY <2>1, <2>2
<1>. HIDE DEF g, n
<1>6. f \in Frame
  BY <1>5 DEF Frame
<1>7. f.at = g.at /\ f.deterministic = det
  BY <1>5 DEF Frame
<1>. HIDE DEF f
<1>8. /\ \A i \in 1 .. d + 2 : i # d + 1 => u.lstack[i] = t.lstack[i]
      /\ u.lstack[d + 1] = f
  BY <1>1, <1>3, <1>4, <1>6, ReplaceFrame
<1>. QED
  BY <1>3, <1>5, <1>7, <1>8


(***************************************************************************)
(* Calls that begin and end.                                               *)
(***************************************************************************)

\* Between two calls there is nothing to keep.
LEMMA RestProgress ==
  ASSUME pc' = "R", fn' = "none", "goal" \notin blame'
  PROVE  Progress'
<1>1. fn' \notin Queries /\ fn' \notin Loops /\ fn' \notin Single
  BY DEF Queries, Loops, Single
<1>2. Collected'
  BY <1>1 DEF Collected
<1>3. Reporting' /\ Explained' /\ Prepared'
  BY DEF Reporting, Explained, Prepared
<1>4. Measured'
  BY <1>1 DEF Measured
<1>. QED
  BY <1>2, <1>3, <1>4 DEF Progress

\* A step in the middle of a call tells R nothing.
LEMMA SilentStep ==
  ASSUME Accounted, reply' = reply, pc' # "R"
  PROVE  Accounted'
<1>1. AllSolutions' /\ NoSwallowedException' /\ ExceptionHasOrigin'
  BY DEF Accounted, AllSolutions, NoSwallowedException, ExceptionHasOrigin
<1>2. BoundedLeak'
  BY DEF Accounted, BoundedLeak
<1>3. InitMakesUsable'
  BY DEF InitMakesUsable
<1>. QED
  BY <1>1, <1>2, <1>3 DEF Accounted

\* What a call that returns has to show.
LEMMA EndCallTold ==
  ASSUME NEW s, NEW kind, NEW val, NEW b, EndCall(kind, val, b, s),
         s.lTop \in Nat, base \in Nat,
         kind \in {"value", "conversion", "exception"},
         kind = "value" => /\ fn \in Queries => val = produced /\ ~more
                           /\ fn = "consult" => val = produced
                           /\ "goal" \notin b
                           /\ fn = "init" => rolog_engine' /\ gd'.library
                                               /\ exception_term' = NoException,
         kind = "exception" => b # {},
         fn \in Single \cup {"string", "consult"},
         fn \in Single =>
           \/ s.lTop = base + ArgRefs[fn] /\ kind # "exception"
           \/ s.lTop <= base + ArgRefs[fn] + 3 /\ kind = "exception",
         fn = "string" => s.lTop = base,
         fn = "consult" => s.lTop <= base + MaxFiles + 3
  PROVE  Progress' /\ Accounted'
<1>1. /\ reply'.fn = fn /\ reply'.kind = kind /\ reply'.val = val
      /\ reply'.produced = produced /\ reply'.more = more /\ reply'.blame = b
      /\ reply'.leak = s.lTop - base
  BY DEF EndCall
<1>2. pc' = "R" /\ fn' = "none" /\ blame' = {}
  BY DEF EndCall
<1>3. Progress'
  BY <1>2, RestProgress
<1>4. AllSolutions' /\ NoSwallowedException' /\ ExceptionHasOrigin'
  BY <1>1 DEF AllSolutions, NoSwallowedException, ExceptionHasOrigin
<1>5. BoundedLeak'
  <2>1. CASE fn = "string"
    <3>1. reply'.fn = "string" /\ reply'.leak = 0
      BY <1>1, <2>1
    <3>. QED
      BY <3>1 DEF BoundedLeak, Queries
  <2>2. CASE fn = "consult"
    <3>1. reply'.fn = "consult" /\ reply'.leak <= MaxFiles + 3
      BY <1>1, <2>2, BoundsAssumption
    <3>. QED
      BY <3>1 DEF BoundedLeak, Queries
  <2>3. CASE fn \in Single
    <3>1. ArgRefs[fn] \in Nat /\ fn # "string" /\ fn # "consult"
      BY <2>3, RefsAreNumbers DEF Single, Queries
    <3>2. \/ s.lTop - base = ArgRefs[fn] /\ kind \in {"value", "conversion"}
          \/ s.lTop - base <= ArgRefs[fn] + 3 /\ kind = "exception"
      BY <2>3, <3>1
    <3>. QED
      BY <1>1, <2>3, <3>1, <3>2 DEF BoundedLeak, Single, Queries
  <2>. QED
    BY <2>1, <2>2, <2>3
<1>6. InitMakesUsable'
  BY <1>1 DEF InitMakesUsable
<1>. QED
  BY <1>3, <1>4, <1>5, <1>6 DEF Accounted

\* The ways in which a call is refused.
Refusals == {"not initialized", "failed to initialise"}

\* What a call that is over at once has to show.
LEMMA AnswerTold ==
  ASSUME HInv, pc = "R", NEW f \in {"call", "consult", "init", "exit"},
         NEW kind \in Refusals \cup {"value"},
         NEW val, val = <<>>,
         kind = "value" => f \in {"consult", "exit"},
         Answer(f, kind, val)
  PROVE  Progress' /\ Accounted'
<1>1. /\ reply'.fn = f /\ reply'.kind = kind /\ reply'.val = <<>>
      /\ reply'.produced = <<>> /\ reply'.blame = {}
  BY DEF Answer, NoReply
<1>2. reply'.fn = f /\ reply'.leak = 0
  BY DEF Answer, NoReply
<1>3. pc' = pc /\ fn' = fn /\ blame' = blame
  BY DEF Answer, callVars
<1>4. Progress'
  <2>1. fn = "none" /\ "goal" \notin blame
    BY DEF HInv, IInv, StepsMatchCall, Progress, Reporting
  <2>. QED
    BY <1>3, <2>1, RestProgress
<1>5. kind # "exception"
  BY Zenon DEF Refusals
<1>6. AllSolutions' /\ NoSwallowedException' /\ ExceptionHasOrigin'
  BY <1>1, <1>5 DEF AllSolutions, NoSwallowedException, ExceptionHasOrigin, Queries
<1>7. BoundedLeak'
  <2>1. ArgRefs["call"] = 2 /\ ArgRefs["init"] = 2 /\ f \notin Queries
    BY DEF ArgRefs, Queries
  <2>2. CASE f = "consult"
    <3>1. reply'.fn = "consult" /\ reply'.leak <= MaxFiles + 3
      BY <1>2, <2>2, BoundsAssumption
    <3>. QED
      BY <3>1 DEF BoundedLeak, Queries
  <2>3. CASE f = "exit"
    BY <1>2, <2>1, <2>3 DEF BoundedLeak
  <2>4. CASE f \in {"call", "init"}
    <3>1. ArgRefs[f] \in Nat /\ f # "string" /\ f # "consult"
      BY <2>1, <2>4
    <3>2. reply'.leak <= ArgRefs[f] + 3
      BY <1>2, <3>1
    <3>3. kind \in Refusals
      BY <2>4
    <3>. QED
      BY <1>1, <2>4, <3>1, <3>2, <3>3, Zenon DEF BoundedLeak, Queries, Refusals
  <2>. QED
    BY <2>2, <2>3, <2>4
<1>8. InitMakesUsable'
  BY <1>1, <1>5 DEF InitMakesUsable
<1>. QED
  BY <1>4, <1>6, <1>7, <1>8 DEF Accounted

\* A new call has met no exception but the one it inherits.
LEMMA InheritedFacts ==
  /\ "goal" \notin Inherited
  /\ exception_term # NoException => Inherited # {}
BY DEF Inherited

\* A call whose arguments were built, and one whose arguments were not.
LEMMA BuildArgumentsTold ==
  ASSUME HInv, pc = "R", NEW f \in Single \cup {"string"},
         NEW s \in Registers,
         NEW top \in Nat, BuildArguments(f, s, top),
         f # "string" => top = s.lTop,
         f = "string" => s.lstack[2].at = top,
         f = "init" => rolog_engine',
         exception_term' = exception_term
  PROVE  Progress' /\ Accounted'
<1>1. fn = "none" /\ "goal" \notin blame /\ qid = 0
  BY DEF HInv, IInv, FramesMatchHandles, StepsMatchCall, Progress, Reporting
<1>2. f # "consult" /\ ArgRefs[f] \in Nat /\ s.lTop \in Nat
  BY RefsAreNumbers, RegisterFields DEF Single, Queries
<1>3. CASE /\ BeginCall(f, top)
           /\ ld' = PL_new_term_refs(s, ArgRefs[f])
           /\ pc' = "open"
           /\ UNCHANGED <<qid, files>>
  <2>1. /\ fn' = f /\ r' = <<>> /\ produced' = <<>> /\ more' = FALSE
        /\ blame' = Inherited /\ base' = top /\ reply' = NoReply
    BY <1>3 DEF BeginCall
  <2>2. ld'.lTop = s.lTop + ArgRefs[f] /\ ld'.lstack = s.lstack
    BY <1>2, <1>3, NewTermRefs, NewTermRefsWords
  <2>3. Collected'
    BY <1>3, <2>1 DEF Collected
  <2>4. Reporting' /\ Explained'
    BY <1>3, <2>1, InheritedFacts DEF Reporting, Explained
  <2>5. Measured'
    <3>1. f \in Single => ld'.lTop = base' + ArgRefs[fn']
      BY <2>1, <2>2 DEF Single, Queries
    <3>2. f = "string" => ld'.lstack[2].at = base'
      BY <2>1, <2>2
    <3>. QED
      BY <1>1, <1>2, <1>3, <2>1, <3>1, <3>2 DEF Measured
  <2>6. Prepared'
    BY <1>3, <2>1 DEF Prepared
  <2>7. Accounted'
    <3>1. /\ reply'.fn = "none" /\ reply'.kind = "none" /\ reply'.leak = 0
      BY <2>1 DEF NoReply
    <3>2. "none" \notin Queries
      BY DEF Queries
    <3>. QED
      BY <3>1, <3>2 DEF Accounted, AllSolutions, NoSwallowedException,
                        ExceptionHasOrigin, BoundedLeak, InitMakesUsable
  <2>. QED
    BY <2>3, <2>4, <2>5, <2>6, <2>7 DEF Progress
<1>4. CASE /\ f # "string"
           /\ ld' = PL_new_term_refs(s, ArgErrorRefs[f])
           /\ reply' = [NoReply EXCEPT !.fn = f, !.kind = "argument",
                                       !.blame = Inherited,
                                       !.leak = ArgErrorRefs[f]]
           /\ UNCHANGED <<pc, fn, r, produced, more, blame, base, qid, files>>
  <2>1. reply'.fn = f /\ reply'.kind = "argument" /\ reply'.leak = ArgErrorRefs[f]
    BY <1>4 DEF NoReply
  <2>2. Progress'
    BY <1>1, <1>4, RestProgress
  <2>3. AllSolutions' /\ NoSwallowedException' /\ ExceptionHasOrigin'
          /\ InitMakesUsable'
    BY <2>1 DEF AllSolutions, NoSwallowedException, ExceptionHasOrigin,
                InitMakesUsable
  <2>4. BoundedLeak'
    <3>1. f \in Single /\ ArgErrorRefs[f] <= ArgRefs[f] + 3
      BY <1>4 DEF Single, Queries, ArgErrorRefs, ArgRefs
    <3>. QED
      BY <1>2, <1>4, <2>1, <3>1 DEF BoundedLeak, Single
  <2>. QED
    BY <2>2, <2>3, <2>4 DEF Accounted
<1>. QED
  BY <1>3, <1>4 DEF BuildArguments


(***************************************************************************)
(* The entry points.                                                       *)
(***************************************************************************)

\* rolog_query, rolog_query_LL and rolog_query_comp.
LEMMA RologQueryTold ==
  ASSUME HInv, NEW f \in Queries, RologQuery(f)
  PROVE  Progress' /\ Accounted'
<1>1. Idle /\ BuildArguments(f, ld, ld.lTop) /\ exception_term' = exception_term
  BY DEF RologQuery
<1>2. pc = "R" /\ ld \in Registers /\ ld.lTop \in Nat
  BY <1>1, IdleFacts DEF HInv
<1>3. f \in Single \cup {"string"} /\ f # "string" /\ f # "init"
  BY DEF Single, Queries
<1>. QED
  BY <1>1, <1>2, <1>3, BuildArgumentsTold

\* rolog_query_string, whose frame begins where the call began.
LEMMA RologQueryStringTold ==
  ASSUME HInv, RologQueryString
  PROVE  Progress' /\ Accounted'
<1>. DEFINE s == PL_open_foreign_frame(ld)
<1>1. /\ Idle /\ gd.initialised /\ BuildArguments("string", s, ld.lTop)
      /\ exception_term' = exception_term
  BY DEF RologQueryString
<1>2. pc = "R" /\ ld \in Registers /\ ld.lTop \in Nat /\ Resting(ld, 1)
  BY <1>1, IdleFacts DEF HInv
<1>3. s \in Registers
  BY <1>2, OpenForeignFrame
<1>4. s.lstack[2].at = ld.lTop
  BY <1>2, PlFrameWords
<1>. HIDE DEF s
<1>5. "string" \in Single \cup {"string"}
  OBVIOUS
<1>. QED
  BY <1>1, <1>2, <1>3, <1>4, <1>5, BuildArgumentsTold

\* The process ends in the middle of nothing: R is told nothing.
LEMMA EndedTold ==
  ASSUME HInv, pc = "R",
         UNCHANGED <<gd, ld, exception_term, rolog_engine, callVars, reply>>
  PROVE  Progress' /\ Accounted'
<1>1. /\ pc' = "R" /\ fn' = fn /\ blame' = blame /\ reply' = reply /\ pc' = pc
      /\ gd' = gd /\ rolog_engine' = rolog_engine
      /\ exception_term' = exception_term
  BY DEF callVars
<1>2. fn = "none" /\ "goal" \notin blame
  BY DEF HInv, IInv, StepsMatchCall, Progress, Reporting
<1>3. Progress'
  BY <1>1, <1>2, RestProgress
<1>4. Accounted'
  <2>1. AllSolutions' /\ NoSwallowedException' /\ ExceptionHasOrigin'
    BY <1>1 DEF HInv, Accounted, AllSolutions, NoSwallowedException,
                ExceptionHasOrigin
  <2>2. BoundedLeak'
    BY <1>1, Zenon DEF HInv, Accounted, BoundedLeak
  <2>3. InitMakesUsable'
    BY <1>1 DEF HInv, Accounted, InitMakesUsable
  <2>. QED
    BY <2>1, <2>2, <2>3 DEF Accounted
<1>. QED
  BY <1>3, <1>4

\* rolog_call.
LEMMA RologCallTold ==
  ASSUME HInv, RologCall
  PROVE  Progress' /\ Accounted'
<1>1. Idle /\ exception_term' = exception_term
  BY DEF RologCall
<1>2. pc = "R" /\ ld \in Registers /\ ld.lTop \in Nat /\ rolog_engine \in BOOLEAN
  BY <1>1, IdleFacts DEF HInv, EngineTypes
<1>3. CASE rolog_engine
  <2>1. BuildArguments("call", ld, ld.lTop)
    BY <1>3 DEF RologCall
  <2>2. "call" \in Single \cup {"string"}
    BY DEF Single
  <2>. QED
    BY <1>1, <1>2, <2>1, <2>2, BuildArgumentsTold
<1>4. CASE ~rolog_engine
  <2>. DEFINE kind == "not initialized"
              val  == <<>>
  <2>1. Answer("call", kind, val) /\ val = <<>>
    BY <1>4, Zenon DEF RologCall
  <2>2. kind \in Refusals \cup {"value"} /\ (kind = "value" => FALSE)
    BY Zenon DEF Refusals
  <2>. HIDE DEF kind, val
  <2>. QED
    BY <1>2, <2>1, <2>2, AnswerTold
<1>. QED
  BY <1>2, <1>3, <1>4

\* rolog_consult: the files it has left and the words it has used are together
\* no more than the files it was given.
LEMMA RologConsultTold ==
  ASSUME HInv, RologConsult
  PROVE  Progress' /\ Accounted'
<1>. DEFINE denied == "not initialized"
            none   == <<>>
<1>1. Idle /\ UNCHANGED <<process, gd, ld, exception_term, rolog_engine, fid>>
  BY DEF RologConsult, engineVars
<1>2. pc = "R" /\ qid = 0 /\ ld \in Registers /\ ld.lTop \in Nat
  BY <1>1, IdleFacts DEF HInv
<1>3. denied \in Refusals \cup {"value"} /\ (denied = "value" => FALSE)
  BY Zenon DEF Refusals
<1>4. PICK n \in 0 .. MaxFiles : \E prolog_files \in [1 .. n -> Files] :
        \/ Answer("consult", denied, none)
        \/ Answer("consult", "value", none)
        \/ /\ BeginCall("consult", ld.lTop)
           /\ files' = prolog_files
           /\ pc' = "file"
           /\ qid' = qid
  BY Zenon DEF RologConsult
<1>. HIDE DEF denied
<1>5. CASE Answer("consult", denied, none)
  BY <1>2, <1>3, <1>5, AnswerTold
<1>6. CASE Answer("consult", "value", none)
  <2>1. "value" \in Refusals \cup {"value"}
    OBVIOUS
  <2>. QED
    BY <1>2, <1>6, <2>1, AnswerTold
<1>7. ASSUME NEW prolog_files \in [1 .. n -> Files],
             BeginCall("consult", ld.lTop),
             files' = prolog_files, pc' = "file", qid' = qid
      PROVE  Progress' /\ Accounted'
  <2>1. /\ fn' = "consult" /\ r' = <<>> /\ produced' = <<>> /\ more' = FALSE
        /\ blame' = Inherited /\ base' = ld.lTop /\ reply' = NoReply
    BY <1>7 DEF BeginCall
  <2>2. "consult" \notin Queries /\ "consult" \notin Single
    BY DEF Queries, Single
  <2>3. Collected'
    BY <1>7, <2>1, <2>2 DEF Collected
  <2>4. Reporting' /\ Explained'
    BY <1>1, <1>7, <2>1, InheritedFacts DEF Reporting, Explained
  <2>5. Measured'
    <3>1. Len(files') = n /\ n \in Nat /\ n <= MaxFiles
      BY <1>7, BoundsAssumption
    <3>2. ld'.lTop + Len(files') <= base' + MaxFiles
      BY <1>1, <1>2, <2>1, <3>1, BoundsAssumption
    <3>. QED
      BY <1>2, <1>7, <2>1, <2>2, <3>2 DEF Measured
  <2>6. Prepared'
    BY <2>1 DEF Prepared
  <2>7. Accounted'
    <3>1. /\ reply'.fn = "none" /\ reply'.kind = "none" /\ reply'.leak = 0
      BY <2>1 DEF NoReply
    <3>2. "none" \notin Queries
      BY DEF Queries
    <3>. QED
      BY <3>1, <3>2 DEF Accounted, AllSolutions, NoSwallowedException,
                        ExceptionHasOrigin, BoundedLeak, InitMakesUsable
  <2>. QED
    BY <2>3, <2>4, <2>5, <2>6, <2>7 DEF Progress
<1>. QED
  BY <1>4, <1>5, <1>6, <1>7

\* rolog_init: the pointer is set before the goal is built.
LEMMA RologInitTold ==
  ASSUME HInv, RologInit
  PROVE  Progress' /\ Accounted'
<1>1. Idle /\ UNCHANGED <<process, exception_term, fid>>
  BY DEF RologInit
<1>2. /\ pc = "R" /\ EngineTypes /\ ld \in Registers /\ ld.lTop \in Nat
      /\ "init" \in Single \cup {"string"}
  BY <1>1, IdleFacts DEF HInv, Single
<1>3. CASE rolog_engine
  <2>1. BuildArguments("init", ld, ld.lTop) /\ rolog_engine'
    BY <1>3 DEF RologInit
  <2>. QED
    BY <1>1, <1>2, <2>1, BuildArgumentsTold
<1>4. CASE ~rolog_engine
  <2>. DEFINE denied == "failed to initialise"
              none   == <<>>
  <2>1. PICK o \in PL_initialise(gd) :
          /\ gd' = o.gd
          /\ rolog_engine' = o.rval
          /\ IF o.rval
               THEN BuildArguments("init", InitialisedStacks(o.gd),
                                   InitialisedStacks(o.gd).lTop)
               ELSE /\ Answer("init", denied, none)
                    /\ ld' = InitialisedStacks(o.gd)
    BY <1>4, Zenon DEF RologInit
  <2>2. denied \in Refusals \cup {"value"} /\ (denied = "value" => FALSE)
    BY Zenon DEF Refusals
  <2>. HIDE DEF denied
  <2>. DEFINE s == InitialisedStacks(o.gd)
  <2>3. o.rval \in BOOLEAN
    BY <1>2, InitialiseFacts DEF EngineTypes
  <2>4. s \in Registers
    BY <1>2, ConstantRegisters DEF InitialisedStacks
  <2>5. s.lTop \in Nat
    BY <2>4, RegisterFields
  <2>6. CASE o.rval
    <3>1. BuildArguments("init", s, s.lTop) /\ rolog_engine'
      BY <2>1, <2>6
    <3>. HIDE DEF s
    <3>. QED
      BY <1>1, <1>2, <2>4, <2>5, <3>1, BuildArgumentsTold
  <2>7. CASE ~o.rval
    <3>1. Answer("init", denied, none)
      BY <2>1, <2>7
    <3>. QED
      BY <1>2, <2>2, <3>1, AnswerTold
  <2>. QED
    BY <2>3, <2>6, <2>7
<1>. QED
  BY <1>2, <1>3, <1>4 DEF EngineTypes

\* rolog_exit.
LEMMA RologExitTold ==
  ASSUME HInv, RologExit
  PROVE  Progress' /\ Accounted'
<1>1. Idle /\ Answer("exit", "value", <<>>)
  BY DEF RologExit
<1>2. pc = "R" /\ "value" \in Refusals \cup {"value"}
  BY <1>1 DEF Idle
<1>. QED
  BY <1>1, <1>2, AnswerTold


(***************************************************************************)
(* The steps of a call.                                                    *)
(***************************************************************************)

\* What the invariants say inside a call.
LEMMA CallFacts ==
  ASSUME HInv, pc # "R"
  PROVE  /\ fn \in Single \cup {"string", "consult"}
         /\ ld \in Registers /\ ld.lTop \in Nat /\ base \in Nat
         /\ Depth \in {1, 2} /\ (fn = "string" => Depth = 2)
         /\ (fn # "string" => Depth = 1)
         /\ Len(files) \in Nat /\ (fn = "consult" => Len(files) >= 1)
         /\ ArgRefs[fn] \in Nat
<1>1. fn \in Single \cup {"string", "consult"}
  BY DEF HInv, Progress, Measured
<1>2. ld \in Registers /\ base \in Nat /\ files \in Seq(Files)
  BY DEF HInv, IInv, TypeOK
<1>3. ld.lTop \in Nat /\ Len(files) \in Nat
  BY <1>2, RegisterFields
<1>4. /\ Depth \in {1, 2} /\ (fn = "string" => Depth = 2)
      /\ (fn # "string" => Depth = 1)
  BY DEF Depth
<1>5. fn = "consult" => Len(files) >= 1
  BY DEF HInv, IInv, StepsMatchCall
<1>6. ArgRefs[fn] \in Nat
  BY <1>1, RefsAreNumbers DEF Single
<1>. QED
  BY <1>1, <1>2, <1>3, <1>4, <1>5, <1>6

\* The names of the entry points are different.
LEMMA NamesDiffer ==
  /\ "consult" \notin Queries /\ "string" \notin Queries /\ "init" \notin Queries
  /\ "call" \notin Queries
  /\ "consult" \notin Single /\ "string" \notin Single /\ "string" \notin Loops
  /\ Queries \subseteq Loops /\ Queries \subseteq Single /\ "consult" \in Loops
  /\ "init" \in Single /\ "init" \notin Loops
BY DEF Queries, Single, Loops

\* rolog_consult builds the argument of the next file.
LEMMA ConsultFileTold ==
  ASSUME HInv, ConsultFile
  PROVE  Progress' /\ Accounted'
<1>1. /\ pc = "file" /\ pc' = "open"
      /\ ld' = PL_new_term_refs(ld, ArgRefs["consult"])
      /\ UNCHANGED <<process, gd, exception_term, rolog_engine, fn, fid, qid,
                     files, r, produced, more, blame, base, reply>>
  BY DEF ConsultFile
<1>2. fn = "consult" /\ qid = 0
  BY <1>1, ActiveFacts DEF HInv, IInv, StepsMatchCall, FramesMatchHandles
<1>3. ld \in Registers /\ ld.lTop \in Nat /\ base \in Nat /\ Len(files) \in Nat
  BY <1>1, CallFacts
<1>4. ld'.lTop = ld.lTop + 1
  <2>1. ArgRefs["consult"] = 1
    BY DEF ArgRefs
  <2>. QED
    BY <1>1, <1>3, <2>1, NewTermRefsWords
<1>5. Collected'
  BY <1>1, <1>2, NamesDiffer DEF HInv, Progress, Collected
<1>6. Reporting' /\ Explained' /\ Prepared'
  BY <1>1, <1>2 DEF HInv, Progress, Reporting, Explained, Prepared
<1>7. Measured'
  <2>1. ld.lTop + Len(files) <= base + MaxFiles
    BY <1>1, <1>2 DEF HInv, Progress, Measured
  <2>2. ld'.lTop + Len(files') <= base' + MaxFiles + 1
    BY <1>1, <1>3, <1>4, <2>1, BoundsAssumption
  <2>. QED
    BY <1>1, <1>2, <2>2, NamesDiffer DEF Measured
<1>8. Accounted'
  BY <1>1, SilentStep DEF HInv
<1>. QED
  BY <1>5, <1>6, <1>7, <1>8 DEF Progress

\* The query is opened, or there is no room for it.
LEMMA OpenQueryTold ==
  ASSUME HInv, OpenQuery
  PROVE  Progress' /\ Accounted'
<1>1. /\ pc = "open"
      /\ UNCHANGED <<process, gd, rolog_engine, fn, fid, files, r, produced,
                     more, base, reply>>
  BY DEF OpenQuery
<1>2. /\ fn \in Single \cup {"string", "consult"}
      /\ ld \in Registers /\ ld.lTop \in Nat /\ base \in Nat
      /\ Depth \in {1, 2} /\ (fn = "string" => Depth = 2)
      /\ Len(files) \in Nat /\ ArgRefs[fn] \in Nat
      /\ (fn = "consult" => Len(files) >= 1)
  BY <1>1, CallFacts
<1>3. qid = 0 /\ Resting(ld, Depth)
  BY <1>1, ActiveFacts DEF HInv, IInv, FramesMatchHandles
<1>4. /\ fn \in Single => ld.lTop = base + ArgRefs[fn]
      /\ fn = "string" => ld.lstack[2].at = base
      /\ fn = "consult" => ld.lTop + Len(files) <= base + MaxFiles + 1
  BY <1>1 DEF HInv, Progress, Measured
<1>5. CASE /\ ld' = PL_open_query(ld)
           /\ qid' = ld'.query
           /\ pc' = "next"
           /\ UNCHANGED <<exception_term, blame>>
  <2>1. qid' = Depth + 1 /\ qid' # 0
    <3>1. Opened(ld', Depth)
      BY <1>2, <1>3, <1>5, OpenQueryShape
    <3>. QED
      BY <1>2, <1>5, <3>1 DEF Opened
  <2>2. /\ ld'.lstack[qid'].at = ld.lTop /\ ~Exhausted'
        /\ \A i \in 1 .. Depth : ld'.lstack[i] = ld.lstack[i]
    <3>1. /\ ld'.lstack[Depth + 1].at = ld.lTop
          /\ ~ld'.lstack[Depth + 1].deterministic
          /\ \A i \in 1 .. Depth : ld'.lstack[i] = ld.lstack[i]
      BY <1>2, <1>3, <1>5, OpenQueryWords
    <3>. QED
      BY <2>1, <3>1 DEF Exhausted
  <2>3. Collected'
    BY <1>1, <1>5, <2>2 DEF HInv, Progress, Collected
  <2>4. Reporting' /\ Explained' /\ Prepared'
    BY <1>1, <1>5, <2>2 DEF HInv, Progress, Reporting, Explained, Prepared
  <2>5. Measured'
    <3>1. fn = "string" => ld'.lstack[2].at = base
      BY <1>2, <1>4, <2>2
    <3>. QED
      BY <1>1, <1>2, <1>4, <1>5, <2>1, <2>2, <3>1, NamesDiffer DEF Measured
  <2>6. Accounted'
    BY <1>1, <1>5, SilentStep DEF HInv
  <2>. QED
    BY <2>3, <2>4, <2>5, <2>6 DEF Progress
<1>6. CASE /\ ld' = PL_new_term_refs(ld, ResourceErrorRefs)
           /\ exception_term' = PL_raise_exception(exception_term, "resource")
           /\ blame' = blame \cup {"goal"}
           /\ pc' = "unwind"
           /\ UNCHANGED qid
  <2>1. ld'.lTop = ld.lTop + 1 /\ ld'.lstack = ld.lstack
    <3>1. ResourceErrorRefs = 1
      BY DEF ResourceErrorRefs
    <3>. QED
      BY <1>2, <1>6, <3>1, NewTermRefs, NewTermRefsWords
  <2>2. Collected'
    BY <1>6 DEF Collected
  <2>3. Reporting' /\ Explained' /\ Prepared'
    BY <1>1, <1>6 DEF HInv, Progress, Reporting, Explained, Prepared
  <2>4. Measured'
    <3>1. fn \in Single => ld'.lTop <= base + ArgRefs[fn] + 3
      BY <1>2, <1>4, <2>1
    <3>2. fn = "consult" => ld'.lTop <= base + MaxFiles + 3
      BY <1>2, <1>4, <2>1, BoundsAssumption
    <3>. QED
      BY <1>1, <1>2, <1>3, <1>4, <1>6, <2>1, <3>1, <3>2, NamesDiffer DEF Measured
  <2>5. Accounted'
    BY <1>1, <1>6, SilentStep DEF HInv
  <2>. QED
    BY <2>2, <2>3, <2>4, <2>5 DEF Progress
<1>. QED
  BY <1>5, <1>6 DEF OpenQuery

\* What the invariants say about an open query.
LEMMA OpenFacts ==
  ASSUME HInv, pc \in {"next", "failed", "row"}
  PROVE  /\ qid = Depth + 1 /\ qid # 0 /\ ld.lstack[qid].at \in Nat
         /\ Opened(ld, Depth) \/ Answered(ld, Depth)
         /\ fn \in Single => ld.lstack[qid].at = base + ArgRefs[fn]
         /\ fn = "string" => ld.lstack[2].at = base
         /\ fn = "consult" => ld.lstack[qid].at + Len(files) <= base + MaxFiles + 1
<1>1. /\ ld \in Registers /\ Depth \in {1, 2} /\ qid = Depth + 1
      /\ Opened(ld, Depth) \/ Answered(ld, Depth)
  BY QueryFacts DEF HInv
<1>2. qid # 0 /\ qid \in 1 .. Len(ld.lstack)
  BY <1>1 DEF Opened, Answered
<1>3. ld.lstack[qid].at \in Nat
  BY <1>1, <1>2, RegisterFields
<1>4. /\ fn \in Single => ld.lstack[qid].at = base + ArgRefs[fn]
      /\ fn = "string" => ld.lstack[2].at = base
      /\ fn = "consult" => ld.lstack[qid].at + Len(files) <= base + MaxFiles + 1
  BY <1>2 DEF HInv, Progress, Measured
<1>. QED
  BY <1>1, <1>2, <1>3, <1>4

\* A step that keeps the query keeps where it began.
LEMMA MeasuredKept ==
  ASSUME HInv, pc \in {"next", "failed", "row"},
         UNCHANGED <<fn, qid, files, base>>,
         ld'.lstack[qid].at = ld.lstack[qid].at,
         \A i \in 1 .. Depth : ld'.lstack[i] = ld.lstack[i],
         pc' \in {"next", "failed", "row"} \/ (pc' = "unwind" /\ fn \in Queries)
  PROVE  Measured'
<1>1. fn \in Single \cup {"string", "consult"} /\ (fn = "string" => Depth = 2)
  BY CallFacts
<1>2. /\ qid # 0
      /\ fn \in Single => ld.lstack[qid].at = base + ArgRefs[fn]
      /\ fn = "string" => ld.lstack[2].at = base
      /\ fn = "consult" => ld.lstack[qid].at + Len(files) <= base + MaxFiles + 1
  BY OpenFacts
<1>3. fn = "string" => ld'.lstack[2].at = base
  BY <1>1, <1>2
<1>. QED
  BY <1>1, <1>2, <1>3, NamesDiffer DEF Measured

\* The machine is not entered again.
LEMMA NoChoicePointTold ==
  ASSUME HInv, NoChoicePoint
  PROVE  Progress' /\ Accounted'
<1>1. /\ pc = "next" /\ pc' = "failed" /\ ld' = Retry(ld, qid) /\ Exhausted
      /\ UNCHANGED <<process, gd, exception_term, rolog_engine, fn, fid, qid,
                     files, r, produced, more, blame, base, reply>>
  BY DEF NoChoicePoint, Exhausted
<1>2. /\ qid = Depth + 1 /\ ld \in Registers /\ Depth \in {1, 2}
      /\ Opened(ld, Depth) \/ Answered(ld, Depth)
  BY <1>1, QueryFacts DEF HInv
<1>3. /\ ld'.lstack[qid].at = ld.lstack[qid].at
      /\ \A i \in 1 .. Depth : ld'.lstack[i] = ld.lstack[i]
  BY <1>1, <1>2, RetryWords
<1>4. Collected'
  BY <1>1, NamesDiffer DEF HInv, Progress, Collected
<1>5. Reporting' /\ Explained' /\ Prepared'
  BY <1>1 DEF HInv, Progress, Reporting, Explained, Prepared
<1>6. Measured'
  BY <1>1, <1>3, MeasuredKept
<1>7. Accounted'
  BY <1>1, SilentStep DEF HInv
<1>. QED
  BY <1>4, <1>5, <1>6, <1>7 DEF Progress


\* Code that leaves by an exception leaves one behind.
LEMMA RaisedIsPending ==
  ASSUME NEW p \in Pending
  PROVE  /\ NoException \notin RunAndRaise(p)
         /\ \A x \in RunAndRethrow(p) : x = p /\ x # NoException
         /\ \A x \in RunQuietly(p) : x = p \/ x = NoException
<1>1. \A e \in Exceptions : e # NoException /\ Class[e] >= 1 /\ Class[e] \in Nat
  BY ExceptionsAssumption DEF NoException, Class
<1>2. ASSUME NEW q \in Pending, NEW e \in Exceptions
      PROVE  PL_raise_exception(q, e) # NoException
  <2>1. CASE q = NoException
    <3>1. Class[q] = 0
      BY <2>1 DEF NoException, Class
    <3>. QED
      BY <1>1, <3>1 DEF PL_raise_exception
  <2>2. CASE q # NoException
    BY <1>1, <2>2 DEF PL_raise_exception
  <2>. QED
    BY <2>1, <2>2
<1>3. RunQuietly(p) \subseteq Pending
  BY DEF RunQuietly, Pending
<1>. QED
  BY <1>2, <1>3 DEF RunAndRaise, RunAndRethrow, RunQuietly

\* The goal runs.
LEMMA RunGoalTold ==
  ASSUME HInv, RunGoal
  PROVE  Progress' /\ Accounted'
<1>. DEFINE s == Retry(ld, qid)
<1>1. /\ pc = "next" /\ ~Exhausted
      /\ UNCHANGED <<process, rolog_engine, fn, fid, qid, files, r, base, reply>>
  BY DEF RunGoal, Exhausted
<1>2. /\ qid = Depth + 1 /\ ld \in Registers /\ Depth \in {1, 2}
      /\ Opened(ld, Depth) \/ Answered(ld, Depth)
      /\ exception_term \in Pending
  BY <1>1, QueryFacts DEF HInv, EngineTypes
<1>3. /\ s \in Registers /\ Opened(s, Depth)
      /\ s.lstack[qid].at = ld.lstack[qid].at
      /\ \A i \in 1 .. Depth : s.lstack[i] = ld.lstack[i]
  <2>1. s \in Registers /\ Opened(s, Depth)
    BY <1>2, RetryShape
  <2>2. /\ s.lstack[qid].at = ld.lstack[qid].at
        /\ \A i \in 1 .. Depth : s.lstack[i] = ld.lstack[i]
    BY <1>2, RetryWords
  <2>. QED
    BY <2>1, <2>2
<1>4. pc' \in {"row", "failed"}
  BY DEF RunGoal
<1>5. /\ \E det \in BOOLEAN : ld' = LeaveVM(s, qid, det)
      /\ \A det \in BOOLEAN : ld' = LeaveVM(s, qid, det) => Exhausted' = det
  <2>1. \E det \in BOOLEAN : ld' = LeaveVM(s, qid, det)
    BY DEF RunGoal
  <2>. HIDE DEF s
  <2>2. ASSUME NEW det \in BOOLEAN, ld' = LeaveVM(s, qid, det)
        PROVE  Exhausted' = det
    <3>1. ld'.lstack[qid].deterministic = det
      BY <1>2, <1>3, <2>2, LeaveVMWords
    <3>. QED
      BY <1>1, <3>1 DEF Exhausted
  <2>. QED
    BY <2>1, <2>2
<1>6. Measured'
  <2>. HIDE DEF s
  <2>1. /\ ld'.lstack[qid].at = s.lstack[qid].at
        /\ \A i \in 1 .. Depth : ld'.lstack[i] = s.lstack[i]
    BY <1>2, <1>3, <1>5, LeaveVMWords
  <2>2. /\ ld'.lstack[qid].at = ld.lstack[qid].at
        /\ \A i \in 1 .. Depth : ld'.lstack[i] = ld.lstack[i]
    BY <1>3, <2>1
  <2>. QED
    BY <1>1, <1>4, <2>2, MeasuredKept
<1>7. Accounted'
  BY <1>1, <1>4, SilentStep DEF HInv
<1>8. "goal" \notin blame /\ (fn \in Loops => r = produced)
        /\ (exception_term # NoException => blame # {})
        /\ (fn = "init" => rolog_engine)
  BY <1>1 DEF HInv, Progress, Reporting, Collected, Explained, Prepared
<1>9. produced \in Seq(Answers)
  BY DEF HInv, IInv, TypeOK
<1>10. CASE /\ fn # "init"
            /\ \E x \in GoalAnswers, det \in BOOLEAN :
                 /\ produced' = Append(produced, x)
                 /\ more' = ~det
                 /\ ld' = LeaveVM(s, qid, det)
            /\ exception_term' \in RunQuietly(exception_term)
            /\ pc' = "row"
            /\ UNCHANGED <<gd, blame>>
  <2>1. PICK x \in GoalAnswers, det \in BOOLEAN :
          /\ produced' = Append(produced, x)
          /\ more' = ~det
          /\ ld' = LeaveVM(s, qid, det)
    BY <1>10
  <2>2. Exhausted' = det
    BY <1>5, <2>1
  <2>3. LastAnswer' = x
    <3>1. x \in Answers
      <4>1. files \in Seq(Files) /\ (fn = "consult" => Len(files) >= 1)
        BY DEF HInv, IInv, TypeOK, StepsMatchCall
      <4>2. fn = "consult" => files[1] \in Files
        BY <4>1
      <4>. QED
        BY <4>2 DEF GoalAnswers, Answers
    <3>. QED
      BY <1>9, <2>1, <3>1 DEF LastAnswer
  <2>4. Collected'
    <3>1. fn \in Loops => produced' = Append(r', LastAnswer')
      BY <1>1, <1>8, <2>1, <2>3
    <3>2. Exhausted' => ~more'
      BY <2>1, <2>2
    <3>. QED
      BY <1>1, <1>10, <3>1, <3>2 DEF Collected
  <2>5. Reporting' /\ Explained' /\ Prepared'
    BY <1>1, <1>2, <1>8, <1>10, RaisedIsPending DEF Reporting, Explained, Prepared
  <2>. QED
    BY <1>6, <1>7, <2>4, <2>5 DEF Progress
<1>11. CASE /\ fn = "init"
            /\ produced' = <<"true">>
            /\ ld' = LeaveVM(s, qid, TRUE)
            /\ exception_term' = NoException
            /\ gd' = [gd EXCEPT !.library = TRUE]
            /\ pc' = "row"
            /\ UNCHANGED <<more, blame>>
  <2>1. Exhausted' = TRUE
    BY <1>5, <1>11
  <2>2. gd'.library
    <3>1. gd \in GlobalData
      BY DEF HInv, IInv, TypeOK
    <3>. QED
      BY <1>11, <3>1 DEF GlobalData
  <2>3. Collected'
    BY <1>1, <1>11, NamesDiffer DEF Collected
  <2>4. Reporting' /\ Explained' /\ Prepared'
    BY <1>1, <1>8, <1>11, <2>1, <2>2 DEF Reporting, Explained, Prepared
  <2>. QED
    BY <1>6, <1>7, <2>3, <2>4 DEF Progress
<1>12. CASE /\ more' = FALSE /\ pc' = "failed" /\ produced' = produced /\ gd' = gd
            /\ \/ /\ fn # "init" /\ exception_term' \in RunQuietly(exception_term)
                  /\ blame' = blame
               \/ /\ exception_term' \in RunAndRaise(exception_term)
                  /\ blame' = blame \cup {"goal"}
               \/ /\ fn # "init" /\ exception_term' \in RunAndRethrow(exception_term)
                  /\ blame' = blame
  <2>1. \/ /\ fn # "init" /\ exception_term' \in {exception_term, NoException}
           /\ blame' = blame
        \/ /\ exception_term' # NoException
           /\ blame' = blame \cup {"goal"}
    BY <1>2, <1>12, RaisedIsPending
  <2>2. Collected'
    BY <1>1, <1>8, <1>12 DEF Collected
  <2>3. Reporting' /\ Explained' /\ Prepared'
    BY <1>1, <1>8, <1>12, <2>1 DEF Reporting, Explained, Prepared
  <2>. QED
    BY <1>6, <1>7, <2>2, <2>3 DEF Progress
<1>. QED
  BY <1>10, <1>11, <1>12 DEF RunGoal

\* The goal calls halt/0.
LEMMA GoalHaltsTold ==
  ASSUME HInv, GoalHalts
  PROVE  Progress' /\ Accounted'
<1>1. /\ pc = "next" /\ fn # "init"
      /\ UNCHANGED <<ld, rolog_engine, pc, fn, fid, qid, files, r, produced, more,
                     blame, base, reply>>
      /\ exception_term' \in {exception_term, NoException}
  BY DEF GoalHalts, callVars
<1>2. Collected'
  BY <1>1 DEF HInv, Progress, Collected, Exhausted
<1>3. Reporting' /\ Explained' /\ Prepared'
  BY <1>1 DEF HInv, Progress, Reporting, Explained, Prepared
<1>4. Measured'
  BY <1>1, MeasuredKept
<1>5. Accounted'
  BY <1>1, SilentStep DEF HInv
<1>. QED
  BY <1>2, <1>3, <1>4, <1>5 DEF Progress

\* rolog_consult goes on to the next file or returns.
LEMMA NextFileTold ==
  ASSUME HInv, pc \in {"failed", "row"}, fn = "consult",
         NEW s \in Registers, s.lTop = ld.lstack[qid].at,
         NEW loaded, loaded = produced, NEW b \in SUBSET Origins,
         "goal" \notin b, exception_term' # NoException => b # {},
         NextFile(loaded, b, s)
  PROVE  Progress' /\ Accounted'
<1>1. /\ ld.lstack[qid].at \in Nat
      /\ ld.lstack[qid].at + Len(files) <= base + MaxFiles + 1
  BY OpenFacts
<1>2. base \in Nat /\ Len(files) \in Nat /\ Len(files) >= 1
  BY CallFacts
<1>3. CASE Len(files) = 1
  <2>1. EndCall("value", loaded, b, s)
    BY <1>3 DEF NextFile
  <2>2. s.lTop \in Nat /\ s.lTop <= base + MaxFiles + 3
    BY <1>1, <1>2, <1>3, BoundsAssumption
  <2>. QED
    BY <1>2, <2>1, <2>2, NamesDiffer, EndCallTold
<1>4. CASE Len(files) # 1
  <2>1. /\ ld' = s /\ files' = Tail(files) /\ r' = loaded /\ blame' = b
        /\ qid' = 0 /\ pc' = "file"
        /\ UNCHANGED <<fn, fid, produced, more, base, reply>>
    BY <1>4 DEF NextFile
  <2>2. Len(files') = Len(files) - 1
    <3>1. files \in Seq(Files) /\ files # <<>>
      BY <1>2 DEF HInv, IInv, TypeOK
    <3>. QED
      BY <2>1, <3>1
  <2>3. Collected'
    BY <2>1, NamesDiffer DEF Collected
  <2>4. Reporting' /\ Explained' /\ Prepared'
    BY <2>1 DEF Reporting, Explained, Prepared
  <2>5. Measured'
    <3>1. ld'.lTop + Len(files') <= base' + MaxFiles
      BY <1>1, <1>2, <2>1, <2>2, BoundsAssumption, SMTT(30)
    <3>. QED
      BY <2>1, <3>1, NamesDiffer DEF Measured
  <2>6. Accounted'
    BY <2>1, SilentStep DEF HInv
  <2>. QED
    BY <2>3, <2>4, <2>5, <2>6 DEF Progress
<1>. QED
  BY <1>3, <1>4


\* ~PlFrame() of rolog_query_string goes back to where the call began; the
\* other calls have no frame.
LEMMA CloseFrameWords ==
  ASSUME HInv, pc # "R", NEW s \in Registers,
         fn = "string" => s.lstack[2].at = base
  PROVE  CloseFrame(s).lTop = IF fn = "string" THEN base ELSE s.lTop
<1>1. fid = (IF fn = "string" THEN 2 ELSE 0)
  BY ActiveFacts DEF HInv
<1>. QED
  BY <1>1, PlFrameWords DEF CloseFrame

\* Leaving the query of the active call goes back to where it was opened.
LEMMA LeaveWords ==
  ASSUME HInv, pc # "R", qid = Depth + 1,
         Opened(ld, Depth) \/ Answered(ld, Depth),
         NEW s, s = PL_cut_query(ld, qid) \/ s = PL_close_query(ld, qid)
  PROVE  /\ s \in Registers /\ s.lTop = ld.lstack[qid].at /\ s.lTop \in Nat
         /\ fn = "string" => s.lstack[2].at = base
<1>1. ld \in Registers /\ Depth \in {1, 2} /\ (fn = "string" => Depth = 2)
  BY CallFacts
<1>2. s \in Registers
  BY <1>1, LeaveQueryShape
<1>3. /\ s.lTop = ld.lstack[qid].at
      /\ \A i \in 1 .. Depth : s.lstack[i] = ld.lstack[i]
  BY <1>1, LeaveQueryWords
<1>4. fn = "string" => ld.lstack[2].at = base
  BY DEF HInv, Progress, Measured
<1>5. fn = "string" => s.lstack[2].at = base
  BY <1>1, <1>3, <1>4
<1>6. s.lTop \in Nat
  BY <1>2, RegisterFields
<1>. QED
  BY <1>2, <1>3, <1>5, <1>6

\* The query failed or raised an exception.
LEMMA FailedTold ==
  ASSUME HInv, Failed
  PROVE  Progress' /\ Accounted'
<1>. DEFINE s == PL_close_query(ld, qid)
<1>1. pc = "failed" /\ UNCHANGED <<process, gd, exception_term, rolog_engine>>
  BY DEF Failed
<1>2. /\ qid = Depth + 1
      /\ Opened(ld, Depth) \/ Answered(ld, Depth)
      /\ fn \in Single => ld.lstack[qid].at = base + ArgRefs[fn]
      /\ fn = "consult" => ld.lstack[qid].at + Len(files) <= base + MaxFiles + 1
  BY <1>1, OpenFacts
<1>3. /\ fn \in Single \cup {"string", "consult"} /\ base \in Nat
      /\ ArgRefs[fn] \in Nat /\ Len(files) \in Nat
      /\ (fn = "consult" => Len(files) >= 1)
  BY <1>1, CallFacts
<1>4. /\ s \in Registers /\ s.lTop = ld.lstack[qid].at /\ s.lTop \in Nat
      /\ fn = "string" => s.lstack[2].at = base
  BY <1>1, <1>2, LeaveWords
<1>. HIDE DEF s
<1>5. /\ fn \in Loops => r = produced
      /\ fn \in Queries => ~more
      /\ fn = "init" => exception_term # NoException
      /\ exception_term # NoException => blame # {}
      /\ "goal" \in blame => exception_term # NoException
  BY <1>1 DEF HInv, Progress, Collected, Prepared, Explained, Reporting
<1>6. CASE exception_term # NoException
  <2>. DEFINE n == ThrowRefs(exception_term)
  <2>1. /\ ld' = PL_new_term_refs(s, n)
        /\ qid' = 0 /\ pc' = "unwind"
        /\ UNCHANGED <<fn, fid, files, r, produced, more, blame, base, reply>>
    BY <1>6 DEF Failed, s
  <2>2. n \in Nat /\ n <= 3
    BY DEF ThrowRefs
  <2>. HIDE DEF n
  <2>3. ld'.lTop = s.lTop + n /\ ld'.lstack = s.lstack
    BY <1>4, <2>1, <2>2, NewTermRefs, NewTermRefsWords
  <2>4. Collected'
    BY <2>1 DEF Collected
  <2>5. Reporting' /\ Explained' /\ Prepared'
    <3>1. Reporting' /\ Explained'
      BY <1>1, <1>5, <1>6, <2>1 DEF Reporting, Explained
    <3>2. Prepared'
      BY <1>1, <2>1 DEF HInv, Progress, Prepared
    <3>. QED
      BY <3>1, <3>2
  <2>6. Measured'
    <3>1. fn \in Single => ld'.lTop <= base + ArgRefs[fn] + 3
      BY <1>2, <1>3, <1>4, <2>2, <2>3
    <3>2. fn = "consult" => ld'.lTop <= base + MaxFiles + 3
      BY <1>2, <1>3, <1>4, <2>2, <2>3, BoundsAssumption
    <3>3. fn = "string" => ld'.lstack[2].at = base
      BY <1>4, <2>3
    <3>. QED
      BY <1>3, <2>1, <3>1, <3>2, <3>3, NamesDiffer DEF Measured
  <2>7. Accounted'
    BY <2>1, SilentStep DEF HInv
  <2>. QED
    BY <2>4, <2>5, <2>6, <2>7 DEF Progress
<1>7. CASE exception_term = NoException /\ fn = "consult"
  <2>1. NextFile(r, blame, s)
    BY <1>7 DEF Failed, s
  <2>2. blame \in SUBSET Origins
    BY DEF HInv, IInv, TypeOK
  <2>. QED
    BY <1>1, <1>4, <1>5, <1>7, <2>1, <2>2, NamesDiffer, NextFileTold
<1>8. CASE exception_term = NoException /\ fn # "consult"
  <2>. DEFINE u == CloseFrame(s)
  <2>1. EndCall("value", r, blame, u)
    BY <1>8 DEF Failed, s
  <2>2. u.lTop = IF fn = "string" THEN base ELSE s.lTop
    BY <1>1, <1>4, CloseFrameWords
  <2>. HIDE DEF u
  <2>3. fn \in Queries => fn \in Loops
    BY NamesDiffer
  <2>4. /\ u.lTop \in Nat
        /\ fn \in Single => u.lTop = base + ArgRefs[fn]
        /\ fn = "string" => u.lTop = base
    BY <1>2, <1>3, <1>4, <2>2, NamesDiffer
  <2>5. "goal" \notin blame /\ fn # "init"
    BY <1>5, <1>8
  <2>. QED
    BY <1>3, <1>5, <1>8, <2>1, <2>3, <2>4, <2>5, EndCallTold
<1>. QED
  BY <1>6, <1>7, <1>8

\* Cutting a query leaves the pending exception alone, or a cleanup handler is
\* to blame for the new one; a query without choice points runs none.
LEMMA CutFacts ==
  ASSUME HInv, pc \in {"row", "unwind"}, qid # 0,
         exception_term' \in CutException(ld, qid, exception_term)
  PROVE  /\ blame \subseteq Cleaned(exception_term')
         /\ "goal" \in Cleaned(exception_term') => "goal" \in blame
         /\ exception_term' # NoException => Cleaned(exception_term') # {}
         /\ Exhausted => exception_term' = exception_term
<1>1. exception_term # NoException => blame # {}
  BY DEF HInv, Progress, Explained
<1>2. /\ blame \subseteq Cleaned(exception_term')
      /\ "goal" \in Cleaned(exception_term') => "goal" \in blame
      /\ exception_term' # NoException => Cleaned(exception_term') # {}
  BY <1>1 DEF Cleaned
<1>3. Exhausted => exception_term' = exception_term
  BY DEF Exhausted, CutException
<1>. QED
  BY <1>2, <1>3

\* An answer is looked at.
LEMMA RowTold ==
  ASSUME HInv, Row
  PROVE  Progress' /\ Accounted'
<1>1. pc = "row" /\ UNCHANGED <<process, gd, rolog_engine>>
  BY DEF Row
<1>2. /\ qid = Depth + 1 /\ qid # 0 /\ ld.lstack[qid].at \in Nat
      /\ Opened(ld, Depth) \/ Answered(ld, Depth)
      /\ fn \in Single => ld.lstack[qid].at = base + ArgRefs[fn]
      /\ fn = "string" => ld.lstack[2].at = base
  BY <1>1, OpenFacts
<1>3. /\ fn \in Single \cup {"string", "consult"} /\ base \in Nat
      /\ ArgRefs[fn] \in Nat /\ ld \in Registers
  BY <1>1, CallFacts
<1>4. /\ fn \in Loops => produced = Append(r, LastAnswer)
      /\ fn \in Queries /\ Exhausted => ~more
      /\ "goal" \notin blame
      /\ exception_term # NoException => blame # {}
      /\ fn = "init" => /\ rolog_engine /\ gd.library
                        /\ exception_term = NoException /\ Exhausted
  BY <1>1 DEF HInv, Progress, Collected, Reporting, Explained, Prepared
<1>5. CASE fn \in Queries
  <2>1. UNCHANGED <<exception_term, fn, fid, qid, files, produced, more, blame,
                    base, reply>>
    BY <1>5 DEF Row
  <2>2. \/ ld' = PL_new_term_refs(ld, TypeErrorRefs) /\ pc' = "unwind" /\ r' = r
        \/ ld' = PL_new_term_refs(ld, RowRefs) /\ pc' = "next"
             /\ r' = Append(r, LastAnswer)
    BY <1>5 DEF Row
  <2>3. ld'.lstack = ld.lstack
    <3>1. TypeErrorRefs \in Nat /\ RowRefs \in Nat
      BY DEF TypeErrorRefs, RowRefs
    <3>2. PICK n \in Nat : ld' = PL_new_term_refs(ld, n)
      BY <2>2, <3>1
    <3>. QED
      BY <1>3, <3>2, NewTermRefs
  <2>4. fn \in Loops /\ fn # "init"
    BY <1>5, NamesDiffer
  <2>5. Exhausted' = Exhausted
    BY <2>1, <2>3 DEF Exhausted
  <2>6. Collected'
    BY <1>4, <2>1, <2>2, <2>4, <2>5 DEF Collected
  <2>7. Reporting' /\ Explained' /\ Prepared'
    <3>1. UnwindKind' = "conversion"
      BY <1>2, <1>5, <2>1 DEF UnwindKind
    <3>. QED
      BY <1>4, <2>1, <2>2, <2>4, <3>1 DEF Reporting, Explained, Prepared
  <2>8. Measured'
    <3>1. pc' \in {"next", "failed", "row"} \/ (pc' = "unwind" /\ fn \in Queries)
      BY <1>5, <2>2
    <3>. QED
      BY <1>1, <2>1, <2>3, <3>1, MeasuredKept
  <2>9. Accounted'
    BY <2>1, <2>2, SilentStep DEF HInv
  <2>. QED
    BY <2>6, <2>7, <2>8, <2>9 DEF Progress
<1>6. CASE fn \notin Queries
  <2>. DEFINE s == PL_cut_query(ld, qid)
              b == Cleaned(exception_term')
  <2>1. /\ s \in Registers /\ s.lTop = ld.lstack[qid].at /\ s.lTop \in Nat
        /\ fn = "string" => s.lstack[2].at = base
    BY <1>1, <1>2, LeaveWords
  <2>2. exception_term' \in CutException(ld, qid, exception_term)
    BY <1>6 DEF Row
  <2>3. /\ "goal" \notin b
        /\ exception_term' # NoException => b # {}
        /\ Exhausted => exception_term' = exception_term
    BY <1>1, <1>2, <1>4, <2>2, CutFacts
  <2>4. CASE fn = "string"
    <3>1. /\ ld' = s /\ qid' = 0 /\ blame' = b /\ pc' = "read"
          /\ UNCHANGED <<fn, fid, files, r, produced, more, base, reply>>
      BY <1>6, <2>4 DEF Row
    <3>. HIDE DEF s, b
    <3>2. Collected' /\ Reporting' /\ Explained' /\ Prepared'
      BY <2>3, <2>4, <3>1, NamesDiffer DEF Collected, Reporting, Explained, Prepared
    <3>3. Measured'
      BY <2>1, <2>4, <3>1, NamesDiffer DEF Measured
    <3>4. Accounted'
      BY <3>1, SilentStep DEF HInv
    <3>. QED
      BY <3>2, <3>3, <3>4 DEF Progress
  <2>5. CASE fn = "consult"
    <3>1. NextFile(Append(r, LastAnswer), b, s)
      BY <1>6, <2>5 DEF Row
    <3>2. b \in SUBSET Origins
      BY CleanedType DEF HInv
    <3>3. Append(r, LastAnswer) = produced
      BY <1>4, <2>5, NamesDiffer
    <3>. HIDE DEF s, b
    <3>4. NextFile(produced, b, s)
      BY <3>1, <3>3
    <3>. QED
      BY <1>1, <2>1, <2>3, <2>5, <3>2, <3>4, NextFileTold
  <2>6. CASE fn # "string" /\ fn # "consult"
    <3>1. EndCall("value", <<>>, b, s)
      BY <1>6, <2>6 DEF Row
    <3>2. fn \in Single
      BY <1>3, <2>6
    <3>3. fn = "init" => /\ rolog_engine' /\ gd'.library
                         /\ exception_term' = NoException
      BY <1>1, <1>4, <2>3
    <3>4. s.lTop = base + ArgRefs[fn]
      BY <1>2, <2>1, <3>2
    <3>. HIDE DEF s, b
    <3>. QED
      BY <1>3, <1>6, <2>1, <2>3, <2>6, <3>1, <3>2, <3>3, <3>4, EndCallTold
  <2>. QED
    BY <2>4, <2>5, <2>6
<1>. QED
  BY <1>5, <1>6

\* rolog_query_string looks at its answer.
LEMMA ReadTold ==
  ASSUME HInv, Read
  PROVE  Progress' /\ Accounted'
<1>1. pc = "read" /\ UNCHANGED <<process, gd, exception_term, rolog_engine>>
  BY DEF Read
<1>2. fn = "string" /\ qid = 0 /\ produced # <<>>
  BY <1>1, ActiveFacts DEF HInv, IInv, StepsMatchCall, FramesMatchHandles, TypeOK
<1>3. ld \in Registers /\ base \in Nat /\ ld.lstack[2].at = base
  BY <1>1, <1>2, CallFacts DEF HInv, Progress, Measured
<1>4. "goal" \notin blame /\ (exception_term # NoException => blame # {})
  BY <1>1 DEF HInv, Progress, Reporting, Explained
<1>5. CASE LastAnswer \in Unconvertible
  <2>1. /\ ld' = PL_new_term_refs(ld, TypeErrorRefs) /\ pc' = "unwind"
        /\ UNCHANGED <<fn, fid, qid, files, r, produced, more, blame, base, reply>>
    BY <1>5 DEF Read
  <2>2. ld'.lstack = ld.lstack
    <3>1. TypeErrorRefs \in Nat
      BY DEF TypeErrorRefs
    <3>. QED
      BY <1>3, <2>1, <3>1, NewTermRefs
  <2>3. Collected' /\ Reporting' /\ Prepared'
    BY <1>2, <2>1 DEF Collected, Reporting, Prepared
  <2>4. Explained'
    <3>1. UnwindKind' = "conversion"
      BY <1>2, <2>1 DEF UnwindKind
    <3>. QED
      BY <1>1, <1>4, <2>1, <3>1 DEF Explained
  <2>5. Measured'
    BY <1>2, <1>3, <2>1, <2>2, NamesDiffer DEF Measured
  <2>6. Accounted'
    BY <2>1, SilentStep DEF HInv
  <2>. QED
    BY <2>3, <2>4, <2>5, <2>6 DEF Progress
<1>6. CASE LastAnswer \notin Unconvertible
  <2>. DEFINE u == CloseFrame(ld)
              v == <<LastAnswer>>
  <2>1. EndCall("value", v, blame, u)
    BY <1>6 DEF Read
  <2>2. u.lTop = base
    BY <1>1, <1>2, <1>3, CloseFrameWords
  <2>. HIDE DEF u, v
  <2>. QED
    BY <1>2, <1>3, <1>4, <2>1, <2>2, NamesDiffer, EndCallTold
<1>. QED
  BY <1>5, <1>6

\* The destructors run.
LEMMA UnwindTold ==
  ASSUME HInv, Unwind
  PROVE  Progress' /\ Accounted'
<1>. DEFINE k == UnwindKind
            v == <<>>
<1>1. pc = "unwind" /\ UNCHANGED <<process, gd, rolog_engine>>
  BY DEF Unwind
<1>2. /\ fn \in Single \cup {"string", "consult"} /\ base \in Nat
      /\ ArgRefs[fn] \in Nat /\ ld \in Registers /\ ld.lTop \in Nat
  BY <1>1, CallFacts
<1>3. \/ qid = 0
      \/ qid = Depth + 1 /\ Answered(ld, Depth)
  BY <1>1, ActiveFacts DEF HInv, IInv, FramesMatchHandles
<1>4. /\ k \in {"conversion", "exception"} /\ k # "value"
      /\ k = "exception" => blame # {}
      /\ fn \in Single /\ qid = 0 => k = "exception"
      /\ fn \in Queries /\ qid # 0 => k = "conversion"
  <2>1. blame # {} \/ UnwindKind = "conversion"
    BY <1>1 DEF HInv, Progress, Explained
  <2>. QED
    BY <2>1, NamesDiffer DEF UnwindKind
<1>5. /\ fn = "string" => ld.lstack[2].at = base
      /\ fn \in Single /\ qid = 0 => ld.lTop <= base + ArgRefs[fn] + 3
      /\ fn = "consult" => ld.lTop <= base + MaxFiles + 3
      /\ qid # 0 => fn \in Queries
      /\ fn \in Single /\ qid # 0 => ld.lstack[qid].at = base + ArgRefs[fn]
  BY <1>1 DEF HInv, Progress, Measured
<1>6. CASE qid = 0
  <2>. DEFINE u == CloseFrame(ld)
  <2>1. EndCall(k, v, blame, u)
    BY <1>6 DEF Unwind
  <2>2. u.lTop = IF fn = "string" THEN base ELSE ld.lTop
    BY <1>1, <1>2, <1>5, CloseFrameWords
  <2>. HIDE DEF u, k, v
  <2>3. /\ u.lTop \in Nat
        /\ fn \in Single => u.lTop <= base + ArgRefs[fn] + 3
        /\ fn = "consult" => u.lTop <= base + MaxFiles + 3
        /\ fn = "string" => u.lTop = base
    BY <1>2, <1>5, <1>6, <2>2, NamesDiffer
  <2>. QED
    BY <1>2, <1>4, <1>6, <2>1, <2>3, EndCallTold
<1>7. CASE qid # 0
  <2>. DEFINE s == PL_cut_query(ld, qid)
              u == CloseFrame(s)
              b == Cleaned(exception_term')
  <2>1. /\ exception_term' \in CutException(ld, qid, exception_term)
        /\ EndCall(k, v, b, u)
    BY <1>7 DEF Unwind
  <2>2. fn \in Queries /\ fn \in Single /\ fn # "string" /\ fn # "consult"
    BY <1>5, <1>7, NamesDiffer
  <2>3. s \in Registers /\ s.lTop = ld.lstack[qid].at /\ s.lTop \in Nat
    BY <1>1, <1>3, <1>7, LeaveWords
  <2>4. blame \subseteq b
    BY <1>1, <1>7, <2>1, CutFacts
  <2>5. u.lTop = s.lTop
    BY <1>1, <2>2, <2>3, CloseFrameWords
  <2>. HIDE DEF s, u, b, k, v
  <2>6. u.lTop = base + ArgRefs[fn] /\ u.lTop \in Nat
    BY <1>5, <1>7, <2>2, <2>3, <2>5
  <2>. QED
    BY <1>2, <1>4, <1>7, <2>1, <2>2, <2>4, <2>6, EndCallTold
<1>. QED
  BY <1>6, <1>7


(***************************************************************************)
(* The theorems.                                                           *)
(***************************************************************************)

\* Before the first call nothing was told.
LEMMA InitHistory == Init => HInv
<1>. SUFFICES ASSUME Init PROVE HInv
  OBVIOUS
<1>1. IInv
  BY InitInv
<1>2. pc = "R" /\ fn = "none" /\ blame = {} /\ reply = NoReply
  BY DEF Init
<1>3. /\ reply.fn = "none" /\ reply.kind = "none" /\ reply.leak = 0
      /\ fn \notin Queries /\ fn \notin Loops /\ fn \notin Single
      /\ "none" \notin Queries
  BY <1>2 DEF NoReply, Queries, Loops, Single
<1>4. Collected /\ Reporting /\ Explained /\ Prepared
  BY <1>2, <1>3 DEF Collected, Reporting, Explained, Prepared
<1>5. Measured
  BY <1>2, <1>3 DEF Measured
<1>6. Accounted
  BY <1>3 DEF Accounted, AllSolutions, NoSwallowedException,
              ExceptionHasOrigin, BoundedLeak, InitMakesUsable
<1>. QED
  BY <1>1, <1>4, <1>5, <1>6 DEF HInv, Progress

\* Every step keeps the history.
LEMMA NextHistory == HInv /\ [Next]_vars => HInv'
<1>. SUFFICES ASSUME HInv, [Next]_vars PROVE HInv'
  OBVIOUS
<1>1. IInv'
  BY NextInv DEF HInv
<1>2. CASE UNCHANGED vars
  <2>1. /\ gd' = gd /\ ld' = ld /\ exception_term' = exception_term
        /\ rolog_engine' = rolog_engine /\ pc' = pc /\ fn' = fn /\ qid' = qid
        /\ files' = files /\ r' = r /\ produced' = produced /\ more' = more
        /\ blame' = blame /\ base' = base /\ reply' = reply
    BY <1>2 DEF vars, engineVars, callVars
  <2>2. Collected' /\ Reporting' /\ Prepared'
    BY <2>1 DEF HInv, Progress, Collected, Reporting, Prepared, Exhausted, LastAnswer
  <2>3. Explained'
    BY <2>1 DEF HInv, Progress, Explained, UnwindKind
  <2>4. Measured'
    BY <2>1 DEF HInv, Progress, Measured
  <2>5. AllSolutions' /\ NoSwallowedException' /\ ExceptionHasOrigin'
    BY <2>1 DEF HInv, Accounted, AllSolutions, NoSwallowedException,
                ExceptionHasOrigin
  <2>6. BoundedLeak'
    BY <2>1, Zenon DEF HInv, Accounted, BoundedLeak
  <2>7. InitMakesUsable'
    BY <2>1 DEF HInv, Accounted, InitMakesUsable
  <2>. QED
    BY <1>1, <2>2, <2>3, <2>4, <2>5, <2>6, <2>7 DEF HInv, Progress, Accounted
<1>3. CASE CallFromR
  <2>1. CASE QueryWithoutEngine \/ InitialiseExits
    <3>1. pc = "R"
      BY <2>1 DEF QueryWithoutEngine, InitialiseExits, Idle
    <3>2. UNCHANGED <<gd, ld, exception_term, rolog_engine, callVars, reply>>
      BY <2>1 DEF QueryWithoutEngine, InitialiseExits
    <3>. QED
      BY <1>1, <3>1, <3>2, EndedTold DEF HInv
  <2>. QED
    BY <1>1, <1>3, <2>1, RologQueryTold, RologQueryStringTold, RologCallTold,
       RologConsultTold, RologInitTold, RologExitTold
    DEF CallFromR, HInv
<1>4. CASE CallStep
  BY <1>1, <1>4, ConsultFileTold, OpenQueryTold, NoChoicePointTold, RunGoalTold,
     GoalHaltsTold, FailedTold, RowTold, ReadTold, UnwindTold
  DEF CallStep, HInv
<1>. QED
  BY <1>2, <1>3, <1>4 DEF Next, Ended

\* The history of a session is inductive.
THEOREM History == Spec => []HInv
BY InitHistory, NextHistory, PTL DEF Spec

\* rolog_query, rolog_query_LL and rolog_query_comp return every answer, in
\* order, and rolog_consult every file that was loaded: for any set of
\* answers and any number of them.
THEOREM EveryAnswerReturned == Spec => []AllSolutions
<1>1. HInv => AllSolutions
  BY DEF HInv, Accounted
<1>. QED
  BY <1>1, History, PTL

\* The exception a goal did not catch reaches R, whatever is pending besides.
THEOREM ExceptionsReachR == Spec => []NoSwallowedException
<1>1. HInv => NoSwallowedException
  BY DEF HInv, Accounted
<1>. QED
  BY <1>1, History, PTL

\* Every exception R sees was raised by the goal, by a cleanup handler or
\* before the call.
THEOREM ExceptionsExplained == Spec => []ExceptionHasOrigin
<1>1. HInv => ExceptionHasOrigin
  BY DEF HInv, Accounted
<1>. QED
  BY <1>1, History, PTL

\* A call leaves a number of words behind that does not depend on its answers.
THEOREM LeakBounded == Spec => []BoundedLeak
<1>1. HInv => BoundedLeak
  BY DEF HInv, Accounted
<1>. QED
  BY <1>1, History, PTL

\* After a successful rolog_init the engine can be used.
THEOREM InitUsable == Spec => []InitMakesUsable
<1>1. HInv => InitMakesUsable
  BY DEF HInv, Accounted
<1>. QED
  BY <1>1, History, PTL


=============================================================================
