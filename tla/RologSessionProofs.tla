------------------------- MODULE RologSessionProofs -------------------------
(***************************************************************************)
(* Proofs about RologSession, for every set of exceptions, solutions and   *)
(* files and for all bounds.                                               *)
(***************************************************************************)
EXTENDS RologSession, TLAPS

(***************************************************************************)
(* What the operations of the engine do to the registers.                  *)
(***************************************************************************)

\* The registers field by field.
LEMMA RegisterFields ==
  ASSUME NEW s \in Registers
  PROVE  /\ s.lstack \in Seq(Frame) /\ s.lTop \in Nat
         /\ s.fli_context \in Nat /\ s.query \in Nat
         /\ Len(s.lstack) \in Nat
         /\ \A i \in 1 .. Len(s.lstack) :
              /\ s.lstack[i] \in Frame
              /\ s.lstack[i].at \in Nat
              /\ s.lstack[i].link \in Nat
              /\ s.lstack[i].foreign_frame \in Nat
<1>1. /\ s.lstack \in Seq(Frame) /\ s.lTop \in Nat
      /\ s.fli_context \in Nat /\ s.query \in Nat
  BY DEF Registers
<1>2. \A i \in 1 .. Len(s.lstack) : s.lstack[i] \in Frame
  BY <1>1
<1>3. \A f \in Frame : f.at \in Nat /\ f.link \in Nat /\ f.foreign_frame \in Nat
  BY DEF Frame
<1>. QED
  BY <1>1, <1>2, <1>3

\* Registers are put together from their fields.
LEMMA MakeRegisters ==
  ASSUME NEW l \in Seq(Frame), NEW t \in Nat, NEW c \in Nat, NEW q \in Nat
  PROVE  [lstack |-> l, lTop |-> t, fli_context |-> c, query |-> q] \in Registers
BY DEF Registers

\* The two kinds of frames are frames.
LEMMA MakeFrames ==
  ASSUME NEW at \in Nat, NEW parent \in Nat
  PROVE  FliFrame(at, parent) \in Frame /\ QueryFrame(at, parent) \in Frame
BY DEF FliFrame, QueryFrame, Frame

\* emptyStacks() and its counterpart leave well-formed registers.
LEMMA ConstantRegisters ==
  /\ NoStacks \in Registers
  /\ EmptyStacks \in Registers
<1>1. NoStacks \in Registers
  <2>1. <<>> \in Seq(Frame)
    OBVIOUS
  <2>. QED
    BY <2>1, MakeRegisters DEF NoStacks
<1>2. EmptyStacks \in Registers
  <2>1. FliFrame(0, 0) \in Frame
    BY MakeFrames
  <2>2. \A f \in Frame : <<f>> \in Seq(Frame)
    OBVIOUS
  <2>3. <<FliFrame(0, 0)>> \in Seq(Frame)
    BY <2>1, <2>2
  <2>. QED
    BY <2>3, MakeRegisters DEF EmptyStacks
<1>. QED
  BY <1>1, <1>2

\* What Append() does to a stack of frames.
LEMMA AppendFrame ==
  ASSUME NEW l \in Seq(Frame), NEW f \in Frame
  PROVE  /\ Append(l, f) \in Seq(Frame)
         /\ Len(Append(l, f)) = Len(l) + 1
         /\ \A i \in 1 .. Len(l) : Append(l, f)[i] = l[i]
         /\ Append(l, f)[Len(l) + 1] = f
OBVIOUS

\* PL_new_term_refs() moves lTop and nothing else.
LEMMA NewTermRefs ==
  ASSUME NEW s \in Registers, NEW n \in Nat
  PROVE  /\ PL_new_term_refs(s, n) \in Registers
         /\ PL_new_term_refs(s, n).lstack = s.lstack
         /\ PL_new_term_refs(s, n).fli_context = s.fli_context
         /\ PL_new_term_refs(s, n).query = s.query
BY DEF PL_new_term_refs, Registers

\* PL_open_foreign_frame() puts one foreign frame on the stack, which becomes
\* the context and remembers the old one.
LEMMA OpenForeignFrame ==
  ASSUME NEW s \in Registers, NEW t, t = PL_open_foreign_frame(s)
  PROVE  /\ t \in Registers
         /\ Len(t.lstack) = Len(s.lstack) + 1
         /\ \A i \in 1 .. Len(s.lstack) : t.lstack[i] = s.lstack[i]
         /\ t.lstack[Len(s.lstack) + 1].link = s.fli_context
         /\ t.fli_context = Len(s.lstack) + 1
         /\ t.query = s.query
<1>. DEFINE f == FliFrame(s.lTop, s.fli_context)
            l == Append(s.lstack, f)
<1>1. t = [lstack |-> l, lTop |-> s.lTop + 1,
           fli_context |-> Len(s.lstack) + 1, query |-> s.query]
  BY DEF PL_open_foreign_frame
<1>2. f \in Frame /\ f.link = s.fli_context
  BY RegisterFields, MakeFrames DEF FliFrame
<1>. HIDE DEF f
<1>3. /\ l \in Seq(Frame)
      /\ Len(l) = Len(s.lstack) + 1
      /\ \A i \in 1 .. Len(s.lstack) : l[i] = s.lstack[i]
      /\ l[Len(s.lstack) + 1] = f
  <2>1. s.lstack \in Seq(Frame)
    BY RegisterFields
  <2>. QED
    BY <1>2, <2>1, AppendFrame
<1>. HIDE DEF l
<1>4. t \in Registers
  <2>1. /\ s.lTop + 1 \in Nat /\ s.fli_context \in Nat
        /\ s.query \in Nat /\ Len(s.lstack) + 1 \in Nat
    BY RegisterFields
  <2>2. l \in Seq(Frame)
    BY <1>3
  <2>. QED
    BY <1>1, <2>1, <2>2, MakeRegisters
<1>. QED
  BY <1>1, <1>2, <1>3, <1>4

\* PL_close_foreign_frame() gives up the frame and all that is above it.
LEMMA CloseForeign ==
  ASSUME NEW s \in Registers, NEW id \in 1 .. Len(s.lstack),
         NEW t, t = PL_close_foreign_frame(s, id)
  PROVE  /\ t \in Registers
         /\ Len(t.lstack) = id - 1
         /\ \A i \in 1 .. id - 1 : t.lstack[i] = s.lstack[i]
         /\ t.fli_context = s.lstack[id].link
         /\ t.query = s.query
<1>. DEFINE l == SubSeq(s.lstack, 1, id - 1)
<1>1. t = [lstack |-> l, lTop |-> s.lstack[id].at,
           fli_context |-> s.lstack[id].link, query |-> s.query]
  BY DEF PL_close_foreign_frame
<1>2. /\ l \in Seq(Frame)
      /\ Len(l) = id - 1
      /\ \A i \in 1 .. id - 1 : l[i] = s.lstack[i]
  BY RegisterFields
<1>. HIDE DEF l
<1>3. t \in Registers
  BY <1>1, <1>2, RegisterFields, MakeRegisters
<1>. QED
  BY <1>1, <1>2, <1>3

\* What is left when a query is restored.
LEMMA RestoreQuery ==
  ASSUME NEW s \in Registers, NEW q \in 1 .. Len(s.lstack),
         NEW t, t = RestoreAfterQuery(s, q)
  PROVE  /\ t \in Registers
         /\ Len(t.lstack) = q - 1
         /\ \A i \in 1 .. q - 1 : t.lstack[i] = s.lstack[i]
         /\ t.fli_context = s.fli_context
         /\ t.query = s.lstack[q].link
<1>. DEFINE l == SubSeq(s.lstack, 1, q - 1)
<1>1. t = [lstack |-> l, lTop |-> s.lstack[q].at,
           fli_context |-> s.fli_context, query |-> s.lstack[q].link]
  BY DEF RestoreAfterQuery
<1>2. /\ l \in Seq(Frame)
      /\ Len(l) = q - 1
      /\ \A i \in 1 .. q - 1 : l[i] = s.lstack[i]
  BY RegisterFields
<1>. HIDE DEF l
<1>3. t \in Registers
  BY <1>1, <1>2, RegisterFields, MakeRegisters
<1>. QED
  BY <1>1, <1>2, <1>3

\* A frame of the stack is overwritten by another one.
LEMMA ReplaceFrame ==
  ASSUME NEW s \in Registers, NEW q \in 1 .. Len(s.lstack), NEW f \in Frame,
         NEW t, t = [s EXCEPT !.lstack = [s.lstack EXCEPT ![q] = f]]
  PROVE  /\ t \in Registers
         /\ Len(t.lstack) = Len(s.lstack)
         /\ \A i \in 1 .. Len(s.lstack) : i # q => t.lstack[i] = s.lstack[i]
         /\ t.lstack[q] = f
         /\ t.fli_context = s.fli_context
         /\ t.query = s.query
<1>. DEFINE l == [s.lstack EXCEPT ![q] = f]
<1>1. /\ l \in Seq(Frame)
      /\ Len(l) = Len(s.lstack)
      /\ \A i \in 1 .. Len(s.lstack) : i # q => l[i] = s.lstack[i]
      /\ l[q] = f
  BY RegisterFields
<1>. HIDE DEF l
<1>2. /\ t \in Registers
      /\ t.lstack = l
      /\ t.fli_context = s.fli_context
      /\ t.query = s.query
  BY <1>1 DEF Registers, l
<1>. QED
  BY <1>1, <1>2

(***************************************************************************)
(* What they do to the shape of the stack.                                 *)
(***************************************************************************)

\* Term references do not change the shape.
LEMMA NewTermRefsShape ==
  ASSUME NEW s \in Registers, NEW n \in Nat, NEW d \in {1, 2}
  PROVE  /\ Resting(s, d) => Resting(PL_new_term_refs(s, n), d)
         /\ Answered(s, d) => Answered(PL_new_term_refs(s, n), d)
BY NewTermRefs DEF Resting, Answered, Below

\* A PlFrame comes and goes.
LEMMA PlFrameShape ==
  ASSUME NEW s \in Registers
  PROVE  /\ Resting(s, 1) => Resting(PL_open_foreign_frame(s), 2)
         /\ Resting(s, 2) => /\ PL_close_foreign_frame(s, 2) \in Registers
                             /\ Resting(PL_close_foreign_frame(s, 2), 1)
<1>1. ASSUME Resting(s, 1), NEW t, t = PL_open_foreign_frame(s)
      PROVE  Resting(t, 2)
  <2>1. Len(s.lstack) = 1 /\ s.fli_context = 1 /\ s.query = 0
    BY <1>1 DEF Resting
  <2>2. /\ Len(t.lstack) = 2
        /\ t.lstack[1] = s.lstack[1]
        /\ t.lstack[2].link = 1
        /\ t.fli_context = 2
        /\ t.query = 0
    <3>1. /\ Len(t.lstack) = Len(s.lstack) + 1
          /\ \A i \in 1 .. Len(s.lstack) : t.lstack[i] = s.lstack[i]
          /\ t.lstack[Len(s.lstack) + 1].link = s.fli_context
          /\ t.fli_context = Len(s.lstack) + 1
          /\ t.query = s.query
      BY <1>1, OpenForeignFrame
    <3>. QED
      BY <2>1, <3>1
  <2>. QED
    BY <1>1, <2>2 DEF Resting, Below
<1>2. ASSUME Resting(s, 2), NEW t, t = PL_close_foreign_frame(s, 2)
      PROVE  t \in Registers /\ Resting(t, 1)
  <2>1. /\ Len(s.lstack) = 2
        /\ 2 \in 1 .. Len(s.lstack)
        /\ s.lstack[2].link = 1
        /\ s.query = 0
    BY <1>2 DEF Resting, Below
  <2>2. /\ t \in Registers
        /\ Len(t.lstack) = 1
        /\ t.lstack[1] = s.lstack[1]
        /\ t.fli_context = 1
        /\ t.query = 0
    <3>1. /\ t \in Registers
          /\ Len(t.lstack) = 2 - 1
          /\ \A i \in 1 .. 2 - 1 : t.lstack[i] = s.lstack[i]
          /\ t.fli_context = s.lstack[2].link
          /\ t.query = s.query
      <4>. DEFINE id == 2
      <4>1. id \in 1 .. Len(s.lstack) /\ t = PL_close_foreign_frame(s, id)
        BY <1>2, <2>1
      <4>. HIDE DEF id
      <4>2. /\ t \in Registers
            /\ Len(t.lstack) = id - 1
            /\ \A i \in 1 .. id - 1 : t.lstack[i] = s.lstack[i]
            /\ t.fli_context = s.lstack[id].link
            /\ t.query = s.query
        BY <4>1, CloseForeign, SMTT(30)
      <4>. QED
        BY <4>2 DEF id
    <3>. QED
      BY <2>1, <3>1
  <2>. QED
    BY <1>2, <2>2 DEF Resting, Below
<1>. QED
  BY <1>1, <1>2

\* PL_open_query() on a stack without a query.
LEMMA OpenQueryShape ==
  ASSUME NEW s \in Registers, NEW d \in {1, 2}, Resting(s, d),
         NEW t, t = PL_open_query(s)
  PROVE  /\ t \in Registers
         /\ Opened(t, d)
<1>. DEFINE f == QueryFrame(s.lTop, s.query)
            l == Append(s.lstack, f)
<1>1. t = [lstack |-> l, lTop |-> s.lTop + 1,
           fli_context |-> s.fli_context, query |-> Len(s.lstack) + 1]
  BY DEF PL_open_query
<1>2. f \in Frame /\ f.link = 0 /\ f.foreign_frame = 0
  BY RegisterFields, MakeFrames DEF QueryFrame, Resting
<1>. HIDE DEF f
<1>3. /\ l \in Seq(Frame)
      /\ Len(l) = d + 1
      /\ \A i \in 1 .. d : l[i] = s.lstack[i]
      /\ l[d + 1] = f
  <2>1. s.lstack \in Seq(Frame)
    BY RegisterFields
  <2>2. Len(s.lstack) = d
    BY DEF Resting
  <2>. QED
    BY <1>2, <2>1, <2>2, AppendFrame
<1>. HIDE DEF l
<1>4. t \in Registers
  <2>1. /\ s.lTop + 1 \in Nat /\ s.fli_context \in Nat
        /\ s.query \in Nat /\ Len(s.lstack) + 1 \in Nat
    BY RegisterFields
  <2>2. l \in Seq(Frame)
    BY <1>3
  <2>. QED
    BY <1>1, <2>1, <2>2, MakeRegisters
<1>5. t.lstack = l /\ t.fli_context = d /\ t.query = d + 1
  BY <1>1 DEF Resting
<1>. QED
  BY <1>2, <1>3, <1>4, <1>5 DEF Opened, Resting, Below

\* Closing the foreign frame of a query, if there is one.
LEMMA CloseForeignFrameShape ==
  ASSUME NEW s \in Registers, NEW d \in {1, 2}, Opened(s, d) \/ Answered(s, d),
         NEW t, t = CloseForeignFrame(s, d + 1)
  PROVE  /\ t \in Registers
         /\ Below(t, d)
         /\ Len(t.lstack) = d + 1
         /\ t.fli_context = d
         /\ t.query = d + 1
         /\ t.lstack[d + 1] = s.lstack[d + 1]
         /\ t.lstack[d + 1].link = 0
<1>1. CASE Opened(s, d)
  BY <1>1 DEF Opened, CloseForeignFrame
<1>2. CASE Answered(s, d)
  <2>1. t = PL_close_foreign_frame(s, d + 2)
    BY <1>2 DEF Answered, CloseForeignFrame
  <2>2. d + 2 \in 1 .. Len(s.lstack)
    BY <1>2 DEF Answered
  <2>3. /\ t \in Registers
        /\ Len(t.lstack) = d + 1
        /\ \A i \in 1 .. d + 1 : t.lstack[i] = s.lstack[i]
        /\ t.fli_context = d
        /\ t.query = d + 1
    <3>1. /\ t \in Registers
          /\ Len(t.lstack) = (d + 2) - 1
          /\ \A i \in 1 .. (d + 2) - 1 : t.lstack[i] = s.lstack[i]
          /\ t.fli_context = s.lstack[d + 2].link
          /\ t.query = s.query
      BY <2>1, <2>2, CloseForeign
    <3>2. (d + 2) - 1 = d + 1
      OBVIOUS
    <3>3. s.lstack[d + 2].link = d /\ s.query = d + 1
      BY <1>2 DEF Answered
    <3>. QED
      BY <3>1, <3>2, <3>3
  <2>. QED
    BY <1>2, <2>3 DEF Answered, Below
<1>. QED
  BY <1>1, <1>2

\* Leaving a query, by either function, restores the stack below it.
LEMMA LeaveQueryShape ==
  ASSUME NEW s \in Registers, NEW d \in {1, 2}, Opened(s, d) \/ Answered(s, d),
         NEW u, u = PL_cut_query(s, d + 1) \/ u = PL_close_query(s, d + 1)
  PROVE  /\ u \in Registers
         /\ Resting(u, d)
<1>. DEFINE t == CloseForeignFrame(s, d + 1)
<1>1. u = RestoreAfterQuery(t, d + 1)
  BY DEF PL_cut_query, PL_close_query
<1>2. /\ t \in Registers
      /\ Below(t, d)
      /\ Len(t.lstack) = d + 1
      /\ t.fli_context = d
      /\ t.lstack[d + 1].link = 0
  BY CloseForeignFrameShape
<1>. HIDE DEF t
<1>3. d + 1 \in 1 .. Len(t.lstack)
  BY <1>2
<1>4. /\ u \in Registers
      /\ Len(u.lstack) = d
      /\ \A i \in 1 .. d : u.lstack[i] = t.lstack[i]
      /\ u.fli_context = d
      /\ u.query = 0
  <2>1. /\ u \in Registers
        /\ Len(u.lstack) = (d + 1) - 1
        /\ \A i \in 1 .. (d + 1) - 1 : u.lstack[i] = t.lstack[i]
        /\ u.fli_context = t.fli_context
        /\ u.query = t.lstack[d + 1].link
    BY <1>1, <1>2, <1>3, RestoreQuery, ZenonT(60)
  <2>2. (d + 1) - 1 = d
    OBVIOUS
  <2>. QED
    BY <1>2, <2>1, <2>2
<1>. QED
  BY <1>2, <1>4 DEF Resting, Below

\* PL_next_solution() first gives up the last answer.
LEMMA RetryShape ==
  ASSUME NEW s \in Registers, NEW d \in {1, 2}, Opened(s, d) \/ Answered(s, d),
         NEW u, u = Retry(s, d + 1)
  PROVE  /\ u \in Registers
         /\ Opened(u, d)
<1>. DEFINE t == CloseForeignFrame(s, d + 1)
            f == [t.lstack[d + 1] EXCEPT !.foreign_frame = 0]
<1>1. u = [t EXCEPT !.lstack = [t.lstack EXCEPT ![d + 1] = f]]
  BY DEF Retry
<1>2. /\ t \in Registers
      /\ Below(t, d)
      /\ Len(t.lstack) = d + 1
      /\ t.fli_context = d
      /\ t.query = d + 1
      /\ t.lstack[d + 1].link = 0
  BY CloseForeignFrameShape
<1>. HIDE DEF t
<1>3. d + 1 \in 1 .. Len(t.lstack)
  BY <1>2
<1>4. t.lstack[d + 1] \in Frame
  BY <1>2, <1>3, RegisterFields
<1>5. f \in Frame /\ f.link = 0 /\ f.foreign_frame = 0
  BY <1>2, <1>4 DEF Frame
<1>. HIDE DEF f
<1>6. /\ u \in Registers
      /\ Len(u.lstack) = d + 1
      /\ \A i \in 1 .. d + 1 : i # d + 1 => u.lstack[i] = t.lstack[i]
      /\ u.lstack[d + 1] = f
      /\ u.fli_context = d
      /\ u.query = d + 1
  BY <1>1, <1>2, <1>3, <1>5, ReplaceFrame
<1>. QED
  BY <1>2, <1>5, <1>6 DEF Opened, Below

\* Leaving the machine opens the frame for the answer.
LEMMA LeaveVMShape ==
  ASSUME NEW s \in Registers, NEW d \in {1, 2}, Opened(s, d), NEW det \in BOOLEAN,
         NEW u, u = LeaveVM(s, d + 1, det)
  PROVE  /\ u \in Registers
         /\ Answered(u, d)
<1>. DEFINE t == PL_open_foreign_frame(s)
            f == [t.lstack[d + 1] EXCEPT !.foreign_frame = t.fli_context,
                                         !.deterministic = det]
<1>1. u = [t EXCEPT !.lstack = [t.lstack EXCEPT ![d + 1] = f]]
  BY DEF LeaveVM
<1>2. Len(s.lstack) = d + 1 /\ s.fli_context = d /\ s.query = d + 1
  BY DEF Opened
<1>3. /\ t \in Registers
      /\ Len(t.lstack) = d + 2
      /\ t.fli_context = d + 2
      /\ t.query = d + 1
      /\ t.lstack[d + 2].link = d
      /\ \A i \in 1 .. d + 1 : t.lstack[i] = s.lstack[i]
  BY <1>2, OpenForeignFrame
<1>. HIDE DEF t
<1>4. d + 1 \in 1 .. Len(t.lstack)
  BY <1>3
<1>5. t.lstack[d + 1] \in Frame /\ t.lstack[d + 1].link = 0
  BY <1>3, <1>4, RegisterFields DEF Opened
<1>6. f \in Frame /\ f.link = 0 /\ f.foreign_frame = d + 2
  <2>1. t.fli_context \in Nat
    BY <1>3, RegisterFields
  <2>2. f \in Frame /\ f.link = t.lstack[d + 1].link
                    /\ f.foreign_frame = t.fli_context
    <3>. DEFINE g == t.lstack[d + 1]
                n == t.fli_context
    <3>1. g \in Frame /\ n \in Nat
      BY <1>5, <2>1
    <3>. HIDE DEF g, n
    <3>2. [g EXCEPT !.foreign_frame = n, !.deterministic = det] \in Frame
      BY <3>1 DEF Frame
    <3>3. [g EXCEPT !.foreign_frame = n, !.deterministic = det].link = g.link
      BY <3>1 DEF Frame
    <3>4. [g EXCEPT !.foreign_frame = n, !.deterministic = det].foreign_frame = n
      BY <3>1 DEF Frame
    <3>. QED
      BY <3>2, <3>3, <3>4, Zenon DEF g, n
  <2>. QED
    BY <1>3, <1>5, <2>2
<1>. HIDE DEF f
<1>7. /\ u \in Registers
      /\ Len(u.lstack) = d + 2
      /\ \A i \in 1 .. d + 2 : i # d + 1 => u.lstack[i] = t.lstack[i]
      /\ u.lstack[d + 1] = f
      /\ u.fli_context = d + 2
      /\ u.query = d + 1
  BY <1>1, <1>3, <1>4, <1>6, ReplaceFrame
<1>. QED
  BY <1>3, <1>6, <1>7 DEF Opened, Answered, Below

(***************************************************************************)
(* The inductive invariant.                                                *)
(***************************************************************************)

\* Which steps belong to which entry point, and what they rely on: a call in
\* rolog_consult has a file to load, and an answer is looked at only after
\* there was one.
StepsMatchCall ==
  /\ pc = "R" <=> fn = "none"
  /\ pc = "file" => fn = "consult"
  /\ pc = "read" => fn = "string"
  /\ fn = "consult" => Len(files) >= 1
  /\ pc \in {"row", "read"} => Len(produced) >= 1

\* The types, the pointer of rolog_init.cpp, the frames and the steps.
IInv == TypeOK /\ EngineAlive /\ FramesMatchHandles /\ StepsMatchCall

\* The part of the type invariant that is about the engine.
EngineTypes ==
  /\ process \in {"up", "exited", "dead"}
  /\ gd \in GlobalData
  /\ exception_term \in Pending
  /\ rolog_engine \in BOOLEAN

\* What the stacks of a new engine look like.
LEMMA EmptyStacksShape == Resting(EmptyStacks, 1)
BY DEF EmptyStacks, Resting, Below

\* The numbers of term references are numbers.
LEMMA RefsAreNumbers ==
  /\ \A f \in Queries \cup {"string", "call", "init", "consult"} : ArgRefs[f] \in Nat
  /\ \A f \in Queries \cup {"call", "init"} : ArgErrorRefs[f] \in Nat
  /\ \A e : ThrowRefs(e) \in Nat
<1>1. \A f \in Queries \cup {"string", "call", "init", "consult"} : ArgRefs[f] \in Nat
  BY DEF Queries, ArgRefs
<1>2. \A f \in Queries \cup {"call", "init"} : ArgErrorRefs[f] \in Nat
  BY DEF Queries, ArgErrorRefs
<1>3. \A e : ThrowRefs(e) \in Nat
  BY DEF ThrowRefs
<1>. QED
  BY <1>1, <1>2, <1>3

\* The exceptions that may be pending after an operation.
LEMMA PendingTypes ==
  ASSUME NEW p \in Pending
  PROVE  /\ \A e \in Exceptions : PL_raise_exception(p, e) \in Pending
         /\ RunQuietly(p) \subseteq Pending
         /\ RunAndRaise(p) \subseteq Pending
         /\ RunAndRethrow(p) \subseteq Pending
         /\ \A s, q : CutException(s, q, p) \subseteq Pending
<1>1. NoException \in Pending /\ Exceptions \subseteq Pending
  BY DEF Pending
<1>2. \A x \in Pending, e \in Exceptions : PL_raise_exception(x, e) \in Pending
  BY <1>1 DEF PL_raise_exception
<1>3. RunQuietly(p) \subseteq Pending
  BY <1>1 DEF RunQuietly
<1>4. RunAndRaise(p) \subseteq Pending
  BY <1>2, <1>3 DEF RunAndRaise
<1>5. Discard(p) \subseteq Pending
  BY <1>1 DEF Discard
<1>. QED
  BY <1>2, <1>3, <1>4, <1>5 DEF RunAndRethrow, CutException

\* A call that returns leaves the invariant behind, whatever it returns.
LEMMA EndCallInv ==
  ASSUME NEW s \in Registers, Resting(s, 1),
         NEW kind \in Outcomes, NEW val, NEW b,
         fn \in EntryPoints \cup {"none"},
         EndCall(kind, val, b, s), EngineTypes', gd.initialised'
  PROVE  (TypeOK /\ FramesMatchHandles /\ StepsMatchCall)'
<1>1. /\ ld' = s /\ pc' = "R" /\ fn' = "none" /\ fid' = 0 /\ qid' = 0
      /\ files' = <<>> /\ r' = <<>> /\ produced' = <<>>
      /\ more' = FALSE /\ blame' = {} /\ base' = 0
  BY DEF EndCall
<1>2. reply'.fn = fn /\ reply'.kind = kind
  BY DEF EndCall
<1>3. TypeOK'
  <2>1. files' \in Seq(Files) /\ r' \in Seq(Answers) /\ produced' \in Seq(Answers)
    BY <1>1
  <2>2. more' \in BOOLEAN /\ blame' \in SUBSET Origins
    BY <1>1
  <2>. QED
    BY <1>1, <1>2, <2>1, <2>2 DEF TypeOK, EngineTypes
<1>4. FramesMatchHandles'
  BY <1>1 DEF FramesMatchHandles, Depth
<1>5. StepsMatchCall'
  BY <1>1 DEF StepsMatchCall
<1>. QED
  BY <1>3, <1>4, <1>5

\* So does a call that is over before it touched anything but the engine.
LEMMA AnswerInv ==
  ASSUME IInv, pc = "R", NEW f \in EntryPoints, NEW kind \in Outcomes, NEW val,
         Answer(f, kind, val), EngineTypes', ld' \in Registers,
         gd.initialised' => Resting(ld, 1)', ~gd.initialised' => ld' = NoStacks
  PROVE  (TypeOK /\ FramesMatchHandles /\ StepsMatchCall)'
<1>1. /\ pc' = "R" /\ pc' = pc /\ fn' = fn /\ fid' = fid /\ qid' = qid /\ files' = files
      /\ r' = r /\ produced' = produced /\ more' = more /\ blame' = blame
      /\ base' = base
  BY DEF Answer, callVars
<1>2. reply'.fn = f /\ reply'.kind = kind
  BY DEF Answer, NoReply
<1>3. fn = "none" /\ fid = 0 /\ qid = 0
  BY DEF IInv, FramesMatchHandles, StepsMatchCall
<1>4. TypeOK'
  BY <1>1, <1>2 DEF IInv, TypeOK, EngineTypes
<1>5. FramesMatchHandles'
  BY <1>1, <1>3 DEF FramesMatchHandles, Depth
<1>6. StepsMatchCall'
  BY <1>1 DEF IInv, StepsMatchCall
<1>. QED
  BY <1>4, <1>5, <1>6

\* The arguments of a call are built, or building them fails.
LEMMA BuildArgumentsInv ==
  ASSUME IInv, pc = "R",
         NEW f \in Queries \cup {"string", "call", "init"},
         NEW s \in Registers, NEW top \in Nat,
         Resting(s, IF f = "string" THEN 2 ELSE 1),
         BuildArguments(f, s, top),
         fid' = IF f = "string" THEN 2 ELSE 0,
         EngineTypes', gd.initialised'
  PROVE  (TypeOK /\ FramesMatchHandles /\ StepsMatchCall)'
<1>1. fn = "none" /\ fid = 0 /\ qid = 0
  BY DEF IInv, FramesMatchHandles, StepsMatchCall
<1>2. f \in EntryPoints /\ f # "none" /\ f # "consult"
  BY DEF EntryPoints, Queries
<1>3. CASE /\ BeginCall(f, top)
           /\ ld' = PL_new_term_refs(s, ArgRefs[f])
           /\ pc' = "open"
           /\ UNCHANGED <<qid, files>>
  <2>1. /\ fn' = f /\ r' = <<>> /\ produced' = <<>> /\ more' = FALSE
        /\ blame' = Inherited /\ base' = top /\ reply' = NoReply
    BY <1>3 DEF BeginCall
  <2>2. Inherited \in SUBSET Origins
    BY DEF Inherited, Origins
  <2>3. ld' \in Registers /\ Resting(ld', IF f = "string" THEN 2 ELSE 1)
    <3>1. ArgRefs[f] \in Nat
      BY RefsAreNumbers
    <3>. QED
      BY <1>3, <3>1, NewTermRefs, NewTermRefsShape
  <2>4. TypeOK'
    <3>1. reply'.fn = "none" /\ reply'.kind = "none"
      BY <2>1 DEF NoReply
    <3>2. r' \in Seq(Answers) /\ produced' \in Seq(Answers)
      BY <2>1
    <3>3. files' \in Seq(Files) /\ qid' \in Nat
      BY <1>3 DEF IInv, TypeOK
    <3>4. more' \in BOOLEAN /\ blame' \in SUBSET Origins
      BY <2>1, <2>2
    <3>5. fid' \in Nat
      OBVIOUS
    <3>. QED
      BY <1>2, <1>3, <2>1, <2>3, <3>1, <3>2, <3>3, <3>4, <3>5
      DEF TypeOK, EngineTypes, Outcomes
  <2>5. FramesMatchHandles'
    BY <1>1, <1>3, <2>1, <2>3 DEF FramesMatchHandles, Depth
  <2>6. StepsMatchCall'
    BY <1>2, <1>3, <2>1 DEF StepsMatchCall
  <2>. QED
    BY <2>4, <2>5, <2>6
<1>4. CASE /\ f # "string"
           /\ ld' = PL_new_term_refs(s, ArgErrorRefs[f])
           /\ reply' = [NoReply EXCEPT !.fn = f, !.kind = "argument",
                                       !.blame = Inherited,
                                       !.leak = ArgErrorRefs[f]]
           /\ UNCHANGED <<pc, fn, r, produced, more, blame, base, qid, files>>
  <2>1. ld' \in Registers /\ Resting(ld', 1)
    <3>1. ArgErrorRefs[f] \in Nat
      BY <1>4, RefsAreNumbers
    <3>. QED
      BY <1>4, <3>1, NewTermRefs, NewTermRefsShape
  <2>2. reply'.fn = f /\ reply'.kind = "argument"
    BY <1>4 DEF NoReply
  <2>3. TypeOK'
    BY <1>2, <1>4, <2>1, <2>2 DEF IInv, TypeOK, EngineTypes, Outcomes
  <2>4. FramesMatchHandles'
    BY <1>1, <1>4, <2>1 DEF FramesMatchHandles, Depth
  <2>5. StepsMatchCall'
    BY <1>4 DEF IInv, StepsMatchCall
  <2>. QED
    BY <2>3, <2>4, <2>5
<1>. QED
  BY <1>3, <1>4 DEF BuildArguments

(***************************************************************************)
(* The entry points preserve the invariant.                                *)
(***************************************************************************)

\* What the invariant says when R has the control.
LEMMA IdleFacts ==
  ASSUME IInv, Idle
  PROVE  /\ pc = "R" /\ fn = "none" /\ fid = 0 /\ qid = 0
         /\ EngineTypes /\ ld \in Registers /\ ld.lTop \in Nat
         /\ gd.initialised => Resting(ld, 1)
         /\ ~gd.initialised => ld = NoStacks
         /\ rolog_engine => gd.initialised
<1>1. pc = "R" /\ fn = "none" /\ fid = 0 /\ qid = 0
  BY DEF IInv, Idle, StepsMatchCall, FramesMatchHandles
<1>2. ld \in Registers /\ EngineTypes
  BY DEF IInv, TypeOK, EngineTypes
<1>3. ld.lTop \in Nat
  BY <1>2, RegisterFields
<1>4. /\ gd.initialised => Resting(ld, 1)
      /\ ~gd.initialised => ld = NoStacks
  BY <1>1 DEF IInv, FramesMatchHandles, Depth
<1>5. rolog_engine => gd.initialised
  BY DEF IInv, EngineAlive
<1>. QED
  BY <1>1, <1>2, <1>3, <1>4, <1>5

\* rolog_query, rolog_query_LL and rolog_query_comp begin, or fail on an argument.
LEMMA RologQueryInv ==
  ASSUME IInv, NEW f \in Queries, RologQuery(f)
  PROVE  IInv'
<1>1. f # "string" /\ f \in Queries \cup {"string", "call", "init"}
  BY DEF Queries
<1>2. Idle /\ gd.initialised /\ BuildArguments(f, ld, ld.lTop)
  BY DEF RologQuery
<1>3. UNCHANGED <<process, gd, exception_term, rolog_engine, fid>>
  BY DEF RologQuery
<1>4. /\ pc = "R" /\ fid = 0 /\ EngineTypes /\ ld \in Registers /\ ld.lTop \in Nat
      /\ Resting(ld, 1)
  BY <1>2, IdleFacts
<1>5. EngineTypes' /\ gd.initialised' /\ fid' = 0
  BY <1>2, <1>3, <1>4 DEF EngineTypes
<1>6. EngineAlive'
  BY <1>3 DEF IInv, EngineAlive
<1>7. (TypeOK /\ FramesMatchHandles /\ StepsMatchCall)'
  BY <1>1, <1>2, <1>4, <1>5, BuildArgumentsInv
<1>. QED
  BY <1>6, <1>7 DEF IInv

\* rolog_query_string begins, with a PlFrame.
LEMMA RologQueryStringInv ==
  ASSUME IInv, RologQueryString
  PROVE  IInv'
<1>. DEFINE s == PL_open_foreign_frame(ld)
<1>1. /\ Idle /\ gd.initialised
      /\ fid' = Len(ld.lstack) + 1
      /\ BuildArguments("string", s, ld.lTop)
  BY DEF RologQueryString
<1>2. UNCHANGED <<process, gd, exception_term, rolog_engine>>
  BY DEF RologQueryString
<1>3. /\ pc = "R" /\ EngineTypes /\ ld \in Registers /\ ld.lTop \in Nat
      /\ Resting(ld, 1)
  BY <1>1, IdleFacts
<1>4. EngineTypes' /\ gd.initialised'
  BY <1>1, <1>2, <1>3 DEF EngineTypes
<1>5. fid' = 2
  BY <1>1, <1>3 DEF Resting
<1>6. s \in Registers /\ Resting(s, 2)
  BY <1>3, OpenForeignFrame, PlFrameShape
<1>7. EngineAlive'
  BY <1>2 DEF IInv, EngineAlive
<1>. HIDE DEF s
<1>8. (TypeOK /\ FramesMatchHandles /\ StepsMatchCall)'
  BY <1>1, <1>3, <1>4, <1>5, <1>6, BuildArgumentsInv
<1>. QED
  BY <1>7, <1>8 DEF IInv

\* A query without an engine ends the process.
LEMMA QueryWithoutEngineInv ==
  ASSUME IInv, QueryWithoutEngine
  PROVE  IInv'
<1>1. process' = "dead"
  BY DEF QueryWithoutEngine
<1>2. UNCHANGED <<gd, ld, exception_term, rolog_engine, pc, fn, fid, qid, files, r,
                  produced, more, blame, base, reply>>
  BY DEF QueryWithoutEngine, callVars
<1>. QED
  BY <1>1, <1>2 DEF IInv, TypeOK, EngineAlive, FramesMatchHandles, StepsMatchCall, Depth

\* PL_initialise() gives up and ends the process.
LEMMA InitialiseExitsInv ==
  ASSUME IInv, InitialiseExits
  PROVE  IInv'
<1>1. process' = "exited"
  BY DEF InitialiseExits
<1>2. UNCHANGED <<gd, ld, exception_term, rolog_engine, pc, fn, fid, qid, files, r,
                  produced, more, blame, base, reply>>
  BY DEF InitialiseExits, callVars
<1>. QED
  BY <1>1, <1>2 DEF IInv, TypeOK, EngineAlive, FramesMatchHandles, StepsMatchCall, Depth

\* rolog_call begins, or refuses without an engine.
LEMMA RologCallInv ==
  ASSUME IInv, RologCall
  PROVE  IInv'
<1>1. Idle /\ UNCHANGED <<process, gd, exception_term, rolog_engine, fid>>
  BY DEF RologCall
<1>2. /\ pc = "R" /\ fid = 0 /\ EngineTypes /\ ld \in Registers /\ ld.lTop \in Nat
      /\ gd.initialised => Resting(ld, 1)
      /\ ~gd.initialised => ld = NoStacks
      /\ rolog_engine => gd.initialised
  BY <1>1, IdleFacts
<1>3. EngineTypes' /\ fid' = 0 /\ EngineAlive'
  BY <1>1, <1>2 DEF EngineTypes, EngineAlive
<1>4. CASE rolog_engine
  <2>1. BuildArguments("call", ld, ld.lTop)
    BY <1>4 DEF RologCall
  <2>2. gd.initialised' /\ Resting(ld, 1)
    BY <1>1, <1>2, <1>4
  <2>3. (TypeOK /\ FramesMatchHandles /\ StepsMatchCall)'
    BY <1>2, <1>3, <2>1, <2>2, BuildArgumentsInv
  <2>. QED
    BY <1>3, <2>3 DEF IInv
<1>5. CASE ~rolog_engine
  <2>1. Answer("call", "not initialized", <<>>) /\ ld' = ld
    BY <1>5 DEF RologCall
  <2>2. "call" \in EntryPoints /\ "not initialized" \in Outcomes
    BY DEF EntryPoints, Outcomes
  <2>3. /\ ld' \in Registers
        /\ gd.initialised' => Resting(ld, 1)'
        /\ ~gd.initialised' => ld' = NoStacks
    BY <1>1, <1>2, <2>1
  <2>4. (TypeOK /\ FramesMatchHandles /\ StepsMatchCall)'
    BY <1>2, <1>3, <2>1, <2>2, <2>3, AnswerInv
  <2>. QED
    BY <1>3, <2>4 DEF IInv
<1>. QED
  BY <1>4, <1>5 DEF EngineTypes

\* rolog_consult begins, refuses, or has nothing to load.
LEMMA RologConsultInv ==
  ASSUME IInv, RologConsult
  PROVE  IInv'
<1>1. Idle /\ UNCHANGED <<process, gd, ld, exception_term, rolog_engine, fid>>
  BY DEF RologConsult, engineVars
<1>2. /\ pc = "R" /\ fn = "none" /\ fid = 0 /\ qid = 0
      /\ EngineTypes /\ ld \in Registers /\ ld.lTop \in Nat
      /\ gd.initialised => Resting(ld, 1)
      /\ ~gd.initialised => ld = NoStacks
      /\ rolog_engine => gd.initialised
  BY <1>1, IdleFacts
<1>3. EngineTypes' /\ fid' = 0 /\ EngineAlive'
  BY <1>1, <1>2 DEF EngineTypes, EngineAlive
<1>4. /\ ld' \in Registers
      /\ gd.initialised' => Resting(ld, 1)'
      /\ ~gd.initialised' => ld' = NoStacks
  BY <1>1, <1>2
<1>5. PICK n \in 0 .. MaxFiles : \E prolog_files \in [1 .. n -> Files] :
        \/ Answer("consult", "not initialized", <<>>)
        \/ Answer("consult", "value", <<>>)
        \/ /\ rolog_engine /\ n # 0
           /\ BeginCall("consult", ld.lTop)
           /\ files' = prolog_files
           /\ pc' = "file"
           /\ qid' = qid
  BY DEF RologConsult
<1>6. PICK prolog_files \in [1 .. n -> Files] :
        \/ Answer("consult", "not initialized", <<>>)
        \/ Answer("consult", "value", <<>>)
        \/ /\ rolog_engine /\ n # 0
           /\ BeginCall("consult", ld.lTop)
           /\ files' = prolog_files
           /\ pc' = "file"
           /\ qid' = qid
  BY <1>5
<1>7. "consult" \in EntryPoints /\ "value" \in Outcomes /\ "not initialized" \in Outcomes
  BY DEF EntryPoints, Outcomes
<1>8. CASE Answer("consult", "not initialized", <<>>)
  BY <1>2, <1>3, <1>4, <1>7, <1>8, AnswerInv DEF IInv
<1>9. CASE Answer("consult", "value", <<>>)
  BY <1>2, <1>3, <1>4, <1>7, <1>9, AnswerInv DEF IInv
<1>10. CASE /\ rolog_engine /\ n # 0
            /\ BeginCall("consult", ld.lTop)
            /\ files' = prolog_files
            /\ pc' = "file"
            /\ qid' = qid
  <2>1. /\ fn' = "consult" /\ r' = <<>> /\ produced' = <<>> /\ more' = FALSE
        /\ blame' = Inherited /\ base' = ld.lTop /\ reply' = NoReply
    BY <1>10 DEF BeginCall
  <2>2. n \in Nat /\ n >= 1
    BY <1>10, BoundsAssumption
  <2>3. files' \in Seq(Files) /\ Len(files') >= 1
    BY <1>10, <2>2
  <2>4. TypeOK'
    <3>1. reply'.fn = "none" /\ reply'.kind = "none"
      BY <2>1 DEF NoReply
    <3>2. r' \in Seq(Answers) /\ produced' \in Seq(Answers)
      BY <2>1
    <3>3. more' \in BOOLEAN /\ blame' \in SUBSET Origins
      BY <2>1 DEF Inherited, Origins
    <3>4. qid' \in Nat /\ base' \in Nat
      BY <1>2, <1>10, <2>1
    <3>. QED
      BY <1>3, <1>4, <1>7, <1>10, <2>1, <2>3, <3>1, <3>2, <3>3, <3>4
      DEF TypeOK, EngineTypes, Outcomes
  <2>5. FramesMatchHandles'
    BY <1>1, <1>2, <1>3, <1>10, <2>1 DEF FramesMatchHandles, Depth
  <2>6. StepsMatchCall'
    BY <1>10, <2>1, <2>3 DEF StepsMatchCall
  <2>. QED
    BY <1>3, <2>4, <2>5, <2>6 DEF IInv
<1>. QED
  BY <1>6, <1>8, <1>9, <1>10

\* PL_initialise() keeps the global data well formed, and returns TRUE only
\* with an initialised engine.
LEMMA InitialiseFacts ==
  ASSUME NEW g \in GlobalData, NEW o \in PL_initialise(g)
  PROVE  /\ o.gd \in GlobalData /\ o.rval \in BOOLEAN
         /\ o.rval => o.gd.initialised
         /\ g.initialised => o.gd = g
<1>1. CASE g.initialised
  <2>1. o = [rval |-> TRUE, gd |-> g]
    BY <1>1 DEF PL_initialise
  <2>. QED
    BY <1>1, <2>1
<1>2. CASE ~g.initialised
  <2>. DEFINE h1 == [g EXCEPT !.initialised = TRUE]
              h2 == [g EXCEPT !.initialised = TRUE, !.booted = TRUE]
  <2>1. h1 \in GlobalData
    BY DEF GlobalData
  <2>2. h2 \in GlobalData /\ h2.initialised
    BY DEF GlobalData
  <2>3. \/ o = [rval |-> FALSE, gd |-> g]
        \/ o = [rval |-> FALSE, gd |-> h1]
        \/ o = [rval |-> TRUE,  gd |-> h2]
    BY <1>2 DEF PL_initialise
  <2>. HIDE DEF h1, h2
  <2>4. o.gd \in GlobalData /\ o.rval \in BOOLEAN
    <3>1. o.gd = g \/ o.gd = h1 \/ o.gd = h2
      BY <2>3
    <3>2. o.rval = TRUE \/ o.rval = FALSE
      BY <2>3
    <3>. QED
      BY <2>1, <2>2, <3>1, <3>2, Zenon
  <2>5. o.rval => o.gd = h2
    BY <2>3
  <2>6. o.rval => o.gd.initialised
    BY <2>2, <2>5, Zenon
  <2>. QED
    BY <1>2, <2>4, <2>6
<1>. QED
  BY <1>1, <1>2

\* rolog_init starts the engine or finds it running.
LEMMA RologInitInv ==
  ASSUME IInv, RologInit
  PROVE  IInv'
<1>1. Idle /\ UNCHANGED <<process, exception_term, fid>>
  BY DEF RologInit
<1>2. /\ pc = "R" /\ fid = 0 /\ EngineTypes /\ ld \in Registers /\ ld.lTop \in Nat
      /\ gd.initialised => Resting(ld, 1)
      /\ ~gd.initialised => ld = NoStacks
      /\ rolog_engine => gd.initialised
  BY <1>1, IdleFacts
<1>3. CASE rolog_engine
  <2>1. BuildArguments("init", ld, ld.lTop) /\ UNCHANGED <<gd, rolog_engine>>
    BY <1>3 DEF RologInit
  <2>2. EngineTypes' /\ fid' = 0 /\ EngineAlive' /\ gd.initialised' /\ Resting(ld, 1)
    BY <1>1, <1>2, <1>3, <2>1 DEF EngineTypes, EngineAlive
  <2>3. (TypeOK /\ FramesMatchHandles /\ StepsMatchCall)'
    BY <1>2, <2>1, <2>2, BuildArgumentsInv
  <2>. QED
    BY <2>2, <2>3 DEF IInv
<1>4. CASE ~rolog_engine
  <2>1. PICK o \in PL_initialise(gd) :
          /\ gd' = o.gd
          /\ rolog_engine' = o.rval
          /\ IF o.rval
               THEN BuildArguments("init", InitialisedStacks(o.gd),
                                   InitialisedStacks(o.gd).lTop)
               ELSE /\ Answer("init", "failed to initialise", <<>>)
                    /\ ld' = InitialisedStacks(o.gd)
    BY <1>4 DEF RologInit
  <2>. DEFINE s == InitialisedStacks(o.gd)
  <2>2. gd \in GlobalData
    BY <1>2 DEF EngineTypes
  <2>3. /\ o.gd \in GlobalData /\ o.rval \in BOOLEAN
        /\ o.rval => o.gd.initialised
        /\ gd.initialised => o.gd = gd
    BY <2>2, InitialiseFacts
  <2>4. EngineTypes' /\ fid' = 0 /\ EngineAlive'
    BY <1>1, <1>2, <2>1, <2>3 DEF EngineTypes, EngineAlive
  <2>5. /\ s \in Registers
        /\ o.gd.initialised => Resting(s, 1)
        /\ ~o.gd.initialised => s = NoStacks
    BY <1>2, <2>3, ConstantRegisters, EmptyStacksShape DEF InitialisedStacks
  <2>6. s.lTop \in Nat
    BY <2>5, RegisterFields
  <2>. HIDE DEF s
  <2>7. CASE o.rval
    <3>1. BuildArguments("init", s, s.lTop)
      BY <2>1, <2>7 DEF s
    <3>2. gd.initialised' /\ Resting(s, 1)
      BY <2>1, <2>3, <2>5, <2>7
    <3>3. (TypeOK /\ FramesMatchHandles /\ StepsMatchCall)'
      BY <1>2, <2>4, <2>5, <2>6, <3>1, <3>2, BuildArgumentsInv
    <3>. QED
      BY <2>4, <3>3 DEF IInv
  <2>8. CASE ~o.rval
    <3>1. Answer("init", "failed to initialise", <<>>) /\ ld' = s
      BY <2>1, <2>8 DEF s
    <3>2. "init" \in EntryPoints /\ "failed to initialise" \in Outcomes
      BY DEF EntryPoints, Outcomes
    <3>3. /\ ld' \in Registers
          /\ gd.initialised' => Resting(ld, 1)'
          /\ ~gd.initialised' => ld' = NoStacks
      BY <2>1, <2>5, <3>1
    <3>4. (TypeOK /\ FramesMatchHandles /\ StepsMatchCall)'
      BY <1>2, <2>4, <3>1, <3>2, <3>3, AnswerInv
    <3>. QED
      BY <2>4, <3>4 DEF IInv
  <2>. QED
    BY <2>3, <2>7, <2>8
<1>. QED
  BY <1>2, <1>3, <1>4 DEF EngineTypes

\* The global data of an engine that stopped, or whose halt was cancelled.
LEMMA HaltFacts ==
  /\ ZeroData \in GlobalData
  /\ \A g \in GlobalData : MayCancel(g) => /\ CancelHalt(g) \in GlobalData
                                           /\ CancelHalt(g).initialised = g.initialised
<1>1. ZeroData \in GlobalData
  BY HaltAssumption DEF ZeroData, GlobalData
<1>2. ASSUME NEW g \in GlobalData, MayCancel(g)
      PROVE  /\ CancelHalt(g) \in GlobalData
             /\ CancelHalt(g).initialised = g.initialised
  <2>1. g.halt_cancelled \in 0 .. MAX_HALT_CANCELLED - 1
    BY DEF GlobalData
  <2>2. g.halt_cancelled + 1 \in 0 .. MAX_HALT_CANCELLED - 1
    BY <1>2, <2>1, HaltAssumption DEF MayCancel
  <2>. QED
    BY <2>2 DEF CancelHalt, GlobalData
<1>. QED
  BY <1>1, <1>2

\* rolog_exit stops the engine, or its halt is cancelled.
LEMMA RologExitInv ==
  ASSUME IInv, RologExit
  PROVE  IInv'
<1>1. /\ Idle /\ rolog_engine' = FALSE /\ process' = process
      /\ Answer("exit", "value", <<>>)
  BY DEF RologExit
<1>2. /\ pc = "R" /\ EngineTypes /\ ld \in Registers
      /\ gd.initialised => Resting(ld, 1)
      /\ ~gd.initialised => ld = NoStacks
      /\ rolog_engine => gd.initialised
  BY <1>1, IdleFacts
<1>3. NoException \in Pending
  BY DEF Pending
<1>4. /\ gd' \in GlobalData /\ exception_term' \in Pending /\ ld' \in Registers
      /\ gd'.initialised => Resting(ld', 1)
      /\ ~gd'.initialised => ld' = NoStacks
  <2>1. CASE ~rolog_engine
    <3>1. UNCHANGED <<gd, ld, exception_term>>
      BY <2>1 DEF RologExit
    <3>. QED
      BY <1>2, <3>1 DEF EngineTypes
  <2>2. CASE rolog_engine /\ gd' = ZeroData /\ ld' = NoStacks
    <3>1. exception_term' = NoException
      BY <2>2 DEF RologExit
    <3>2. ~ZeroData.initialised
      BY DEF ZeroData
    <3>. QED
      BY <1>3, <2>2, <3>1, <3>2, HaltFacts, ConstantRegisters
  <2>3. CASE /\ rolog_engine
             /\ MayCancel(gd) /\ gd' = CancelHalt(gd) /\ ld' \in {ld, EmptyStacks}
    <3>1. exception_term' = NoException
      BY <2>3 DEF RologExit
    <3>2. gd' \in GlobalData /\ gd'.initialised
      BY <1>2, <2>3, HaltFacts DEF EngineTypes
    <3>. QED
      BY <1>2, <1>3, <2>3, <3>1, <3>2, ConstantRegisters, EmptyStacksShape
  <2>. QED
    BY <2>1, <2>2, <2>3 DEF RologExit
<1>5. EngineTypes' /\ EngineAlive'
  BY <1>1, <1>2, <1>4 DEF EngineTypes, EngineAlive
<1>6. "exit" \in EntryPoints /\ "value" \in Outcomes
  BY DEF EntryPoints, Outcomes
<1>7. (TypeOK /\ FramesMatchHandles /\ StepsMatchCall)'
  BY <1>1, <1>2, <1>4, <1>5, <1>6, AnswerInv
<1>. QED
  BY <1>5, <1>7 DEF IInv

(***************************************************************************)
(* The steps of a call preserve the invariant.                             *)
(***************************************************************************)

\* What the invariant says inside a call.
LEMMA ActiveFacts ==
  ASSUME IInv, pc # "R"
  PROVE  /\ gd.initialised /\ fn # "none" /\ fn \in EntryPoints
         /\ EngineTypes /\ ld \in Registers
         /\ Depth \in {1, 2} /\ Depth = (IF fid = 0 THEN 1 ELSE 2)
         /\ fid = (IF fn = "string" THEN 2 ELSE 0)
<1>1. gd.initialised /\ fid = (IF fn = "string" THEN 2 ELSE 0)
  BY DEF IInv, FramesMatchHandles
<1>2. fn # "none" /\ fn \in EntryPoints
  BY DEF IInv, StepsMatchCall, TypeOK
<1>3. EngineTypes /\ ld \in Registers
  BY DEF IInv, TypeOK, EngineTypes
<1>4. Depth \in {1, 2} /\ Depth = (IF fid = 0 THEN 1 ELSE 2)
  BY <1>1 DEF Depth
<1>. QED
  BY <1>1, <1>2, <1>3, <1>4

\* ~PlFrame() brings the stack back to the base frame.
LEMMA CloseFrameShape ==
  ASSUME IInv, pc # "R", NEW s \in Registers, Resting(s, Depth)
  PROVE  CloseFrame(s) \in Registers /\ Resting(CloseFrame(s), 1)
<1>1. (fid = 0 /\ Depth = 1) \/ (fid = 2 /\ Depth = 2)
  <2>1. fid = IF fn = "string" THEN 2 ELSE 0
    BY DEF IInv, FramesMatchHandles
  <2>. QED
    BY <2>1 DEF Depth
<1>2. CASE fid = 0 /\ Depth = 1
  BY <1>2 DEF CloseFrame
<1>3. CASE fid = 2 /\ Depth = 2
  <2>1. CloseFrame(s) = PL_close_foreign_frame(s, 2)
    BY <1>3 DEF CloseFrame
  <2>2. Resting(s, 2)
    BY <1>3
  <2>. QED
    BY <2>1, <2>2, PlFrameShape
<1>. QED
  BY <1>1, <1>2, <1>3

\* rolog_consult builds the argument of the next file.
LEMMA ConsultFileInv ==
  ASSUME IInv, ConsultFile
  PROVE  IInv'
<1>1. /\ pc = "file" /\ pc' = "open"
      /\ ld' = PL_new_term_refs(ld, ArgRefs["consult"])
      /\ UNCHANGED <<process, gd, exception_term, rolog_engine, fn, fid, qid,
                     files, r, produced, more, blame, base, reply>>
  BY DEF ConsultFile
<1>2. ld \in Registers /\ gd.initialised /\ Depth \in {1, 2}
  BY <1>1, ActiveFacts
<1>3. qid = 0 /\ Resting(ld, Depth)
  BY <1>1, <1>2 DEF IInv, FramesMatchHandles
<1>4. ld' \in Registers /\ Resting(ld', Depth)
  <2>1. ArgRefs["consult"] \in Nat
    BY RefsAreNumbers
  <2>. QED
    BY <1>1, <1>2, <1>3, <2>1, NewTermRefs, NewTermRefsShape
<1>5. TypeOK'
  BY <1>1, <1>4 DEF IInv, TypeOK
<1>6. EngineAlive'
  BY <1>1 DEF IInv, EngineAlive
<1>7. FramesMatchHandles'
  BY <1>1, <1>2, <1>3, <1>4 DEF IInv, FramesMatchHandles, Depth
<1>8. StepsMatchCall'
  BY <1>1 DEF IInv, StepsMatchCall
<1>. QED
  BY <1>5, <1>6, <1>7, <1>8 DEF IInv

\* The query is opened, or there is no room for it.
LEMMA OpenQueryInv ==
  ASSUME IInv, OpenQuery
  PROVE  IInv'
<1>1. /\ pc = "open"
      /\ UNCHANGED <<process, gd, rolog_engine, fn, fid, files, r, produced,
                     more, base, reply>>
  BY DEF OpenQuery
<1>2. ld \in Registers /\ gd.initialised /\ Depth \in {1, 2} /\ EngineTypes
  BY <1>1, ActiveFacts
<1>3. qid = 0 /\ Resting(ld, Depth)
  BY <1>1, <1>2 DEF IInv, FramesMatchHandles
<1>4. EngineAlive'
  BY <1>1 DEF IInv, EngineAlive
<1>5. CASE /\ ld' = PL_open_query(ld)
           /\ qid' = ld'.query
           /\ pc' = "next"
           /\ UNCHANGED <<exception_term, blame>>
  <2>1. ld' \in Registers /\ Opened(ld', Depth)
    BY <1>2, <1>3, <1>5, OpenQueryShape
  <2>2. qid' = Depth + 1
    BY <1>5, <2>1 DEF Opened
  <2>3. TypeOK'
    <3>1. qid' \in Nat
      BY <1>2, <2>2
    <3>. QED
      BY <1>1, <1>5, <2>1, <3>1 DEF IInv, TypeOK
  <2>4. FramesMatchHandles'
    BY <1>1, <1>2, <1>5, <2>1, <2>2 DEF IInv, FramesMatchHandles, Depth
  <2>5. StepsMatchCall'
    BY <1>1, <1>5 DEF IInv, StepsMatchCall
  <2>. QED
    BY <1>4, <2>3, <2>4, <2>5 DEF IInv
<1>6. CASE /\ ld' = PL_new_term_refs(ld, ResourceErrorRefs)
           /\ exception_term' = PL_raise_exception(exception_term, "resource")
           /\ blame' = blame \cup {"goal"}
           /\ pc' = "unwind"
           /\ UNCHANGED qid
  <2>1. ld' \in Registers /\ Resting(ld', Depth)
    <3>1. ResourceErrorRefs \in Nat
      BY DEF ResourceErrorRefs
    <3>. QED
      BY <1>2, <1>3, <1>6, <3>1, NewTermRefs, NewTermRefsShape
  <2>2. exception_term' \in Pending
    BY <1>2, <1>6, ResourceAssumption, PendingTypes DEF EngineTypes
  <2>3. TypeOK'
    <3>1. blame' \in SUBSET Origins
      BY <1>6 DEF IInv, TypeOK, Origins
    <3>. QED
      BY <1>1, <1>6, <2>1, <2>2, <3>1 DEF IInv, TypeOK
  <2>4. FramesMatchHandles'
    BY <1>1, <1>2, <1>3, <1>6, <2>1 DEF IInv, FramesMatchHandles, Depth
  <2>5. StepsMatchCall'
    BY <1>1, <1>6 DEF IInv, StepsMatchCall
  <2>. QED
    BY <1>4, <2>3, <2>4, <2>5 DEF IInv
<1>. QED
  BY <1>5, <1>6 DEF OpenQuery

\* What the invariant says about an open query.
LEMMA QueryFacts ==
  ASSUME IInv, pc \in {"next", "failed", "row"}
  PROVE  /\ gd.initialised /\ fn # "none" /\ fn \in EntryPoints /\ EngineTypes
         /\ ld \in Registers /\ Depth \in {1, 2} /\ qid = Depth + 1
         /\ Opened(ld, Depth) \/ Answered(ld, Depth)
<1>1. pc # "R"
  OBVIOUS
<1>2. /\ gd.initialised /\ fn # "none" /\ fn \in EntryPoints /\ EngineTypes
      /\ ld \in Registers /\ Depth \in {1, 2}
  BY <1>1, ActiveFacts
<1>3. qid = Depth + 1 /\ (Opened(ld, Depth) \/ Answered(ld, Depth))
  BY <1>2 DEF IInv, FramesMatchHandles
<1>. QED
  BY <1>2, <1>3

\* The machine is not entered again.
LEMMA NoChoicePointInv ==
  ASSUME IInv, NoChoicePoint
  PROVE  IInv'
<1>1. /\ pc = "next" /\ pc' = "failed" /\ ld' = Retry(ld, qid)
      /\ UNCHANGED <<process, gd, exception_term, rolog_engine, fn, fid, qid,
                     files, r, produced, more, blame, base, reply>>
  BY DEF NoChoicePoint
<1>2. /\ gd.initialised /\ ld \in Registers /\ Depth \in {1, 2} /\ qid = Depth + 1
      /\ Opened(ld, Depth) \/ Answered(ld, Depth)
  BY <1>1, QueryFacts
<1>3. ld' \in Registers /\ Opened(ld', Depth)
  BY <1>1, <1>2, RetryShape
<1>4. TypeOK'
  BY <1>1, <1>3 DEF IInv, TypeOK
<1>5. EngineAlive'
  BY <1>1 DEF IInv, EngineAlive
<1>6. FramesMatchHandles'
  BY <1>1, <1>2, <1>3 DEF IInv, FramesMatchHandles, Depth
<1>7. StepsMatchCall'
  BY <1>1 DEF IInv, StepsMatchCall
<1>. QED
  BY <1>4, <1>5, <1>6, <1>7 DEF IInv

\* The goal runs, and the machine is left in one of the ways there are.
LEMMA RunGoalInv ==
  ASSUME IInv, RunGoal
  PROVE  IInv'
<1>. DEFINE s == Retry(ld, qid)
<1>1. /\ pc = "next"
      /\ UNCHANGED <<process, rolog_engine, fn, fid, qid, files, r, base, reply>>
  BY DEF RunGoal
<1>2. /\ gd.initialised /\ fn # "none" /\ EngineTypes
      /\ ld \in Registers /\ Depth \in {1, 2} /\ qid = Depth + 1
      /\ Opened(ld, Depth) \/ Answered(ld, Depth)
  BY <1>1, QueryFacts
<1>3. s \in Registers /\ Opened(s, Depth)
  BY <1>2, RetryShape
<1>4. \E det \in BOOLEAN : ld' = LeaveVM(s, qid, det)
  BY DEF RunGoal
<1>. HIDE DEF s
<1>5. ld' \in Registers /\ Answered(ld', Depth)
  BY <1>2, <1>3, <1>4, LeaveVMShape
<1>6. exception_term' \in Pending
  <2>1. exception_term \in Pending /\ NoException \in Pending
    BY <1>2 DEF EngineTypes, Pending
  <2>2. \/ exception_term' = NoException
        \/ exception_term' \in RunQuietly(exception_term)
        \/ exception_term' \in RunAndRaise(exception_term)
        \/ exception_term' \in RunAndRethrow(exception_term)
    BY DEF RunGoal
  <2>. QED
    BY <2>1, <2>2, PendingTypes
<1>7. gd' \in GlobalData /\ gd'.initialised = gd.initialised
  <2>1. gd \in GlobalData
    BY <1>2 DEF EngineTypes
  <2>2. gd' = gd \/ gd' = [gd EXCEPT !.library = TRUE]
    BY DEF RunGoal
  <2>. QED
    BY <2>1, <2>2 DEF GlobalData
<1>8. more' \in BOOLEAN /\ blame' \in SUBSET Origins
  <2>1. more \in BOOLEAN /\ blame \in SUBSET Origins
    BY DEF IInv, TypeOK
  <2>2. blame' = blame \/ blame' = blame \cup {"goal"}
    BY DEF RunGoal
  <2>3. \/ more' = more
        \/ more' = FALSE
        \/ \E det \in BOOLEAN : more' = ~det
    BY DEF RunGoal
  <2>4. more' \in BOOLEAN
    BY <2>1, <2>3
  <2>. QED
    BY <2>1, <2>2, <2>4 DEF Origins
<1>9. /\ produced' \in Seq(Answers)
      /\ pc' = "row" => Len(produced') >= 1
      /\ pc' \in {"row", "failed"}
  <2>1. produced \in Seq(Answers) /\ files \in Seq(Files)
    BY DEF IInv, TypeOK
  <2>2. fn = "consult" => Len(files) >= 1
    BY DEF IInv, StepsMatchCall
  <2>3. GoalAnswers \subseteq Answers
    <3>1. fn = "consult" => files[1] \in Files
      BY <2>1, <2>2
    <3>. QED
      BY <3>1 DEF GoalAnswers, Answers
  <2>4. \/ pc' = "row" /\ \E x \in GoalAnswers : produced' = Append(produced, x)
        \/ pc' = "row" /\ produced' = <<"true">>
        \/ pc' = "failed" /\ produced' = produced
    BY DEF RunGoal
  <2>5. CASE pc' = "row" /\ \E x \in GoalAnswers : produced' = Append(produced, x)
    BY <2>1, <2>3, <2>5
  <2>6. CASE pc' = "row" /\ produced' = <<"true">>
    <3>1. "true" \in Answers
      BY DEF Answers
    <3>. QED
      BY <2>6, <3>1
  <2>7. CASE pc' = "failed" /\ produced' = produced
    BY <2>1, <2>7
  <2>. QED
    BY <2>4, <2>5, <2>6, <2>7
<1>10. TypeOK'
  BY <1>1, <1>5, <1>6, <1>7, <1>8, <1>9 DEF IInv, TypeOK
<1>11. EngineAlive'
  BY <1>1, <1>2, <1>7 DEF IInv, EngineAlive
<1>12. FramesMatchHandles'
  BY <1>1, <1>2, <1>5, <1>7, <1>9 DEF IInv, FramesMatchHandles, Depth
<1>13. StepsMatchCall'
  BY <1>1, <1>2, <1>9 DEF IInv, StepsMatchCall
<1>. QED
  BY <1>10, <1>11, <1>12, <1>13 DEF IInv

\* A goal that halts ends the process or goes on.
LEMMA GoalHaltsInv ==
  ASSUME IInv, GoalHalts
  PROVE  IInv'
<1>1. /\ pc = "next"
      /\ UNCHANGED <<ld, rolog_engine, pc, fn, fid, qid, files, r, produced, more,
                     blame, base, reply>>
  BY DEF GoalHalts, callVars
<1>2. process \in {"up", "exited", "dead"} /\ gd \in GlobalData
        /\ exception_term \in Pending /\ NoException \in Pending /\ gd.initialised
  BY <1>1, QueryFacts DEF EngineTypes, Pending
<1>3. /\ process' \in {"up", "exited", "dead"} /\ exception_term' \in Pending
      /\ gd' \in GlobalData /\ gd'.initialised = gd.initialised
  <2>1. CASE process' = "exited" /\ UNCHANGED <<gd, exception_term>>
    BY <1>2, <2>1
  <2>2. CASE /\ MayCancel(gd) /\ gd' = CancelHalt(gd)
             /\ exception_term' = NoException /\ UNCHANGED process
    BY <1>2, <2>2, HaltFacts
  <2>. QED
    BY <2>1, <2>2 DEF GoalHalts
<1>4. TypeOK'
  BY <1>1, <1>3 DEF IInv, TypeOK
<1>5. EngineAlive'
  BY <1>1, <1>2, <1>3 DEF IInv, EngineAlive
<1>6. FramesMatchHandles'
  BY <1>1, <1>2, <1>3 DEF IInv, FramesMatchHandles, Depth
<1>7. StepsMatchCall'
  BY <1>1 DEF IInv, StepsMatchCall
<1>. QED
  BY <1>4, <1>5, <1>6, <1>7 DEF IInv

\* rolog_consult goes on to the next file or returns.
LEMMA NextFileInv ==
  ASSUME IInv, pc # "R", fn = "consult", NEW s \in Registers, Resting(s, 1),
         NEW loaded \in Seq(Answers), NEW b \in SUBSET Origins,
         NextFile(loaded, b, s), EngineTypes', gd.initialised'
  PROVE  (TypeOK /\ FramesMatchHandles /\ StepsMatchCall)'
<1>1. CASE Len(files) = 1
  <2>1. EndCall("value", loaded, b, s)
    BY <1>1 DEF NextFile
  <2>2. "value" \in Outcomes /\ fn \in EntryPoints \cup {"none"}
    BY DEF Outcomes, EntryPoints
  <2>. QED
    BY <2>1, <2>2, EndCallInv
<1>2. CASE Len(files) # 1
  <2>1. /\ ld' = s /\ files' = Tail(files) /\ r' = loaded /\ blame' = b
        /\ qid' = 0 /\ pc' = "file"
        /\ UNCHANGED <<fn, fid, produced, more, base, reply>>
    BY <1>2 DEF NextFile
  <2>2. files' \in Seq(Files) /\ Len(files') >= 1
    <3>1. files \in Seq(Files) /\ Len(files) >= 1
      BY DEF IInv, TypeOK, StepsMatchCall
    <3>. DEFINE n == Len(files)
    <3>2. n \in Nat /\ n >= 1 /\ n # 1
      BY <1>2, <3>1
    <3>. HIDE DEF n
    <3>3. n >= 2
      BY <3>2
    <3>. QED
      BY <2>1, <3>1, <3>2, <3>3 DEF n
  <2>3. TypeOK'
    BY <2>1, <2>2 DEF IInv, TypeOK, EngineTypes
  <2>4. FramesMatchHandles'
    BY <2>1 DEF IInv, FramesMatchHandles, Depth
  <2>5. StepsMatchCall'
    BY <2>1, <2>2 DEF StepsMatchCall
  <2>. QED
    BY <2>3, <2>4, <2>5
<1>. QED
  BY <1>1, <1>2

\* The query failed or raised an exception.
LEMMA FailedInv ==
  ASSUME IInv, Failed
  PROVE  IInv'
<1>. DEFINE s == PL_close_query(ld, qid)
<1>1. pc = "failed" /\ UNCHANGED <<process, gd, exception_term, rolog_engine>>
  BY DEF Failed
<1>2. /\ gd.initialised /\ fn \in EntryPoints /\ EngineTypes
      /\ ld \in Registers /\ Depth \in {1, 2} /\ qid = Depth + 1
      /\ Opened(ld, Depth) \/ Answered(ld, Depth)
  BY <1>1, QueryFacts
<1>3. s \in Registers /\ Resting(s, Depth)
  BY <1>2, LeaveQueryShape
<1>4. EngineTypes' /\ gd.initialised' /\ EngineAlive'
  BY <1>1, <1>2 DEF EngineTypes, IInv, EngineAlive
<1>5. CASE exception_term # NoException
  <2>1. /\ ld' = PL_new_term_refs(s, ThrowRefs(exception_term))
        /\ qid' = 0 /\ pc' = "unwind"
        /\ UNCHANGED <<fn, fid, files, r, produced, more, blame, base, reply>>
    BY <1>5 DEF Failed
  <2>2. ld' \in Registers /\ Resting(ld', Depth)
    <3>. DEFINE n == ThrowRefs(exception_term)
    <3>1. n \in Nat
      BY DEF ThrowRefs
    <3>2. n \in Nat /\ ld' = PL_new_term_refs(s, n)
      BY <2>1, <3>1
    <3>. HIDE DEF s, n
    <3>. QED
      BY <1>2, <1>3, <3>2, NewTermRefs, NewTermRefsShape
  <2>3. TypeOK'
    BY <1>1, <2>1, <2>2 DEF IInv, TypeOK
  <2>4. FramesMatchHandles'
    BY <1>4, <2>1, <2>2 DEF IInv, FramesMatchHandles, Depth
  <2>5. StepsMatchCall'
    BY <1>1, <2>1 DEF IInv, StepsMatchCall
  <2>. QED
    BY <1>4, <2>3, <2>4, <2>5 DEF IInv
<1>6. CASE exception_term = NoException /\ fn = "consult"
  <2>1. NextFile(r, blame, s)
    BY <1>6 DEF Failed
  <2>2. r \in Seq(Answers) /\ blame \in SUBSET Origins
    BY DEF IInv, TypeOK
  <2>3. Resting(s, 1)
    BY <1>3, <1>6 DEF Depth
  <2>. HIDE DEF s
  <2>4. (TypeOK /\ FramesMatchHandles /\ StepsMatchCall)'
    BY <1>1, <1>3, <1>4, <1>6, <2>1, <2>2, <2>3, NextFileInv
  <2>. QED
    BY <1>4, <2>4 DEF IInv
<1>7. CASE exception_term = NoException /\ fn # "consult"
  <2>1. EndCall("value", r, blame, CloseFrame(s))
    BY <1>7 DEF Failed
  <2>2. CloseFrame(s) \in Registers /\ Resting(CloseFrame(s), 1)
    BY <1>1, <1>3, CloseFrameShape
  <2>3. "value" \in Outcomes /\ fn \in EntryPoints \cup {"none"}
    BY <1>2 DEF Outcomes
  <2>4. (TypeOK /\ FramesMatchHandles /\ StepsMatchCall)'
    BY <1>4, <2>1, <2>2, <2>3, EndCallInv
  <2>. QED
    BY <1>4, <2>4 DEF IInv
<1>. QED
  BY <1>5, <1>6, <1>7

\* The history of the exceptions a call met stays well formed.
LEMMA CleanedType ==
  ASSUME IInv, NEW p
  PROVE  Cleaned(p) \in SUBSET Origins
BY DEF IInv, TypeOK, Cleaned, Origins

\* An answer is looked at.
LEMMA RowInv ==
  ASSUME IInv, Row
  PROVE  IInv'
<1>1. pc = "row" /\ UNCHANGED <<process, gd, rolog_engine>>
  BY DEF Row
<1>2. /\ gd.initialised /\ fn \in EntryPoints /\ EngineTypes
      /\ ld \in Registers /\ Depth \in {1, 2} /\ qid = Depth + 1
  BY <1>1, QueryFacts
<1>3. Answered(ld, Depth)
  BY <1>1, <1>2 DEF IInv, FramesMatchHandles
<1>4. EngineAlive' /\ gd.initialised'
  BY <1>1, <1>2 DEF IInv, EngineAlive
<1>5. LastAnswer \in Answers
  <2>1. produced \in Seq(Answers) /\ Len(produced) >= 1
    BY <1>1 DEF IInv, TypeOK, StepsMatchCall
  <2>. QED
    BY <2>1 DEF LastAnswer
<1>6. r \in Seq(Answers) /\ Append(r, LastAnswer) \in Seq(Answers)
  <2>1. r \in Seq(Answers)
    BY DEF IInv, TypeOK
  <2>. QED
    BY <1>5, <2>1
<1>7. CASE fn \in Queries
  <2>1. UNCHANGED <<exception_term, fn, fid, qid, files, produced, more, blame,
                    base, reply>>
    BY <1>7 DEF Row
  <2>2. \/ ld' = PL_new_term_refs(ld, TypeErrorRefs) /\ pc' = "unwind" /\ r' = r
        \/ ld' = PL_new_term_refs(ld, RowRefs) /\ pc' = "next"
             /\ r' = Append(r, LastAnswer)
    BY <1>7 DEF Row
  <2>3. ld' \in Registers /\ Answered(ld', Depth)
    <3>1. TypeErrorRefs \in Nat /\ RowRefs \in Nat
      BY DEF TypeErrorRefs, RowRefs
    <3>2. PICK n \in Nat : ld' = PL_new_term_refs(ld, n)
      BY <2>2, <3>1
    <3>. QED
      BY <1>2, <1>3, <3>2, NewTermRefs, NewTermRefsShape
  <2>4. pc' \in {"unwind", "next"} /\ r' \in Seq(Answers)
    BY <1>6, <2>2
  <2>5. TypeOK'
    BY <1>1, <2>1, <2>3, <2>4 DEF IInv, TypeOK
  <2>6. FramesMatchHandles'
    BY <1>2, <1>4, <2>1, <2>3, <2>4 DEF IInv, FramesMatchHandles, Depth
  <2>7. StepsMatchCall'
    BY <1>1, <2>1, <2>4 DEF IInv, StepsMatchCall
  <2>. QED
    BY <1>4, <2>5, <2>6, <2>7 DEF IInv
<1>8. CASE fn \notin Queries
  <2>. DEFINE s == PL_cut_query(ld, qid)
              b == Cleaned(exception_term')
  <2>1. s \in Registers /\ Resting(s, Depth)
    BY <1>2, <1>3, LeaveQueryShape
  <2>2. EngineTypes'
    <3>1. exception_term' \in CutException(ld, qid, exception_term)
      BY <1>8 DEF Row
    <3>2. exception_term' \in Pending
      BY <1>2, <3>1, PendingTypes DEF EngineTypes
    <3>. QED
      BY <1>1, <1>2, <3>2 DEF EngineTypes
  <2>3. b \in SUBSET Origins
    BY CleanedType
  <2>4. "value" \in Outcomes /\ fn \in EntryPoints \cup {"none"}
    BY <1>2 DEF Outcomes
  <2>5. CASE fn = "string"
    <3>1. /\ ld' = s /\ qid' = 0 /\ blame' = b /\ pc' = "read"
          /\ UNCHANGED <<fn, fid, files, r, produced, more, base, reply>>
      BY <1>8, <2>5 DEF Row
    <3>. HIDE DEF s, b
    <3>2. TypeOK'
      BY <2>1, <2>2, <2>3, <3>1 DEF IInv, TypeOK, EngineTypes
    <3>3. FramesMatchHandles'
      BY <1>4, <2>1, <3>1 DEF IInv, FramesMatchHandles, Depth
    <3>4. StepsMatchCall'
      BY <1>1, <2>5, <3>1 DEF IInv, StepsMatchCall
    <3>. QED
      BY <1>4, <3>2, <3>3, <3>4 DEF IInv
  <2>6. CASE fn = "consult"
    <3>1. NextFile(Append(r, LastAnswer), b, s)
      BY <1>8, <2>6 DEF Row
    <3>2. Resting(s, 1)
      BY <2>1, <2>6 DEF Depth
    <3>. HIDE DEF s, b
    <3>3. (TypeOK /\ FramesMatchHandles /\ StepsMatchCall)'
      BY <1>1, <1>4, <1>6, <2>1, <2>2, <2>3, <2>6, <3>1, <3>2, NextFileInv
    <3>. QED
      BY <1>4, <3>3 DEF IInv
  <2>7. CASE fn # "string" /\ fn # "consult"
    <3>1. EndCall("value", <<>>, b, s)
      BY <1>8, <2>7 DEF Row
    <3>2. Resting(s, 1)
      BY <2>1, <2>7 DEF Depth
    <3>. HIDE DEF s, b
    <3>3. (TypeOK /\ FramesMatchHandles /\ StepsMatchCall)'
      BY <1>4, <2>1, <2>2, <2>4, <3>1, <3>2, EndCallInv
    <3>. QED
      BY <1>4, <3>3 DEF IInv
  <2>. QED
    BY <2>5, <2>6, <2>7
<1>. QED
  BY <1>7, <1>8

\* rolog_query_string looks at its answer.
LEMMA ReadInv ==
  ASSUME IInv, Read
  PROVE  IInv'
<1>1. pc = "read" /\ UNCHANGED <<process, gd, exception_term, rolog_engine>>
  BY DEF Read
<1>2. /\ gd.initialised /\ fn \in EntryPoints /\ EngineTypes
      /\ ld \in Registers /\ Depth \in {1, 2}
  BY <1>1, ActiveFacts
<1>3. qid = 0 /\ Resting(ld, Depth)
  BY <1>1, <1>2 DEF IInv, FramesMatchHandles
<1>4. EngineTypes' /\ EngineAlive' /\ gd.initialised'
  BY <1>1, <1>2 DEF IInv, EngineTypes, EngineAlive
<1>5. CASE LastAnswer \in Unconvertible
  <2>1. /\ ld' = PL_new_term_refs(ld, TypeErrorRefs) /\ pc' = "unwind"
        /\ UNCHANGED <<fn, fid, qid, files, r, produced, more, blame, base, reply>>
    BY <1>5 DEF Read
  <2>2. ld' \in Registers /\ Resting(ld', Depth)
    <3>1. TypeErrorRefs \in Nat
      BY DEF TypeErrorRefs
    <3>. QED
      BY <1>2, <1>3, <2>1, <3>1, NewTermRefs, NewTermRefsShape
  <2>3. TypeOK'
    BY <1>4, <2>1, <2>2 DEF IInv, TypeOK, EngineTypes
  <2>4. FramesMatchHandles'
    BY <1>3, <1>4, <2>1, <2>2 DEF IInv, FramesMatchHandles, Depth
  <2>5. StepsMatchCall'
    BY <1>1, <2>1 DEF IInv, StepsMatchCall
  <2>. QED
    BY <1>4, <2>3, <2>4, <2>5 DEF IInv
<1>6. CASE LastAnswer \notin Unconvertible
  <2>1. EndCall("value", <<LastAnswer>>, blame, CloseFrame(ld))
    BY <1>6 DEF Read
  <2>2. CloseFrame(ld) \in Registers /\ Resting(CloseFrame(ld), 1)
    BY <1>1, <1>2, <1>3, CloseFrameShape
  <2>3. "value" \in Outcomes /\ fn \in EntryPoints \cup {"none"}
    BY <1>2 DEF Outcomes
  <2>4. (TypeOK /\ FramesMatchHandles /\ StepsMatchCall)'
    BY <1>4, <2>1, <2>2, <2>3, EndCallInv
  <2>. QED
    BY <1>4, <2>4 DEF IInv
<1>. QED
  BY <1>5, <1>6

\* The destructors run while an exception is on its way to R.
LEMMA UnwindInv ==
  ASSUME IInv, Unwind
  PROVE  IInv'
<1>1. pc = "unwind" /\ UNCHANGED <<process, gd, rolog_engine>>
  BY DEF Unwind
<1>2. /\ gd.initialised /\ fn \in EntryPoints /\ EngineTypes
      /\ ld \in Registers /\ Depth \in {1, 2}
  BY <1>1, ActiveFacts
<1>3. \/ qid = 0 /\ Resting(ld, Depth)
      \/ qid = Depth + 1 /\ Answered(ld, Depth)
  BY <1>1, <1>2 DEF IInv, FramesMatchHandles
<1>4. EngineAlive' /\ gd.initialised'
  BY <1>1, <1>2 DEF IInv, EngineAlive
<1>5. UnwindKind \in Outcomes /\ fn \in EntryPoints \cup {"none"}
  BY <1>2 DEF UnwindKind, Outcomes
<1>6. CASE qid = 0 /\ Resting(ld, Depth)
  <2>1. EndCall(UnwindKind, <<>>, blame, CloseFrame(ld)) /\ UNCHANGED exception_term
    BY <1>6 DEF Unwind
  <2>2. CloseFrame(ld) \in Registers /\ Resting(CloseFrame(ld), 1)
    BY <1>1, <1>2, <1>6, CloseFrameShape
  <2>3. EngineTypes'
    BY <1>1, <1>2, <2>1 DEF EngineTypes
  <2>4. (TypeOK /\ FramesMatchHandles /\ StepsMatchCall)'
    BY <1>4, <1>5, <2>1, <2>2, <2>3, EndCallInv
  <2>. QED
    BY <1>4, <2>4 DEF IInv
<1>7. CASE qid = Depth + 1 /\ Answered(ld, Depth)
  <2>. DEFINE s == PL_cut_query(ld, qid)
  <2>1. qid # 0
    BY <1>2, <1>7
  <2>2. /\ exception_term' \in CutException(ld, qid, exception_term)
        /\ EndCall(UnwindKind, <<>>, Cleaned(exception_term'), CloseFrame(s))
    BY <2>1 DEF Unwind
  <2>3. s \in Registers /\ Resting(s, Depth)
    BY <1>2, <1>7, LeaveQueryShape
  <2>. HIDE DEF s
  <2>4. CloseFrame(s) \in Registers /\ Resting(CloseFrame(s), 1)
    BY <1>1, <2>3, CloseFrameShape
  <2>5. EngineTypes'
    <3>1. exception_term' \in Pending
      BY <1>2, <2>2, PendingTypes DEF EngineTypes
    <3>. QED
      BY <1>1, <1>2, <3>1 DEF EngineTypes
  <2>6. (TypeOK /\ FramesMatchHandles /\ StepsMatchCall)'
    BY <1>4, <1>5, <2>2, <2>4, <2>5, EndCallInv
  <2>. QED
    BY <1>4, <2>6 DEF IInv
<1>. QED
  BY <1>3, <1>6, <1>7

(***************************************************************************)
(* The theorems.                                                           *)
(***************************************************************************)

\* The invariant holds before R makes its first call.
LEMMA InitInv == Init => IInv
<1>. SUFFICES ASSUME Init PROVE IInv
  OBVIOUS
<1>1. TypeOK
  <2>1. gd \in GlobalData /\ ld \in Registers
    BY HaltFacts, ConstantRegisters DEF Init
  <2>2. exception_term \in Pending
    BY DEF Init, Pending
  <2>3. files \in Seq(Files) /\ r \in Seq(Answers) /\ produced \in Seq(Answers)
    BY DEF Init
  <2>4. more \in BOOLEAN /\ blame \in SUBSET Origins
    BY DEF Init
  <2>5. reply.fn = "none" /\ reply.kind = "none"
    BY DEF Init, NoReply
  <2>. QED
    BY <2>1, <2>2, <2>3, <2>4, <2>5 DEF Init, TypeOK, Outcomes
<1>2. EngineAlive /\ FramesMatchHandles /\ StepsMatchCall
  <2>1. ~gd.initialised
    BY DEF Init, ZeroData
  <2>. QED
    BY <2>1 DEF Init, EngineAlive, FramesMatchHandles, StepsMatchCall
<1>. QED
  BY <1>1, <1>2 DEF IInv

\* Every step keeps it.
LEMMA NextInv == IInv /\ [Next]_vars => IInv'
<1>. SUFFICES ASSUME IInv, [Next]_vars PROVE IInv'
  OBVIOUS
<1>1. CASE UNCHANGED vars
  BY <1>1 DEF vars, engineVars, callVars, IInv, TypeOK, EngineAlive,
              FramesMatchHandles, StepsMatchCall, Depth
<1>2. CASE CallFromR
  BY <1>2, RologQueryInv, RologQueryStringInv, QueryWithoutEngineInv,
     RologCallInv, RologConsultInv, RologInitInv, InitialiseExitsInv, RologExitInv
  DEF CallFromR
<1>3. CASE CallStep
  BY <1>3, ConsultFileInv, OpenQueryInv, NoChoicePointInv, RunGoalInv,
     GoalHaltsInv, FailedInv, RowInv, ReadInv, UnwindInv
  DEF CallStep
<1>. QED
  BY <1>1, <1>2, <1>3 DEF Next, Ended

\* The invariant is inductive.
THEOREM Invariance == Spec => []IInv
BY InitInv, NextInv, PTL DEF Spec

\* The state of a session has its type after any sequence of calls.
THEOREM TypeCorrect == Spec => []TypeOK
<1>1. IInv => TypeOK
  BY DEF IInv
<1>. QED
  BY <1>1, Invariance, PTL

\* rolog_call and rolog_consult reach the engine only while it is up.
THEOREM EngineAliveHolds == Spec => []EngineAlive
<1>1. IInv => EngineAlive
  BY DEF IInv
<1>. QED
  BY <1>1, Invariance, PTL

\* The handles of PlFrame and PlQuery and the frames of the engine agree at
\* every step of every call.
THEOREM HandlesHold == Spec => []FramesMatchHandles
<1>1. IInv => FramesMatchHandles
  BY DEF IInv
<1>. QED
  BY <1>1, Invariance, PTL

\* However a call ends, R finds the engine with the base frame alone.
THEOREM Balanced == Spec => []StackBalanced
<1>1. IInv => StackBalanced
  <2>. SUFFICES ASSUME IInv, pc = "R", gd.initialised
                PROVE  /\ ld.lstack = <<FliFrame(0, 0)>>
                       /\ ld.fli_context = 1
                       /\ ld.query = 0
    BY DEF StackBalanced
  <2>1. Resting(ld, 1)
    BY DEF IInv, FramesMatchHandles, StepsMatchCall, Depth
  <2>2. ld.lstack \in Seq(Frame)
    BY RegisterFields DEF IInv, TypeOK
  <2>3. Len(ld.lstack) = 1 /\ ld.lstack[1] = FliFrame(0, 0)
    BY <2>1 DEF Resting, Below
  <2>4. ld.lstack = <<FliFrame(0, 0)>>
    BY <2>2, <2>3
  <2>. QED
    BY <2>1, <2>4 DEF Resting
<1>. QED
  BY <1>1, Invariance, PTL

\* Neither fatalError("No foreign environment") nor the assertion of
\* PL_open_query() can be reached while the engine is up.
THEOREM ContextHolds == Spec => []ContextCurrent
<1>1. IInv => ContextCurrent
  <2>. SUFFICES ASSUME IInv, gd.initialised, pc \notin {"next", "failed"}
                PROVE  ForeignEnvironment(ld) /\ ld.fli_context = Len(ld.lstack)
    BY DEF ContextCurrent
  <2>1. Depth \in {1, 2}
    BY DEF Depth
  <2>2. Resting(ld, Depth) \/ Answered(ld, Depth)
    BY DEF IInv, FramesMatchHandles, TypeOK
  <2>3. CASE Resting(ld, Depth)
    BY <2>1, <2>3 DEF Resting, ForeignEnvironment
  <2>4. CASE Answered(ld, Depth)
    BY <2>1, <2>4 DEF Answered, ForeignEnvironment
  <2>. QED
    BY <2>2, <2>3, <2>4
<1>. QED
  BY <1>1, Invariance, PTL

=============================================================================
