-------------------------- MODULE MCTermConversion --------------------------
(***************************************************************************)
(* Small sets of R values and Prolog terms for TermConversion: all kinds   *)
(* of atomic values, calls and compounds of up to two of them, and calls   *)
(* and compounds that contain another one.                                 *)
(***************************************************************************)
EXTENDS TermConversion

MinusThree == -3

UpTo2(S) == UNION { [1 .. n -> S] : n \in 0 .. 2 }

AtomicValues ==
  { Real(v) : v \in UpTo2({"x"}) } \cup { Integer(v) : v \in UpTo2({INT_MIN, -1, 1}) }
    \cup { Logical(v) : v \in UpTo2({"TRUE", "NA"}) }
    \cup { String(v) : v \in UpTo2({"x"}) }
    \cup { Symbol(n) : n \in {"f", "TRUE"} } \cup { NULL, List(<<>>) }

Args(S) == { Arg(tag, x) : tag \in {NoTag, "f"}, x \in S }

Calls(S) == { Lang(n, as) : n \in {"f", "=", NotASymbol}, as \in UpTo2(Args(S)) }

MCRValues ==
  AtomicValues \cup Calls(AtomicValues)
    \cup { Lang(n, <<a>>) : n \in {"f", "="},
                             a \in Args(Calls({Integer(<<1>>), Symbol("f")})) }

AtomicTerms ==
  { PlInt(n) : n \in {INT_MIN - 1, INT_MIN, -1, INT_MAX, INT_MAX + 1} }
    \cup { PlFloat("x"), PlString("x"), Nil, Var, Blob }
    \cup { PlAtom(n) : n \in {"f", "TRUE", "wide"} }

Lists(S) ==
  { PlList(es, t) : es \in UpTo2(S) \ {<<>>}, t \in {Nil, Var, PlAtom("f")} }

Compounds(S) == { Compound(n, as) : n \in {"f", "="}, as \in UpTo2(S) }

FewTerms == { PlInt(INT_MAX + 1), PlAtom("f"), Var }

Nested == Lists({PlAtom("f")}) \cup Compounds(FewTerms)

MCTerms ==
  AtomicTerms \cup Lists(AtomicTerms) \cup Compounds(AtomicTerms)
    \cup Compounds(Nested) \cup Lists(Nested)
    \cup { Compound("wide", as) : as \in UpTo2(FewTerms) }

=============================================================================
