--------------------------- MODULE TermConversion ---------------------------
(***************************************************************************)
(* How rolog_query and rolog_query_LL translate between R and Prolog:      *)
(* leaf() and what it calls build the term arg[0] from an R value,         *)
(* pl2r_leaf() and rolog_get() build an R value from the answer arg[1].    *)
(*                                                                         *)
(* An R value is a record with the field type, its TYPEOF(), and a field   *)
(* for its contents; a vector is the sequence of its elements.  A Prolog   *)
(* term is a record with the field kind and one for its contents.  A list  *)
(* that is not empty is the sequence of its elements and the term behind   *)
(* the last one, which is [] if the list is proper.                        *)
(***************************************************************************)
EXTENDS Integers, Sequences

CONSTANTS
  INT_MIN, INT_MAX,  \* the range of the C type int; INT_MIN is R's NA_integer_
  WideNames,         \* atoms that have no Latin-1 text
  RValues,           \* the values R may send
  Terms              \* the terms a goal may answer

ASSUME IntAssumption == INT_MIN < -1 /\ 0 <= INT_MAX

VARIABLES
  phase,   \* where the call is
  sexp,    \* the R value that was sent
  term,    \* arg[0], the term leaf() made of it
  answer,  \* arg[1], the answer of the goal
  value    \* what rolog_query() or rolog_query_LL() made of the answer

vars == <<phase, sexp, term, answer, value>>

CInt == INT_MIN .. INT_MAX

(***************************************************************************)
(* Values and terms.                                                       *)
(***************************************************************************)

Real(v)    == [type |-> "REALSXP", dbl |-> v]
Integer(v) == [type |-> "INTSXP", int |-> v]
Logical(v) == [type |-> "LGLSXP", lgl |-> v]
String(v)  == [type |-> "STRSXP", str |-> v]
Symbol(n)  == [type |-> "SYMSXP", sym |-> n]
List(v)    == [type |-> "VECSXP", elems |-> v]
NULL       == [type |-> "NILSXP", elems |-> <<>>]

\* A list whose first element has a name: rolog_get() of an atom ("Atom") and
\* of a compound ("Function").
Tagged(name, v) == [type |-> "tagged", name |-> name, elems |-> v]

\* A call: CAR(l) is a symbol or not, the arguments may have a TAG.
NoTag == ""
Lang(fun, args) == [type |-> "LANGSXP", fun |-> fun, args |-> args]
Arg(tag, x)     == [tag |-> tag, val |-> x]
NotASymbol      == ""

PlInt(n)         == [kind |-> "integer", int |-> n]
PlFloat(x)       == [kind |-> "float", dbl |-> x]
PlString(s)      == [kind |-> "string", str |-> s]
PlAtom(n)        == [kind |-> "atom", name |-> n]
Nil              == [kind |-> "nil"]
PlList(es, tail) == [kind |-> "list", elems |-> es, tail |-> tail]
Compound(n, as)  == [kind |-> "compound", name |-> n, args |-> as]
Var              == [kind |-> "variable"]
Blob             == [kind |-> "blob"]

\* A C++ exception instead of a value or a term.
Refused == [type |-> "refused", kind |-> "refused"]

Nothing == [type |-> "none", kind |-> "none"]

\* A proper list, which is [] if it has no elements.
ProperList(es) == IF es = <<>> THEN Nil ELSE PlList(es, Nil)

(***************************************************************************)
(* R to Prolog.                                                            *)
(***************************************************************************)

\* The Prolog NA.
leaf_na == PlInt(-1)

r2pl_real(v) ==
  IF Len(v) = 1 THEN PlFloat(v[1])
  ELSE ProperList([i \in 1 .. Len(v) |-> PlFloat(v[i])])

r2pl_string(v) ==
  IF Len(v) = 1 THEN PlString(v[1])
  ELSE ProperList([i \in 1 .. Len(v) |-> PlString(v[i])])

\* Only the first element counts.  An empty vector has none: v[0] is then a
\* read past its end, which finds the word u.
leaf_int(v, u) == PlInt(IF v = <<>> THEN u ELSE v[1])

leaf_logical(v, u) ==
  LET b == IF v # <<>> THEN v[1]
           ELSE IF u = 1 THEN "TRUE" ELSE IF u = 0 THEN "FALSE" ELSE "NA"
  IN  IF b = "NA" THEN leaf_na ELSE PlAtom(b)

r2pl_symbol(n) == PlAtom(n)

\* PlCompound(name, v): without arguments PL_cons_functor_v() makes an atom.
MakeCompound(n, as) == IF as = <<>> THEN PlAtom(n) ELSE Compound(n, as)

RECURSIVE leaf(_, _)

\* A named argument becomes the compound '='(Name, Value).
leaf_lang(l, u) ==
  LET as == [i \in 1 .. Len(l.args) |->
               LET x == leaf(l.args[i].val, u) IN
               IF l.args[i].tag = NoTag \/ x = Refused
                 THEN x ELSE Compound("=", <<PlAtom(l.args[i].tag), x>>)]
  IN  IF l.fun = NotASymbol \/ \E i \in DOMAIN as : as[i] = Refused
        THEN Refused
        ELSE MakeCompound(l.fun, as)

leaf(l, u) ==
  CASE l.type = "LANGSXP" -> leaf_lang(l, u)
    [] l.type = "REALSXP" -> r2pl_real(l.dbl)
    [] l.type = "LGLSXP"  -> leaf_logical(l.lgl, u)
    [] l.type = "INTSXP"  -> leaf_int(l.int, u)
    [] l.type = "SYMSXP"  -> r2pl_symbol(l.sym)
    [] l.type = "STRSXP"  -> r2pl_string(l.str)
    [] OTHER              -> leaf_na

(***************************************************************************)
(* Prolog to R.                                                            *)
(***************************************************************************)

\* (int) l: PL_get_integer() fails out of the range of int.
pl2r_int(t) == IF t.int \in CInt THEN Integer(<<t.int>>) ELSE Refused

leaf_real(t) == Real(<<t.dbl>>)

pl2r_string(t) == String(<<t.str>>)

\* Mutant: an atom is always a symbol.
SymbolOnly(t) == IF t.name \in WideNames THEN Refused ELSE Symbol(t.name)

\* (char*) l: PL_get_chars() fails on text that is not Latin-1.
leaf_symbol(t) ==
  CASE t.name \in WideNames         -> Refused
    [] t.name \in {"TRUE", "FALSE"} -> Logical(<<t.name>>)
    [] OTHER                        -> Symbol(t.name)

\* The R NA.
NA == Real(<<"-1">>)

\* PlTerm::name(): the bytes of the name of an atom or a compound.
Named(t) == t.kind \in {"atom", "list", "compound"}

Name(t) ==
  CASE t.kind = "list"        -> "[|]"
    [] t.name \in WideNames   -> "bytes"
    [] OTHER                  -> t.name

\* The arguments that are translated to named arguments.
IsNamedArg(t) == t.kind = "compound" /\ t.name = "=" /\ Len(t.args) = 2

RECURSIVE pl2r_leaf(_)

\* Mutant: the end of a partial list is taken for the end of the list.
ListToTheEnd(t) ==
  IF t = Nil THEN List(<<>>)
  ELSE LET es == [i \in 1 .. Len(t.elems) |-> pl2r_leaf(t.elems[i])]
       IN  IF \E i \in DOMAIN es : es[i] = Refused THEN Refused ELSE List(es)

\* PlTail::next() throws at the end of a partial list.
pl2r_list(t) ==
  IF t = Nil THEN List(<<>>)
  ELSE LET es == [i \in 1 .. Len(t.elems) |-> pl2r_leaf(t.elems[i])]
       IN  IF t.tail # Nil \/ \E i \in DOMAIN es : es[i] = Refused
             THEN Refused ELSE List(es)

\* Mutant: the name of a named argument is lost.
ForgetName(t) ==
  IF ~IsNamedArg(t) THEN Arg(NoTag, pl2r_leaf(t))
  ELSE IF ~Named(t.args[1]) THEN Arg(NoTag, Refused)
  ELSE Arg(NoTag, pl2r_leaf(t.args[2]))

pl2r_arg(t) ==
  IF ~IsNamedArg(t) THEN Arg(NoTag, pl2r_leaf(t))
  ELSE IF ~Named(t.args[1]) THEN Arg(NoTag, Refused)
  ELSE Arg(Name(t.args[1]), pl2r_leaf(t.args[2]))

pl2r_lang(t) ==
  LET as == [i \in 1 .. Len(t.args) |-> pl2r_arg(t.args[i])]
  IN  IF \E i \in DOMAIN as : as[i].val = Refused
        THEN Refused ELSE Lang(Name(t), as)

pl2r_leaf(t) ==
  CASE t.kind = "integer"         -> pl2r_int(t)
    [] t.kind = "float"           -> leaf_real(t)
    [] t.kind = "string"          -> pl2r_string(t)
    [] t.kind = "atom"            -> leaf_symbol(t)
    [] t.kind \in {"nil", "list"} -> pl2r_list(t)
    [] t.kind = "compound"        -> pl2r_lang(t)
    [] OTHER                      -> NA

RECURSIVE rolog_get(_)

GetAll(ts) == [i \in 1 .. Len(ts) |-> rolog_get(ts[i])]

\* The loop over a list stops where PL_get_list() fails: the end of a partial
\* list is dropped.
rolog_get(t) ==
  LET All(ts, v) == IF \E i \in DOMAIN GetAll(ts) : GetAll(ts)[i] = Refused
                      THEN Refused ELSE v
  IN
  CASE t.kind = "integer"  -> pl2r_int(t)
    [] t.kind = "float"    -> Real(<<t.dbl>>)
    [] t.kind = "string"   -> String(<<t.str>>)
    [] t.kind = "atom"     -> Tagged("Atom", <<String(<<t.name>>)>>)
    [] t.kind = "nil"      -> List(<<>>)
    [] t.kind = "list"     -> All(t.elems, List(GetAll(t.elems)))
    [] t.kind = "compound" ->
         All(t.args, Tagged("Function", <<String(<<Name(t)>>)>> \o GetAll(t.args)))
    [] OTHER               -> Real(<<>>)

(***************************************************************************)
(* Calls.                                                                  *)
(***************************************************************************)

\* rolog_query builds its argument.
Send ==
  /\ phase = "R"
  /\ \E l \in RValues, u \in CInt : sexp' = l /\ term' = leaf(l, u)
  /\ phase' = IF term' = Refused THEN "argument" ELSE "sent"
  /\ UNCHANGED <<answer, value>>

\* leaf() reads past the end of an empty vector somewhere in l.
RECURSIVE ReadsPastEnd(_)
ReadsPastEnd(l) ==
  CASE l.type = "INTSXP"  -> l.int = <<>>
    [] l.type = "LGLSXP"  -> l.lgl = <<>>
    [] l.type = "LANGSXP" -> \E i \in DOMAIN l.args : ReadsPastEnd(l.args[i].val)
    [] OTHER              -> FALSE

\* That may be the end of the process.
SendFaults ==
  /\ phase = "R"
  /\ \E l \in RValues : ReadsPastEnd(l) /\ sexp' = l
  /\ phase' = "dead"
  /\ UNCHANGED <<term, answer, value>>

\* The goal unifies arg[1] with arg[0].
Echo ==
  /\ phase = "sent"
  /\ answer' = term
  /\ phase' = "answered"
  /\ UNCHANGED <<sexp, term, value>>

\* R sends something and the goal answers something else.
Ask ==
  /\ phase = "R"
  /\ answer' \in Terms
  /\ phase' = "answered"
  /\ UNCHANGED <<sexp, term, value>>

\* The body of the loop of rolog_query.
ReceiveLeaf ==
  /\ phase = "answered"
  /\ value' = pl2r_leaf(answer)
  /\ phase' = IF value' = Refused THEN "refused" ELSE "got"
  /\ UNCHANGED <<sexp, term, answer>>

\* The body of the loop of rolog_query_LL.
ReceiveLL ==
  /\ phase = "answered"
  /\ value' = rolog_get(answer)
  /\ phase' = IF value' = Refused THEN "refused LL" ELSE "got LL"
  /\ UNCHANGED <<sexp, term, answer>>

\* R sends the value it got in another call of rolog_query.
Resend ==
  /\ phase = "got"
  /\ sexp' = value
  /\ \E u \in CInt : term' = leaf(value, u)
  /\ phase' = "resent"
  /\ UNCHANGED <<answer, value>>

Return ==
  /\ phase \in {"argument", "refused", "got", "refused LL", "got LL", "resent"}
  /\ phase' = "R"
  /\ sexp' = Nothing /\ term' = Nothing /\ answer' = Nothing /\ value' = Nothing

Dead == phase = "dead" /\ UNCHANGED vars

Init ==
  /\ phase = "R"
  /\ sexp = Nothing /\ term = Nothing /\ answer = Nothing /\ value = Nothing

Next ==
  \/ Ask \/ Send \/ SendFaults \/ Echo
  \/ ReceiveLeaf \/ ReceiveLL \/ Resend \/ Return \/ Dead

Spec == Init /\ [][Next]_vars

(***************************************************************************)
(* Properties.                                                             *)
(***************************************************************************)

\* The values that come back as they were sent: vectors of one element that
\* is no logical NA, and calls with at least one argument, made of such
\* values, in which no unnamed argument is a call of "=" with two arguments.
\* The symbols TRUE and FALSE come back as logical values.
RECURSIVE Faithful(_)
Faithful(l) ==
  CASE l.type = "REALSXP" -> Len(l.dbl) = 1
    [] l.type = "STRSXP"  -> Len(l.str) = 1
    [] l.type = "INTSXP"  -> Len(l.int) = 1
    [] l.type = "LGLSXP"  -> Len(l.lgl) = 1 /\ l.lgl[1] # "NA"
    [] l.type = "SYMSXP"  -> l.sym \notin {"TRUE", "FALSE"}
    [] l.type = "LANGSXP" ->
         /\ l.fun # NotASymbol /\ l.args # <<>>
         /\ \A i \in DOMAIN l.args :
              LET x == l.args[i].val IN
              /\ Faithful(x)
              /\ l.args[i].tag = NoTag =>
                   ~(x.type = "LANGSXP" /\ x.fun = "=" /\ Len(x.args) = 2)
    [] OTHER -> FALSE

\* A value that a goal hands back unchanged is the value R sent if and only
\* if it is Faithful: leaf() and pl2r_leaf() are inverse to each other there
\* and nowhere else.
RoundTrip ==
  phase = "got" /\ term # Nothing => (value = sexp <=> Faithful(sexp))

\* The terms that are the same after a journey through R.
RECURSIVE Stable(_)
Stable(t) ==
  CASE t.kind = "integer"  -> t.int \in CInt
    [] t.kind \in {"float", "string"} -> TRUE
    [] t.kind = "atom"     -> t.name \notin WideNames
    [] t.kind = "compound" ->
         /\ t.args # <<>> /\ t.name \notin WideNames
         /\ \A i \in DOMAIN t.args :
              IF IsNamedArg(t.args[i])
                THEN /\ t.args[i].args[1].kind = "atom"
                     /\ Stable(t.args[i].args[1])
                     /\ Stable(t.args[i].args[2])
                ELSE Stable(t.args[i])
    [] OTHER -> FALSE

\* An answer that R sends back to Prolog arrives as the same term if and only
\* if it is Stable: lists, variables and compounds without arguments do not.
TermRoundTrip == phase = "resent" => (term = answer <=> Stable(answer))

\* The terms pl2r_leaf() translates on the way: of a named argument only the
\* value.
RECURSIVE Translated(_)
Translated(t) ==
  {t} \cup
  CASE t.kind = "list"     -> UNION { Translated(t.elems[i]) : i \in DOMAIN t.elems }
    [] t.kind = "compound" ->
         UNION { Translated(IF IsNamedArg(t.args[i])
                              THEN t.args[i].args[2] ELSE t.args[i]) :
                 i \in DOMAIN t.args }
    [] OTHER -> {}

\* rolog_query ends in a type error if and only if the answer contains an
\* integer that is no C int, an atom that is not Latin-1, a partial list, or
\* an argument X = Y in which X has no name.
RefusedExactly ==
  phase \in {"got", "refused"} /\ answer # Nothing =>
    (phase = "refused" <=>
       \E t \in Translated(answer) :
         \/ t.kind = "integer" /\ t.int \notin CInt
         \/ t.kind = "atom" /\ t.name \in WideNames
         \/ t.kind = "list" /\ t.tail # Nil
         \/ t.kind = "compound" /\ \E i \in DOMAIN t.args :
              IsNamedArg(t.args[i]) /\ ~Named(t.args[i].args[1]))

=============================================================================
